---------------------------- MODULE MCDaqController ----------------------------
\* Instances of DaqController: packets of two pieces; the worker tries twice,
\* the monitor thread, to keep the states few, once like the journal.
EXTENDS DaqController
=============================================================================
