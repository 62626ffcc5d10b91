------------------------------ MODULE MCDataVault ------------------------------
\* Instances of DataVault: two moments in different seconds, of which the
\* earlier one has more milliseconds, so that two sequences can run and each of
\* them, or the operator, can acquire.
EXTENDS DataVault

MCClock == <<[sec |-> 0, ms |-> 10], [sec |-> 1, ms |-> 0]>>

MCSteps == <<"RESET_DAQ", "ACQUIRE_TDC_CALIBRATION", "PROCESS_TDC_CALIBRATION">>
=============================================================================
