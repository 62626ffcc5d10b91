--------------------------- MODULE MCBackgroundTasks ---------------------------
\* An instance of BackgroundTasks: the worker, the macro thread and the
\* recording thread over two processes, one of which may be a stop script (or
\* its fork fails).
EXTENDS BackgroundTasks
=============================================================================
