------------------------ MODULE MCMultiprocessLogging ------------------------
(* initialize_logger registers the log file handler and the stdout handler.  *)
EXTENDS MultiprocessLogging
CONSTANTS file, stdout, extra
MCFirstHandlers == <<file, stdout>>
=============================================================================
