------------------------------- MODULE LastGood -------------------------------
(***************************************************************************)
(* What README.md:65 promises of a reload: a replacement takes effect as a *)
(* whole, configuration and certificate of one reload together, or leaves  *)
(* the last good state alone.                                              *)
(***************************************************************************)
EXTENDS Naturals

VARIABLES gateway,      \* the configuration in service
          good,         \* whether the process, as it was started, can run it
          certificate,  \* the certificate in service
          revision      \* how often they were replaced

LGInit == good = TRUE /\ revision = 0

Replace == revision' = revision + 1 /\ good' = TRUE

LGSpec == LGInit /\ [][Replace]_<<gateway, good, certificate, revision>>
===============================================================================
