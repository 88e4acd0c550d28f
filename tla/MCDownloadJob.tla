--------------------------- MODULE MCDownloadJob ---------------------------
(***************************************************************************)
(* Small instances of DownloadJob.                                         *)
(***************************************************************************)
EXTENDS DownloadJob

\* What is quoted has the words of the server's own cancellation, or has them in
\* another spelling and mentions a timeout of its own.
Texts == {{"job canceled"}, {"Job Canceled", "timed out"}}
\* A uuid with the digits 429 in it.
UnluckyId == {"429"}
============================================================================
