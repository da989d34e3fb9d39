------------------------------- MODULE Decode -------------------------------
(****************************************************************************)
(* The decoder as extract_audio_streaming runs it (extract.rs:67-91): a     *)
(* child ffmpeg writes samples to one pipe and messages to another, and one *)
(* thread first copies the samples to an unnamed spool file until the pipe  *)
(* is closed, then collects the messages and the exit status.               *)
(*                                                                          *)
(* What ffmpeg does with a file is external: how many bytes of samples and  *)
(* of messages it writes, in which order, and whether it succeeds.  It can  *)
(* be killed at any time.  A write goes on as far as the pipe has room.     *)
(****************************************************************************)
EXTENDS Naturals, Lists

CONSTANTS
    Files,      \* records with fields bytes, messages and success, and more
    PipeSize    \* the bytes a pipe holds before its writer blocks

ASSUME PipeSizeAssumption == PipeSize \in Nat \ {0}
ASSUME FilesAssumption ==
    \A f \in Files : f.bytes \in Nat /\ f.messages \in Nat /\ f.success \in BOOLEAN

VARIABLES
    file,       \* the file being extracted
    ffmpeg,     \* "none", "running", "exited" and, once waited for, "reaped"
    status,     \* its exit status: whether it succeeded
    written,    \* bytes of samples ffmpeg has written
    said,       \* bytes of messages ffmpeg has written
    stdout,     \* bytes in the pipe of samples
    stderr,     \* bytes in the pipe of messages
    spool,      \* bytes in the spool file
    reader      \* what the extracting thread does: "spawn", "copy", "wait",
                \* "validate", and at the end "decoded", "refused" or "failed"

decode_vars == <<file, ffmpeg, status, written, said, stdout, stderr, spool, reader>>

DecodeInit ==
    /\ file \in Files
    /\ ffmpeg = "none"
    /\ status = TRUE
    /\ written = 0
    /\ said = 0
    /\ stdout = 0
    /\ stderr = 0
    /\ spool = 0
    /\ reader = "spawn"

\* Both streams are piped; a machine without ffmpeg refuses the file.
Spawn ==
    /\ reader = "spawn"
    /\ \/ reader' = "copy" /\ ffmpeg' = "running"
       \/ reader' = "failed" /\ UNCHANGED ffmpeg
    /\ UNCHANGED <<file, status, written, said, stdout, stderr, spool>>

\* The reading ends are closed when the thread has given up.
IsOpen == reader # "failed"

FfmpegWrites ==
    /\ ffmpeg = "running" /\ IsOpen
    /\ LET n == Least(file.bytes - written, PipeSize - stdout)
       IN  n > 0 /\ written' = written + n /\ stdout' = stdout + n
    /\ UNCHANGED <<file, ffmpeg, status, said, stderr, spool, reader>>

FfmpegComplains ==
    /\ ffmpeg = "running" /\ IsOpen
    /\ LET n == Least(file.messages - said, PipeSize - stderr)
       IN  n > 0 /\ said' = said + n /\ stderr' = stderr + n
    /\ UNCHANGED <<file, ffmpeg, status, written, stdout, spool, reader>>

FfmpegExits ==
    /\ ffmpeg = "running"
    /\ written = file.bytes /\ said = file.messages
    /\ ffmpeg' = "exited"
    /\ status' = file.success
    /\ UNCHANGED <<file, written, said, stdout, stderr, spool, reader>>

\* From outside at any time, or by its next write to a pipe nobody reads.
FfmpegIsKilled ==
    /\ ffmpeg = "running"
    /\ ffmpeg' = "exited"
    /\ status' = FALSE
    /\ UNCHANGED <<file, written, said, stdout, stderr, spool, reader>>

\* Mutation: the child is waited for before its output is read.
CopyAfterExit ==
    /\ reader = "copy" /\ ffmpeg = "exited"
    /\ spool' = spool + stdout
    /\ stdout' = 0
    /\ reader' = "wait"
    /\ UNCHANGED <<file, ffmpeg, status, written, said, stderr>>

\* Mutation: the exit status is not looked at.
IsEven == spool % 2 = 0

\* std::io::copy reads what is there, blocks on an empty pipe that ffmpeg has
\* open, and ends when it is closed and empty.
CopyStdout ==
    /\ reader = "copy"
    /\ \/ /\ stdout > 0
          /\ spool' = spool + stdout
          /\ stdout' = 0
          /\ UNCHANGED reader
       \/ /\ stdout = 0 /\ ffmpeg = "exited"
          /\ reader' = "wait"
          /\ UNCHANGED <<spool, stdout>>
    /\ UNCHANGED <<file, ffmpeg, status, written, said, stderr>>

\* The spool cannot be created or written: the child is dropped, which closes
\* its pipes and neither kills nor reaps it.
SpoolFails ==
    /\ reader = "copy"
    /\ reader' = "failed"
    /\ UNCHANGED <<file, ffmpeg, status, written, said, stdout, stderr, spool>>

\* wait_with_output: all the messages, then the status.
WaitWithOutput ==
    /\ reader = "wait" /\ ffmpeg = "exited"
    /\ reader' = "validate"
    /\ ffmpeg' = "reaped"
    /\ stderr' = 0
    /\ UNCHANGED <<file, status, written, said, stdout, spool>>

IsValid == status /\ spool % 2 = 0

Validate ==
    /\ reader = "validate"
    /\ reader' = IF IsValid THEN "decoded" ELSE "refused"
    /\ UNCHANGED <<file, ffmpeg, status, written, said, stdout, stderr, spool>>

Ffmpeg == FfmpegWrites \/ FfmpegComplains \/ FfmpegExits
Reader == Spawn \/ CopyStdout \/ WaitWithOutput \/ Validate
DecodeNext == Ffmpeg \/ FfmpegIsKilled \/ Reader \/ SpoolFails

\* The operating system runs both processes: a write with room for it and a
\* read with something to read do not wait for ever.
DecodeFairness == WF_decode_vars(Ffmpeg) /\ WF_decode_vars(Reader)
=============================================================================
