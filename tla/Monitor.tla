------------------------------- MODULE Monitor ------------------------------
(***************************************************************************)
(* `flasher monitor`: the read loop of esp.Monitor, the writers cmdMonitor *)
(* hands it, and the goroutine that turns a signal into a cancellation.    *)
(* Bytes are numbered as the board sends them.                             *)
(***************************************************************************)
EXTENDS Naturals, Sequences, SequencesExt

CONSTANTS
    BufSize,        \* bytes one Read returns at most (1024)
    MaxBytes,       \* bound: bytes the board sends
    MaxFaults       \* bound: failed reads and writes

ASSUME MonitorAssumption == BufSize \in Nat \ {0} /\ MaxBytes \in Nat /\ MaxFaults \in Nat

VARIABLES
    sent,           \* bytes the board has sent
    input,          \* received by the host and not read
    writers,        \* w: stdout, with -out a MultiWriter of it and the file
    out,            \* bytes in each of them
    step,           \* "reset", "check", "read", "write", "returned", "exited"
    hand,           \* bytes read and not yet written to all writers
    turn,           \* the writer whose turn it is
    readErr,        \* Read returned an error with hand
    err,            \* Monitor's result is an error
    signal, cancelled,
    exit,           \* exit status
    writeFailed, faults

vars == <<sent, input, writers, out, step, hand, turn, readErr, err, signal, cancelled,
          exit, writeFailed, faults>>

-----------------------------------------------------------------------------
(* The loop. *)

\* Operators named Bug... are mistakes that could be made in this code.  No
\* behaviour uses them: PROJECT.json pairs each with the definition it would
\* replace and the property that then fails.

Writers(tee) == IF tee THEN <<"stdout", "file">> ELSE <<"stdout">>

Init ==
    /\ \E tee \in BOOLEAN : writers = Writers(tee)
    /\ step \in {"reset", "check"}      \* with --reset, and without
    /\ sent = 0 /\ input = <<>> /\ out = [w \in {"stdout", "file"} |-> <<>>]
    /\ hand = <<>> /\ turn = 1 /\ readErr = FALSE /\ err = FALSE
    /\ signal = FALSE /\ cancelled = FALSE
    /\ exit = 0 /\ writeFailed = FALSE /\ faults = 0

\* The lines are pulsed and released.  Nothing received is discarded.
Reset ==
    /\ step = "reset" /\ step' = "check"
    /\ UNCHANGED <<sent, input, writers, out, hand, turn, readErr, err, signal, cancelled,
                   exit, writeFailed, faults>>

BugIgnoresContext == FALSE
ContextDone == cancelled

Check ==
    /\ step = "check"
    /\ step' = IF ContextDone THEN "returned" ELSE "read"
    /\ UNCHANGED <<sent, input, writers, out, hand, turn, readErr, err, signal, cancelled,
                   exit, writeFailed, faults>>

BugDroppedOnError(bytes, failed) == IF failed THEN <<>> ELSE bytes
ToWrite(bytes, failed) == bytes

BugPastBuffer == 0 .. (BufSize + 1)
Sizes == 0..BufSize

\* Some of the bytes that are there, none when the timeout comes first.  A read
\* that fails may have delivered bytes.
Read ==
    /\ step = "read"
    /\ \E n \in Sizes, failed \in BOOLEAN :
        /\ n <= Len(input)
        /\ failed => faults < MaxFaults
        /\ faults' = IF failed THEN faults + 1 ELSE faults
        /\ input' = SubSeq(input, n + 1, Len(input))
        /\ hand' = ToWrite(SubSeq(input, 1, n), failed)
        /\ readErr' = failed
    /\ step' = "write" /\ turn' = 1
    /\ UNCHANGED <<sent, writers, out, err, signal, cancelled, exit, writeFailed>>

\* One writer of the MultiWriter after the other.
Write ==
    /\ step = "write" /\ hand # <<>> /\ turn <= Len(writers)
    /\ out' = [out EXCEPT ![writers[turn]] = @ \o hand]
    /\ turn' = turn + 1
    /\ UNCHANGED <<sent, input, writers, step, hand, readErr, err, signal, cancelled,
                   exit, writeFailed, faults>>

\* A write that fails has written a part.  The rest is lost.
WriteFails ==
    /\ step = "write" /\ hand # <<>> /\ turn <= Len(writers)
    /\ faults < MaxFaults /\ faults' = faults + 1
    /\ \E n \in 0..(Len(hand) - 1) :
           out' = [out EXCEPT ![writers[turn]] = @ \o SubSeq(hand, 1, n)]
    /\ step' = "returned" /\ err' = TRUE /\ writeFailed' = TRUE /\ hand' = <<>>
    /\ UNCHANGED <<sent, input, writers, turn, readErr, signal, cancelled, exit>>

\* Nothing to write, or all written: the read error is returned, if any.
Written ==
    /\ step = "write" /\ (hand = <<>> \/ turn > Len(writers))
    /\ hand' = <<>>
    /\ step' = IF readErr THEN "returned" ELSE "check"
    /\ err' = readErr
    /\ UNCHANGED <<sent, input, writers, out, turn, readErr, signal, cancelled,
                   exit, writeFailed, faults>>

\* cmdMonitor: an error after a cancellation is not reported.
Fatal == err /\ ~cancelled

Exit ==
    /\ step = "returned" /\ step' = "exited"
    /\ exit' = IF Fatal THEN 1 ELSE 0
    /\ UNCHANGED <<sent, input, writers, out, hand, turn, readErr, err, signal, cancelled,
                   writeFailed, faults>>

-----------------------------------------------------------------------------
(* Around the loop. *)

Send ==
    /\ step # "exited" /\ sent < MaxBytes
    /\ sent' = sent + 1 /\ input' = Append(input, sent + 1)
    /\ UNCHANGED <<writers, out, step, hand, turn, readErr, err, signal, cancelled,
                   exit, writeFailed, faults>>

Interrupt ==
    /\ step # "exited" /\ ~signal /\ signal' = TRUE
    /\ UNCHANGED <<sent, input, writers, out, step, hand, turn, readErr, err, cancelled,
                   exit, writeFailed, faults>>

\* The goroutine that waits for the signal.
Cancel ==
    /\ step # "exited" /\ signal /\ ~cancelled /\ cancelled' = TRUE
    /\ UNCHANGED <<sent, input, writers, out, step, hand, turn, readErr, err, signal,
                   exit, writeFailed, faults>>

Loop == Reset \/ Check \/ Read \/ Write \/ WriteFails \/ Written \/ Exit

Next == Loop \/ Send \/ Interrupt \/ Cancel

\* Read returns within 200 ms, writers are assumed not to block; the board may be
\* silent, and need not be interrupted.
Spec == Init /\ [][Next]_vars /\ WF_vars(Loop) /\ WF_vars(Cancel)

-----------------------------------------------------------------------------
(* Properties. *)

TypeOK ==
    /\ sent \in 0..MaxBytes /\ input \in Seq(1..MaxBytes)
    /\ out \in [{"stdout", "file"} -> Seq(1..MaxBytes)]
    /\ hand \in Seq(1..MaxBytes) /\ Len(hand) <= BufSize
    /\ turn \in 1..3 /\ faults \in 0..MaxFaults /\ exit \in {0, 1}
    /\ step \in {"reset", "check", "read", "write", "returned", "exited"}

\* Of what is in hand, the part the i-th writer has yet to get.
Unwritten(i) == IF step = "write" /\ turn > i THEN <<>> ELSE hand

\* What a writer has, is still to get, and waits to be read is what the board has
\* sent, in order: nothing is skipped, repeated or overtaken, on the terminal or in
\* the file, also when a read fails with bytes in hand.  Only a write that fails
\* loses bytes, and they are the last.
Streamed ==
    /\ ~writeFailed => \A i \in DOMAIN writers :
           out[writers[i]] \o Unwritten(i) \o input = [k \in 1..sent |-> k]
    /\ \A w \in {"stdout", "file"} : IsPrefix(out[w], [k \in 1..sent |-> k])

\* "Monitor streams serial output from the port to w until ctx is cancelled"
\* (esp/monitor.go:9): a signal ends it, whatever the board sends.
Stops == signal ~> step = "exited"
=============================================================================
