----------------------------- MODULE ProcessOutput ------------------------------
(***************************************************************************)
(* What a command writes and who gets to see it: runProcess and            *)
(* BoundedTextCapture for a shell command that is waited for, and          *)
(* appendManagedOutput and pollManagedProcess for one in the background    *)
(* (tool-runner.ts).  Bytes are numbered in the order they are written;    *)
(* of the two streams of a process one is modelled.                        *)
(***************************************************************************)
EXTENDS Integers, Sequences, SequencesExt

CONSTANTS
    OutMaxBytes,  \* what a capture retains
    OutTag,       \* bytes of the tag before a chunk of a background process
    OutManaged,   \* bytes a background process may write
    OutPoll,      \* bytes a poll returns
    OutWritten,   \* bound: bytes written
    OutChunks     \* sizes of a chunk

ASSUME OutAssumption ==
    /\ OutMaxBytes \in Nat \ {0, 1} /\ OutTag \in Nat /\ OutManaged \in Nat /\ OutPoll \in Nat \ {0}
    /\ OutWritten \in Nat /\ OutChunks \subseteq Nat \ {0}

VARIABLES
    outTool,    \* the tool: shell.run or process.start
    outTotal,   \* bytes written, totalBytes of the capture
    outHead,    \* BoundedTextCapture.head
    outTail,    \* BoundedTextCapture.tail
    outText,    \* output of the background process; 0 is a byte of a tag
    outStatus,  \* its status
    outSeen,    \* ghost: what a reader that goes from nextCursor to nextCursor has got
    outChild,   \* the child of the operating system
    outTimer,   \* its timer is set
    outListed,  \* processes has it, so a cancel reaches it
    outAnswer   \* what the caller of shell.run got

outVars == <<outTool, outTotal, outHead, outTail, outText, outStatus, outSeen, outChild, outTimer, outListed, outAnswer>>

OutStream(n) == [i \in 1..n |-> i]
OutHeadLimit == LET three == (3 * OutMaxBytes) \div 4 IN IF three > 1 THEN three ELSE 1
OutTailLimit == OutMaxBytes - OutHeadLimit

OutTypeOK ==
    /\ outTool \in {"command", "background"} /\ outTotal \in 0..OutWritten
    /\ outHead \in Seq(1..OutWritten) /\ outTail \in Seq(1..OutWritten) /\ Len(outHead) + Len(outTail) <= OutMaxBytes
    /\ outText \in Seq(0..OutWritten) /\ Len(outText) <= OutManaged /\ outSeen \in Seq(0..OutWritten)
    /\ outStatus \in {"running", "succeeded", "failed", "stopped"}
    /\ outChild \in {"running", "signalled", "gone"} /\ outTimer \in BOOLEAN /\ outListed \in BOOLEAN
    /\ outAnswer \in {"none", "ok", "failed", "timeout", "error"}

OutInit ==
    /\ outTool \in {"command", "background"} /\ outTotal = 0 /\ outHead = <<>> /\ outTail = <<>> /\ outText = <<>>
    /\ outStatus = "running" /\ outSeen = <<>> /\ outChild = "running" /\ outTimer = TRUE
    /\ outListed = (outTool = "command") /\ outAnswer = "none"

-----------------------------------------------------------------------------
(* BoundedTextCapture *)

OutLast(s, n) == SubSeq(s, IF Len(s) > n THEN Len(s) - n + 1 ELSE 1, Len(s))
OutSmaller(a, b) == IF a < b THEN a ELSE b

\* What of a chunk does not fit the head goes to the tail, which rolls.
OutHeadTakes(chunk) == OutSmaller(OutHeadLimit - Len(outHead), Len(chunk))
OutRolled(rest) ==
    IF rest = <<>> THEN outTail
    ELSE IF Len(rest) >= OutTailLimit THEN OutLast(rest, OutTailLimit) ELSE OutLast(outTail \o rest, OutTailLimit)

OutCommandWrites(n) ==
    LET chunk == [i \in 1..n |-> outTotal + i]
        k == OutHeadTakes(chunk)
    IN /\ outTool = "command" /\ outChild # "gone" /\ outTotal + n <= OutWritten /\ outTotal' = outTotal + n
       /\ outHead' = outHead \o SubSeq(chunk, 1, k) /\ outTail' = OutRolled(SubSeq(chunk, k + 1, n))
       /\ UNCHANGED <<outTool, outText, outStatus, outSeen, outChild, outTimer, outListed, outAnswer>>

OutOmitted == outTotal - (Len(outHead) + Len(outTail))

-----------------------------------------------------------------------------
(* runProcess *)

OutCapture == <<outTool, outTotal, outHead, outTail, outText, outSeen>>
\* A promise settles once.
OutSettled(answer) == IF outAnswer = "none" THEN answer ELSE outAnswer
\* SIGTERM: the process may take its time, or ignore it.
OutSignalled == IF outChild = "running" THEN "signalled" ELSE outChild

OutListedStill == outListed
OutTimesOut ==
    /\ outTool = "command" /\ outTimer /\ outTimer' = FALSE /\ outChild' = OutSignalled
    /\ outAnswer' = OutSettled("timeout") /\ outListed' = OutListedStill
    /\ UNCHANGED <<OutCapture, outStatus>>
OutTimerKept == outTimer
OutCancelled ==
    /\ outTool = "command" /\ outListed /\ outChild = "running" /\ outChild' = OutSignalled
    /\ outTimer' = OutTimerKept
    /\ UNCHANGED <<OutCapture, outStatus, outListed, outAnswer>>
OutErrors ==
    /\ outTool = "command" /\ outTotal = 0 /\ outChild = "running" /\ outChild' = "gone" /\ outTimer' = FALSE
    /\ outListed' = FALSE /\ outAnswer' = OutSettled("error")
    /\ UNCHANGED <<OutCapture, outStatus>>
OutCloses(ok) ==
    /\ outTool = "command" /\ outChild # "gone" /\ (ok => outChild = "running")
    /\ outChild' = "gone" /\ outTimer' = FALSE /\ outListed' = FALSE
    /\ outAnswer' = OutSettled(IF ok THEN "ok" ELSE "failed")
    /\ UNCHANGED <<OutCapture, outStatus>>

-----------------------------------------------------------------------------
(* Background processes *)

\* A chunk is tagged with its channel; one too many ends the process and is dropped, and
\* nothing is kept once the status is final.
OutTagged(n) == [i \in 1..(OutTag + n) |-> IF i <= OutTag THEN 0 ELSE outTotal + i - OutTag]
OutOverflows(n) == Len(outText) + OutTag + n > OutManaged
OutBackgroundWrites(n) ==
    /\ outTool = "background" /\ outChild # "gone" /\ outTotal + n <= OutWritten /\ outTotal' = outTotal + n
    /\ IF outStatus # "running" THEN UNCHANGED <<outText, outStatus, outChild>>
       ELSE IF OutOverflows(n)
            THEN outStatus' = "failed" /\ outChild' = OutSignalled /\ UNCHANGED outText
            ELSE outText' = outText \o OutTagged(n) /\ UNCHANGED <<outStatus, outChild>>
    /\ UNCHANGED <<outTool, outHead, outTail, outSeen, outTimer, outListed, outAnswer>>

\* The cursor is the caller's: one out of range is brought into it.
OutCursor(asked) == IF asked < 0 THEN 0 ELSE OutSmaller(asked, Len(outText))
OutPollEnd(asked) == OutSmaller(Len(outText), OutCursor(asked) + OutPoll)
\* Faulty variant: both ends of the page belong to it.
OutPageBoth(asked) == SubSeq(outText, IF OutCursor(asked) = 0 THEN 1 ELSE OutCursor(asked), OutPollEnd(asked))
OutPage(asked) == SubSeq(outText, OutCursor(asked) + 1, OutPollEnd(asked))
OutPolls ==
    /\ outTool = "background" /\ outSeen' = outSeen \o OutPage(Len(outSeen))
    /\ UNCHANGED <<outTool, outTotal, outHead, outTail, outText, outStatus, outChild, outTimer, outListed, outAnswer>>

OutBackgroundEnds(ok) ==
    /\ outTool = "background" /\ outChild # "gone" /\ (ok => outChild = "running")
    /\ outChild' = "gone" /\ outTimer' = FALSE
    /\ outStatus' = IF outStatus # "running" THEN outStatus ELSE IF ok THEN "succeeded" ELSE "failed"
    /\ UNCHANGED <<OutCapture, outListed, outAnswer>>
OutBackgroundStops(by) ==
    /\ outTool = "background" /\ outStatus = "running" /\ outTimer /\ outTimer' = FALSE
    /\ outStatus' = (IF by = "user" THEN "stopped" ELSE "failed") /\ outChild' = OutSignalled
    /\ UNCHANGED <<OutCapture, outListed, outAnswer>>

OutNext ==
    \/ \E n \in OutChunks : OutCommandWrites(n) \/ OutBackgroundWrites(n)
    \/ OutTimesOut \/ OutCancelled \/ OutErrors \/ OutPolls
    \/ \E ok \in BOOLEAN : OutCloses(ok) \/ OutBackgroundEnds(ok)
    \/ \E by \in {"user", "timer"} : OutBackgroundStops(by)

OutSpec == OutInit /\ [][OutNext]_outVars

-----------------------------------------------------------------------------
(* Properties *)

\* "Diagnostics keep both the command's opening context and its most recent output":
\* whatever the sizes of the chunks, the head is the beginning of the stream, the tail its
\* end, and they meet unless bytes are reported as omitted.
OutWindow ==
    outTool = "command" =>
        /\ outHead = SubSeq(OutStream(outTotal), 1, Len(outHead))
        /\ outTail = OutLast(OutStream(outTotal), Len(outTail))
        /\ OutOmitted >= 0 /\ (OutOmitted > 0 => Len(outHead) + Len(outTail) = OutMaxBytes)

\* A reader that follows nextCursor gets every byte of the log once and in order, while the
\* process goes on writing; with any other cursor a poll stays within the log.
OutReadOnce ==
    /\ outSeen = SubSeq(outText, 1, Len(outSeen))
    /\ \A asked \in -1..(OutManaged + 1) : Len(OutPage(asked)) = OutPollEnd(asked) - OutCursor(asked)

\* As long as the process of a command lives, a cancel of its request finds it, also when
\* its caller was told that it had timed out.
OutReachable == outTool = "command" /\ outChild # "gone" => outListed

\* A command that is waited for ends, even one that ignores the signal of a cancel, if its
\* timer fires.
OutCommandEnds == WF_outVars(OutTimesOut) => (outTool = "command" ~> outAnswer # "none")

\* Output is shown as it was written, however it is cut, capped and paged, and what still
\* runs can still be cancelled (BoundedTextCapture, pollManagedProcess, runProcess).
OutFaithful == OutWindow /\ OutReadOnce /\ OutReachable
=============================================================================
