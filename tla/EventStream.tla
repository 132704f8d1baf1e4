------------------------------- MODULE EventStream ------------------------------
(* The text of a run on its way from the model to Main: the agent host gathers what  *)
(* the model says in a TextDeltaBuffer (workers/event-buffer.ts) and sends it with    *)
(* the events of the agent over one ordered channel; handleAgentEvent of              *)
(* run-coordinator.ts joins the pieces into the bubble of a message. Characters are   *)
(* numbered in the order they are said.                                               *)
EXTENDS Naturals, Sequences, SequencesExt

CONSTANTS
    StrPieces,       \* lengths of the pieces a model sends
    StrMax,          \* maxCharacters: the buffer is emptied at this length
    StrMaxSaid,      \* bound on the characters of a run
    StrMaxMessages   \* bound on its messages

ASSUME StrAssumption == StrPieces \subseteq Nat \ {0} /\ StrMax \in Nat \ {0}

VARIABLES
    strAgent,    \* what the agent does: "speaks", has "replied", "calls" a tool,
                 \* is "between" messages, or is "over"
    strSaid,     \* characters said in the message so far
    strCount,    \* characters said in the run
    strPending,  \* the buffer
    strTimer,    \* its timer is set
    strWire,     \* events on their way to Main
    strRun,      \* the run is "active", "paused", "completed" or "failed"
    strBubbles,  \* the texts Main has emitted, one for each messageId
    strOpen,     \* streamingMessageIds holds the id of the last bubble
    strKept,     \* messages stored: the text, and the bubble it streamed in
    strEnded     \* messages the model has ended

strVars == <<strAgent, strSaid, strCount, strPending, strTimer, strWire, strRun, strBubbles,
             strOpen, strKept, strEnded>>

StrEvent(kind, text) == [kind |-> kind, text |-> text]
StrText(text) == IF text = <<>> THEN <<>> ELSE <<StrEvent("text.delta", text)>>

\* flush: what is pending is emitted, and the timer is off; then `after` is sent.
StrEmptied(after) ==
    /\ strWire' = strWire \o StrText(strPending) \o after
    /\ strPending' = <<>> /\ strTimer' = FALSE

\* Faulty variant: what is pending stays.
StrUnemptied(after) == strWire' = strWire \o after /\ UNCHANGED <<strPending, strTimer>>
StrFlush(after) == StrEmptied(after)

\* push: the text waits for the timer, which the first piece sets, unless it is long.
StrPush(pending, piece) ==
    IF Len(pending \o piece) >= StrMax
    THEN strWire' = strWire \o StrText(pending \o piece) /\ strPending' = <<>> /\ strTimer' = FALSE
    ELSE strPending' = pending \o piece /\ strTimer' = TRUE /\ UNCHANGED strWire

StrDelta(n) ==
    /\ strAgent \in {"between", "speaks", "replied"} /\ strEnded < StrMaxMessages
    /\ strCount + n <= StrMaxSaid
    /\ LET piece == [i \in 1 .. n |-> strCount + i]
       IN StrPush(strPending, piece) /\ strSaid' = strSaid \o piece
    /\ strCount' = strCount + n /\ strAgent' = "speaks"
    /\ UNCHANGED <<strRun, strBubbles, strOpen, strKept, strEnded>>

StrTimerFires ==
    /\ strTimer /\ StrFlush(<<>>)
    /\ UNCHANGED <<strAgent, strSaid, strCount, strRun, strBubbles, strOpen, strKept, strEnded>>

\* message_end: also of a message that only calls tools, whose text is empty.
StrMessageEnds ==
    /\ strAgent \in {"between", "speaks", "replied"} /\ strEnded < StrMaxMessages
    /\ StrFlush(<<StrEvent("message.assistant", strSaid)>>)
    /\ strEnded' = strEnded + 1 /\ strAgent' = "replied" /\ strSaid' = <<>>
    /\ UNCHANGED <<strCount, strRun, strBubbles, strOpen, strKept>>

StrToolStarts ==
    /\ strAgent = "replied" /\ strAgent' = "calls"
    /\ strWire' = Append(strWire, StrEvent("tool.started", <<>>))
    /\ UNCHANGED <<strSaid, strCount, strPending, strTimer, strRun, strBubbles, strOpen, strKept, strEnded>>

StrToolEnds ==
    /\ strAgent = "calls" /\ strAgent' = "between"
    /\ strWire' = Append(strWire, StrEvent("tool.finished", <<>>))
    /\ UNCHANGED <<strSaid, strCount, strPending, strTimer, strRun, strBubbles, strOpen, strKept, strEnded>>

\* The end of startRun: the terminal event goes first, what the buffer still holds after.
StrEnds(kind) ==
    /\ strAgent \in (IF kind = "agent.completed" THEN {"replied"}
                     ELSE {"between", "speaks", "replied", "calls"})
    /\ strAgent' = "over"
    /\ strWire' = Append(strWire, StrEvent(kind, <<>>)) \o StrText(strPending)
    /\ strPending' = <<>> /\ strTimer' = FALSE
    /\ UNCHANGED <<strSaid, strCount, strRun, strBubbles, strOpen, strKept, strEnded>>

\* handleAgentEvent: a run that is not at work hears nothing.
StrMainText(event) ==
    /\ event.kind = "text.delta"
    /\ strBubbles' = IF strOpen THEN [strBubbles EXCEPT ![Len(strBubbles)] = @ \o event.text]
                     ELSE Append(strBubbles, event.text)
    /\ strOpen' = TRUE
    /\ UNCHANGED <<strRun, strKept>>

StrKeepsOpen == strOpen
StrCloses == FALSE

StrMainMessage(event) ==
    /\ event.kind = "message.assistant"
    /\ strKept' = IF event.text = <<>> THEN strKept
                  ELSE Append(strKept, [text |-> event.text, bubble |-> Len(strBubbles)])
    /\ strOpen' = StrCloses
    /\ UNCHANGED <<strRun, strBubbles>>

StrMainEnd(event) ==
    /\ event.kind \in {"agent.completed", "agent.failed"}
    /\ strRun' = IF event.kind = "agent.completed" THEN "completed" ELSE "failed"
    /\ strOpen' = FALSE
    /\ UNCHANGED <<strBubbles, strKept>>

StrMain ==
    /\ strWire # <<>> /\ strWire' = Tail(strWire)
    /\ IF strRun # "active" \/ Head(strWire).kind \in {"tool.started", "tool.finished"}
       THEN UNCHANGED <<strRun, strBubbles, strOpen, strKept>>
       ELSE \/ StrMainText(Head(strWire))
            \/ StrMainMessage(Head(strWire))
            \/ StrMainEnd(Head(strWire))
    /\ UNCHANGED <<strAgent, strSaid, strCount, strPending, strTimer, strEnded>>

\* pause and cancel; the agent may go on for a while.
StrPauses ==
    /\ strRun = "active" /\ strRun' = "paused" /\ strOpen' = FALSE
    /\ UNCHANGED <<strAgent, strSaid, strCount, strPending, strTimer, strWire, strBubbles, strKept, strEnded>>

StrInit ==
    /\ strAgent = "between" /\ strSaid = <<>> /\ strCount = 0 /\ strEnded = 0
    /\ strPending = <<>> /\ strTimer = FALSE /\ strWire = <<>>
    /\ strRun = "active" /\ strBubbles = <<>> /\ strOpen = FALSE /\ strKept = <<>>

StrNext ==
    \/ \E n \in StrPieces : StrDelta(n)
    \/ StrTimerFires \/ StrMessageEnds \/ StrToolStarts \/ StrToolEnds
    \/ \E k \in {"agent.completed", "agent.failed"} : StrEnds(k)
    \/ StrMain \/ StrPauses

StrSpec == StrInit /\ [][StrNext]_strVars

--------------------------------------------------------------------------------
(* Properties. *)

\* Text never waits in the buffer without a timer that will send it, and never grows to
\* the limit (TextDeltaBuffer: "at most 50 milliseconds", 256 characters).
StrTypeOK == strTimer = (strPending # <<>>) /\ Len(strPending) < StrMax

\* The texts that Main has shown, those on their way, and the one in the buffer.
StrParts ==
    strBubbles \o [i \in DOMAIN strWire |-> IF strWire[i].kind = "text.delta" THEN strWire[i].text ELSE <<>>]
        \o <<strPending>>

\* While the run is at work, they hold all that the model said, in that order and once.
StrNothingLost ==
    strRun = "active" =>
        /\ UNION {{StrParts[i][j] : j \in DOMAIN StrParts[i]} : i \in DOMAIN StrParts} = 1 .. strCount
        /\ \A i, k \in DOMAIN StrParts : \A j \in DOMAIN StrParts[i], l \in DOMAIN StrParts[k] :
              (i < k \/ (i = k /\ j < l)) => StrParts[i][j] < StrParts[k][l]

\* A stored message reads as the bubble it streamed in: no piece of it came after the
\* message, and no piece of another one went into its bubble.
StrBubbleWhole ==
    \A i \in DOMAIN strKept :
        /\ strKept[i].bubble \in DOMAIN strBubbles
        /\ strBubbles[strKept[i].bubble] = strKept[i].text

\* What the model says reaches the user whole, in order and in its own bubble, whenever the
\* buffer is emptied (EventBuffer, agent-host.ts).
StrTextWhole == StrNothingLost /\ StrBubbleWhole
================================================================================
