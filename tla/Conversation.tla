------------------------------ MODULE Conversation ------------------------------
(***************************************************************************)
(* What a model request of one run carries: the transcript that the Agent  *)
(* Host keeps while a run is started, its compaction into a checkpoint     *)
(* (workers/context-checkpoint.ts), and the repair of tool calls and       *)
(* results before the request (workers/model-request-pipeline.ts).  The    *)
(* agent library that appends to the transcript is external; the code does *)
(* not rely on it for results to be complete.                              *)
(*                                                                         *)
(* A message is named by its place in the transcript.                      *)
(***************************************************************************)
EXTENDS Integers, Sequences, FiniteSets, FiniteSetsExt, SequencesExt

CONSTANTS
    ConWindow,    \* tokens of the context window
    ConReserved,  \* tokens of the system prompt and the tool schemas
    ConLeast,     \* least budget of the suffix that is kept (256 in the code)
    ConMaxRefs,   \* sources a checkpoint names (120 in the code)
    ConSizes,     \* tokens of a message
    ConMaxLen     \* bound on the transcript

ASSUME ConAssumption ==
    /\ {ConWindow, ConReserved, ConLeast, ConMaxRefs, ConMaxLen} \subseteq Nat
    /\ ConSizes \subseteq Nat \ {0} /\ ConMaxLen > 0

VARIABLES
    conMessages,  \* the transcript
    conState,     \* checkpointState: how far it goes and the messages it names
    conSent,      \* the last request
    conReceipt,   \* what the receipts given at the start say of a call: done or live
    conPhase      \* what comes next

conVars == <<conMessages, conState, conSent, conReceipt, conPhase>>

\* A call of a tool that the run has, or of one that the model made up.
ConCalls == {<<>>, <<"unknown">>, <<"known", "unknown">>, <<"known", "known">>}
ConRoles == {"user", "assistant", "result", "checkpoint"}

\* `of` and `k` name the call a result belongs to; `at` is the place in the transcript, 0 for
\* the checkpoint and for results that were made up.
ConMessage ==
    [role : ConRoles, at : 0..ConMaxLen, calls : ConCalls \cup {<<"known">>}, of : 0..ConMaxLen, k : 0..2, size : Nat,
     usage : Nat]
ConPlain(role, at, size) ==
    [role |-> role, at |-> at, calls |-> <<>>, of |-> 0, k |-> 0, size |-> size, usage |-> 0]

ConTypeOK ==
    /\ conMessages \in Seq(ConMessage) /\ Len(conMessages) <= ConMaxLen
    /\ \A i \in 1..Len(conMessages) : conMessages[i].at = i
    /\ conState \in [upTo : 0..Len(conMessages), refs : Seq(1..ConMaxLen)] /\ Len(conState.refs) <= ConMaxRefs
    /\ conSent \in Seq(ConMessage) /\ conReceipt \in {"done", "live"}
    /\ conPhase \in {"ready", "model", "tools", "refused"}

ConInit ==
    /\ conMessages \in {<<ConPlain("user", 1, n)>> : n \in ConSizes}
    /\ conState = [upTo |-> 0, refs |-> <<>>] /\ conSent = <<>>
    /\ conReceipt \in {"done", "live"} /\ conPhase = "ready"

ConTokens(msgs) == SumFunction([i \in 1..Len(msgs) |-> msgs[i].size])
ConFrom(i) == SubSeq(conMessages, i, Len(conMessages))

-----------------------------------------------------------------------------
(* Compaction *)

\* estimateContextTokens: what the provider reported last counts with what came after it.
ConEstimate(msgs) ==
    LET told == {i \in 1..Len(msgs) : msgs[i].usage > 0}
    IN IF told = {} THEN ConReserved + ConTokens(msgs)
       ELSE Max({ConReserved, msgs[Max(told)].usage + ConTokens(SubSeq(msgs, Max(told) + 1, Len(msgs)))})

\* checkpointMessage.
ConCheckpoint(upTo) == IF upTo = 0 THEN <<>> ELSE <<ConPlain("checkpoint", 0, 1)>>

\* Faulty variant: every message is a group.
ConStartsAnywhere(i) == TRUE
\* atomicGroups: a group is a message, with its results if it is an assistant's with calls.
ConStarts(i) == conMessages[i].role # "result"

\* suffixBudget.
ConBudget == Max({ConLeast, (ConWindow * 45) \div 100 - ConReserved})

\* The longest suffix of groups within the budget, one at least and not all of them.
ConKeptFrom(starts) ==
    LET within == {s \in starts : ConTokens(ConFrom(s)) <= ConBudget} \cup {Max(starts)}
    IN Min(IF Min(within) = Min(starts) THEN starts \ {Min(starts)} ELSE within)

ConLatestRefs(refs) == SubSeq(refs, Max({1, Len(refs) - ConMaxRefs + 1}), Len(refs))

\* compactMessagesWithCheckpoint.
ConCompacted ==
    LET starts == {i \in (conState.upTo + 1)..Len(conMessages) : ConStarts(i)}
        upTo == ConKeptFrom(starts) - 1
        refs == conState.refs \o [i \in 1..(upTo - conState.upTo) |-> conState.upTo + i]
    IN IF \/ 10 * ConEstimate(ConCheckpoint(conState.upTo) \o ConFrom(conState.upTo + 1)) < 7 * ConWindow
          \/ Len(conMessages) - conState.upTo < 2 \/ Cardinality(starts) < 2
       THEN conState
       ELSE [upTo |-> upTo, refs |-> ConLatestRefs(refs)]

-----------------------------------------------------------------------------
(* Integrity of a request *)

ConKnown(msg) == {k \in 1..Len(msg.calls) : msg.calls[k] = "known"}
ConResults(msgs, at, k) == {i \in 1..Len(msgs) : msgs[i].role = "result" /\ msgs[i].of = at /\ msgs[i].k = k}

\* A result that is missing comes from the receipt or says that it is missing.
ConRepaired(at, k) == [ConPlain("result", 0, 1) EXCEPT !.of = at, !.k = k]

\* The result of a call: the first one there is, wherever it is.
ConResultOf(msgs, at, k) ==
    IF ConResults(msgs, at, k) # {} THEN msgs[Min(ConResults(msgs, at, k))] ELSE ConRepaired(at, k)

\* Calls of tools that the run does not have are left out.
ConStripped(msg) == [msg EXCEPT !.calls = [k \in 1..Cardinality(ConKnown(msg)) |-> "known"]]

\* An assistant's message of which nothing is left then.
ConEmptied(msg) == msg.role = "assistant" /\ msg.calls # <<>> /\ ConKnown(msg) = {}

\* What a request has for a message: nothing for a result, which comes with its call.
\* (Made-up calls come last, so the numbers of the others stay.)
ConUnit(msgs, msg) ==
    IF msg.role = "result" \/ ConEmptied(msg) THEN <<>>
    ELSE <<ConStripped(msg)>> \o [k \in 1..Cardinality(ConKnown(msg)) |-> ConResultOf(msgs, msg.at, k)]

\* prepareModelRequestMessages: each assistant message with the results of its calls right
\* after it, without calls of unknown tools and without results that belong to no call.
ConPrepared(msgs) == FlattenSeq([i \in 1..Len(msgs) |-> ConUnit(msgs, msgs[i])])

\* Calls whose receipts say that they are still under way.
ConBlocked(msgs) ==
    /\ conReceipt = "live"
    /\ \E i \in 1..Len(msgs) : \E k \in ConKnown(msgs[i]) : ConResults(msgs, msgs[i].at, k) = {}

\* transformContext.
ConRequest ==
    /\ conPhase = "ready" /\ conState' = ConCompacted
    /\ LET msgs == ConCheckpoint(conState'.upTo) \o ConFrom(conState'.upTo + 1)
       IN IF ConBlocked(msgs) THEN conPhase' = "refused" /\ UNCHANGED conSent
          ELSE conPhase' = "model" /\ conSent' = ConPrepared(msgs)
    /\ UNCHANGED <<conMessages, conReceipt>>

-----------------------------------------------------------------------------
(* The agent library *)

ConAppend(msgs) == Len(conMessages) + Len(msgs) <= ConMaxLen /\ conMessages' = conMessages \o msgs

\* The model answers; the provider may or may not report what the request cost.
ConAnswer(calls, size, reported) ==
    /\ conPhase = "model"
    /\ ConAppend(<<[ConPlain("assistant", Len(conMessages) + 1, size) EXCEPT
                      !.calls = calls, !.usage = IF reported THEN ConReserved + ConTokens(conSent) + size ELSE 0]>>)
    /\ conPhase' = IF calls = <<>> THEN "ready" ELSE "tools"
    /\ UNCHANGED <<conState, conSent, conReceipt>>

\* The results of its calls, all of them or all but the last.
ConFinish(size, missing) ==
    LET last == Len(conMessages)
    IN /\ conPhase = "tools" /\ conPhase' = "ready"
       /\ ConAppend([k \in 1..(Len(conMessages[last].calls) - missing) |->
                        [ConPlain("result", last + k, size) EXCEPT !.of = last, !.k = k]])
       /\ UNCHANGED <<conState, conSent, conReceipt>>

\* A message of the user or of the budget, put in before the next request.
ConSteer(size) ==
    /\ conPhase = "ready" /\ ConAppend(<<ConPlain("user", Len(conMessages) + 1, size)>>)
    /\ UNCHANGED <<conState, conSent, conReceipt, conPhase>>

ConNext ==
    \/ ConRequest
    \/ \E n \in ConSizes : \/ ConSteer(n)
                           \/ \E missing \in {0, 1} : ConFinish(n, missing)
                           \/ \E calls \in ConCalls, reported \in BOOLEAN : ConAnswer(calls, n, reported)

ConSpec == ConInit /\ [][ConNext]_conVars

-----------------------------------------------------------------------------
(* Properties *)

\* What goes to the provider is well formed: every call is answered, right after the message
\* that made it and in its order, and no result stands without its call.
ConPaired ==
    \A i \in 1..Len(conSent) :
        /\ conSent[i].role = "assistant" =>
              \A k \in 1..Len(conSent[i].calls) :
                  /\ i + k <= Len(conSent) /\ conSent[i + k].role = "result"
                  /\ conSent[i + k].of = conSent[i].at /\ conSent[i + k].k = k
        /\ conSent[i].role = "result" =>
              \E j \in 1..(i - 1) : conSent[j].at = conSent[i].of /\ i - j <= Len(conSent[j].calls)

ConVerbatim == {conSent[i].at : i \in 1..Len(conSent)} \ {0}

\* Nothing that was said falls between the checkpoint and the request: each message is in
\* one of them and none in both; the newest one is there word for word.  (The checkpoint
\* names the latest ConMaxRefs of those it stands for; what unknown tools were asked and what
\* they gave is left out.)
ConNothingBetween ==
    conPhase = "model" =>
        /\ \A i \in 1..Len(conMessages) :
              \/ i \in ConVerbatim /\ i > conState.upTo
              \/ i \notin ConVerbatim /\ i <= conState.upTo
                    /\ (i > conState.upTo - ConMaxRefs => Contains(conState.refs, i))
              \/ ConEmptied(conMessages[i])
              \/ conMessages[i].role = "result" /\ conMessages[conMessages[i].of].calls[conMessages[i].k] = "unknown"
        /\ conMessages[Len(conMessages)].role = "user" => Len(conMessages) \in ConVerbatim

\* A new checkpoint stands for more than the last one, and never for the newest group: the
\* results the model waits for and the request of the user stay what they are.
ConCheckpointsAdvance ==
    [][conState' # conState => conState'.upTo > conState.upTo /\ conState'.upTo < Len(conMessages)]_conVars

\* No more is summarized than needed: with the group before it, what is kept would be over
\* its budget (or would be everything).
ConKeepsWhatFits ==
    [][conState' # conState =>
          LET before == {i \in (conState.upTo + 1)..conState'.upTo : conMessages[i].role # "result"}
          IN \/ Max(before) = conState.upTo + 1
             \/ ConTokens(ConFrom(Max(before))) > (ConWindow * 45) \div 100 - ConReserved]_conVars

\* A request carries the conversation: well formed, nothing between checkpoint and suffix,
\* and each compaction moves on without taking more than it must.
ConRequestWhole ==
    /\ [][ConPaired' /\ ConNothingBetween']_conVars
    /\ ConCheckpointsAdvance
    /\ ConKeepsWhatFits
=============================================================================
