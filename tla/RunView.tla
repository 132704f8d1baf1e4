--------------------------------- MODULE RunView --------------------------------
(* The window's copy of one run (useWorkbench of renderer/src/hooks.ts): details     *)
(* asked for and answered while the person switches runs and sends messages, and     *)
(* while Main broadcasts events. Calls of the preload bridge are answered in the     *)
(* order they were made; answers and events reach the window in the order Main sent  *)
(* them.                                                                             *)
EXTENDS Naturals, Sequences, SequencesExt

CONSTANTS
    ViewRuns,      \* runs of the list
    ViewNoRun,     \* no run is selected or shown
    ViewSent,      \* messages the person sends
    ViewReplies,   \* messages of the agent
    ViewMaxSteps,  \* bound on selections, events of tools and runs, and deletions
    ViewMaxAsked   \* bound on details on their way

\* Every run holds, from before, a message that reads as the first one to be sent.
ViewOld == "earlier"
ViewNoOne == "no message"

ASSUME ViewAssumption ==
    /\ ViewRuns # {} /\ ViewNoRun \notin ViewRuns
    /\ ViewSent \cap ViewReplies = {} /\ (ViewSent \cup ViewReplies) \cap {ViewOld, ViewNoOne} = {}

VARIABLES
    viewSelected,  \* selectedRunId
    viewShown,     \* runDetail: the run and the entries of its timeline
    viewTimer,     \* eventTimer: what it will reload, for the run selected when it was set
    viewAsked,     \* details the window asked for
    viewWire,      \* answers and events on their way to the window
    viewLists,     \* refreshes on their way, each for a message or for none
    viewSends,     \* message -> where its sending stands and the run it goes to
    viewSpeaks,    \* reply -> the run it is said in, or ViewNoRun before and after
    viewStored,    \* run -> messages Main has stored
    viewDeleted,   \* runs that were deleted
    viewLeft       \* steps left of the bound

viewVars == <<viewSelected, viewShown, viewTimer, viewAsked, viewWire, viewLists, viewSends,
              viewSpeaks, viewStored, viewDeleted, viewLeft>>

ViewEntry(kind, run, id) == [kind |-> kind, run |-> run, id |-> id]
ViewIds(kind) == {e.id : e \in {d \in viewShown.entries : d.kind = kind}}
ViewNothing == [run |-> ViewNoRun, entries |-> {}]
ViewNoTimer == [what |-> "off", run |-> ViewNoRun]
ViewAsk(asked, run, for) == Append(asked, [run |-> run, for |-> for])
ViewTell(kind, run, id) == viewWire' = Append(viewWire, [kind |-> kind, run |-> run, id |-> id])
ViewStep == viewLeft > 0 /\ viewLeft' = viewLeft - 1

\* The effect on the selected run: ask for its detail, or show none.
ViewFollow(asked, run) ==
    IF run = ViewNoRun
    THEN viewAsked' = asked /\ viewShown' = ViewNothing
    ELSE viewAsked' = ViewAsk(asked, run, ViewNoOne) /\ UNCHANGED viewShown

ViewSelect(r) ==
    /\ r # viewSelected /\ ViewStep
    /\ viewSelected' = r
    /\ ViewFollow(viewAsked, r)
    /\ UNCHANGED <<viewTimer, viewWire, viewLists, viewSends, viewSpeaks, viewStored, viewDeleted>>

\* sendMessage of App.tsx, from the composer below the run shown: the message goes to the
\* selected run and is shown before Main has it.
ViewSend(m) ==
    /\ viewSends[m].at = "unsent"
    /\ viewSelected # ViewNoRun /\ viewShown.run # ViewNoRun
    /\ viewSends' = [viewSends EXCEPT ![m] = [at |-> "sent", run |-> viewSelected]]
    /\ viewShown' = IF viewShown.run # viewSelected THEN viewShown
                    ELSE [viewShown EXCEPT !.entries = @ \cup {ViewEntry("typed", viewSelected, m)}]
    /\ UNCHANGED <<viewSelected, viewTimer, viewAsked, viewWire, viewLists, viewSpeaks, viewStored,
                   viewDeleted, viewLeft>>

\* Main stores the message and tells of the run.
ViewStores(m) ==
    /\ viewSends[m].at = "sent" /\ viewSends[m].run \notin viewDeleted
    /\ viewSends' = [viewSends EXCEPT ![m].at = "stored"]
    /\ viewStored' = [viewStored EXCEPT ![viewSends[m].run] = @ \cup {m}]
    /\ ViewTell("run", viewSends[m].run, ViewNoOne)
    /\ UNCHANGED <<viewSelected, viewShown, viewTimer, viewAsked, viewLists, viewSpeaks, viewDeleted,
                   viewLeft>>

\* The handler throws, perhaps after the message was stored: only the run is reloaded.
ViewThrows(m) ==
    /\ viewSends[m].at \in {"sent", "stored"}
    /\ viewSends' = [viewSends EXCEPT ![m].at = IF @ = "sent" THEN "refused" ELSE "returned"]
    /\ viewAsked' = ViewAsk(viewAsked, viewSends[m].run, m)
    /\ UNCHANGED <<viewSelected, viewShown, viewTimer, viewWire, viewLists, viewSpeaks, viewStored,
                   viewDeleted, viewLeft>>

\* perform: a sending that succeeded refreshes the lists first.
ViewSendReturns(m) ==
    /\ viewSends[m].at = "stored"
    /\ viewSends' = [viewSends EXCEPT ![m].at = "returned"]
    /\ viewLists' = viewLists \cup {m}
    /\ UNCHANGED <<viewSelected, viewShown, viewTimer, viewAsked, viewWire, viewSpeaks, viewStored,
                   viewDeleted, viewLeft>>

\* refresh: a selection that is gone is dropped; new lists reload the selected run.
ViewListed(m) ==
    LET kept == IF viewSelected \in viewDeleted THEN ViewNoRun ELSE viewSelected
        asked == IF m = ViewNoOne THEN viewAsked ELSE ViewAsk(viewAsked, viewSends[m].run, m)
    IN /\ m \in viewLists
       /\ viewLists' = viewLists \ {m}
       /\ viewSelected' = kept
       /\ ViewFollow(asked, kept)
       /\ UNCHANGED <<viewTimer, viewWire, viewSends, viewSpeaks, viewStored, viewDeleted, viewLeft>>

\* The reply to runs:get carries what Main has stored by then.
ViewMainAnswers ==
    /\ viewAsked # <<>> /\ Len(viewWire) < ViewMaxAsked
    /\ LET ask == Head(viewAsked)
       IN viewWire' = Append(viewWire,
            IF ask.run \in viewDeleted THEN [kind |-> "error", run |-> ask.run, id |-> ask.for]
            ELSE [kind |-> "detail", run |-> ask.run, id |-> ask.for, said |-> viewStored[ask.run]])
    /\ viewAsked' = Tail(viewAsked)
    /\ UNCHANGED <<viewSelected, viewShown, viewTimer, viewLists, viewSends, viewSpeaks, viewStored,
                   viewDeleted, viewLeft>>

ViewReads(id) == IF id = ViewOld THEN CHOOSE m \in ViewSent : TRUE ELSE id
ViewSince(id) == IF id = ViewOld THEN 0 ELSE 1

\* Faulty variant: an older message that reads the same will do.
ViewCoversText(said, m) == \E id \in said : ViewReads(id) = m
\* A stored copy of a message shown early: it reads the same and is not older.
ViewCovers(said, m) == \E id \in said : ViewReads(id) = m /\ ViewSince(id) >= 1

\* What a reload of the run shown keeps of the entries that only the window has.
ViewKeeps(said) ==
    {e \in viewShown.entries : e.kind = "tool" \/ (e.kind = "typed" /\ ~ViewCovers(said, e.id))}

\* reloadRun: the detail becomes the one shown, whichever run is selected by then; the
\* sending that waited for it takes its early copy away.
ViewDetail(answer) ==
    LET said == {ViewEntry("said", answer.run, id) : id \in answer.said}
        kept == IF viewShown.run = answer.run THEN ViewKeeps(answer.said) ELSE {}
    IN [run |-> answer.run, entries |-> said \cup kept]

ViewWithout(shown, run, m) ==
    IF shown.run # run THEN shown
    ELSE [shown EXCEPT !.entries = {e \in @ : ~(e.kind = "typed" /\ e.id = m)}]

ViewAnswered ==
    /\ viewWire # <<>> /\ Head(viewWire).kind \in {"detail", "error"}
    /\ LET answer == Head(viewWire)
           shown == IF answer.kind = "error" THEN viewShown ELSE ViewDetail(answer)
       IN /\ viewShown' = ViewWithout(shown, answer.run, answer.id)
          /\ viewSends' = IF answer.id = ViewNoOne THEN viewSends
                          ELSE [viewSends EXCEPT ![answer.id].at = "done"]
    /\ viewWire' = Tail(viewWire)
    /\ UNCHANGED <<viewSelected, viewTimer, viewAsked, viewLists, viewSpeaks, viewStored, viewDeleted,
                   viewLeft>>

ViewIsShown == viewShown.run = viewSelected

\* An event of the selected run that adds to its timeline when that run is shown.
ViewAdds(event) ==
    viewShown' = IF ~ViewIsShown THEN viewShown
                 ELSE [viewShown EXCEPT !.entries = @ \cup {ViewEntry(event.kind, event.run, event.id)}]

\* subscribe: the text and the tools of the selected run are shown at once; the end of a
\* tool reloads the run, any other event the lists too. Each takes the timer over.
ViewEvent ==
    /\ viewWire # <<>> /\ Head(viewWire).kind \notin {"detail", "error"}
    /\ viewWire' = Tail(viewWire)
    /\ LET event == Head(viewWire)
           direct == event.run = viewSelected /\ event.kind \in {"stream", "tool"}
       IN /\ IF direct THEN ViewAdds(event) ELSE UNCHANGED viewShown
          /\ viewTimer' = IF ~direct THEN [what |-> "all", run |-> viewSelected]
                          ELSE IF event.kind = "tool" THEN [what |-> "run", run |-> viewSelected]
                          ELSE viewTimer
    /\ UNCHANGED <<viewSelected, viewAsked, viewLists, viewSends, viewSpeaks, viewStored, viewDeleted,
                   viewLeft>>

ViewTimerFires ==
    /\ viewTimer.what # "off"
    /\ viewTimer' = ViewNoTimer
    /\ viewLists' = IF viewTimer.what = "all" THEN viewLists \cup {ViewNoOne} ELSE viewLists
    /\ viewAsked' = IF viewTimer.run = ViewNoRun THEN viewAsked
                    ELSE ViewAsk(viewAsked, viewTimer.run, ViewNoOne)
    /\ UNCHANGED <<viewSelected, viewShown, viewWire, viewSends, viewSpeaks, viewStored, viewDeleted,
                   viewLeft>>

\* Main: a piece of a reply, its end, the end of a tool, a deletion.
ViewSpeak(a, r) ==
    /\ ViewStep /\ r \notin viewDeleted
    /\ viewSpeaks[a] \in {ViewNoRun, r} /\ \A s \in ViewRuns : a \notin viewStored[s]
    /\ viewSpeaks' = [viewSpeaks EXCEPT ![a] = r]
    /\ ViewTell("stream", r, a)
    /\ UNCHANGED <<viewSelected, viewShown, viewTimer, viewAsked, viewLists, viewSends, viewStored,
                   viewDeleted>>

ViewSpoken(a) ==
    /\ viewSpeaks[a] \notin viewDeleted \cup {ViewNoRun}
    /\ viewStored' = [viewStored EXCEPT ![viewSpeaks[a]] = @ \cup {a}]
    /\ viewSpeaks' = [viewSpeaks EXCEPT ![a] = ViewNoRun]
    /\ ViewTell("run", viewSpeaks[a], a)
    /\ UNCHANGED <<viewSelected, viewShown, viewTimer, viewAsked, viewLists, viewSends, viewDeleted,
                   viewLeft>>

ViewTool(r) ==
    /\ ViewStep /\ r \notin viewDeleted
    /\ ViewTell("tool", r, "call")
    /\ UNCHANGED <<viewSelected, viewShown, viewTimer, viewAsked, viewLists, viewSends, viewSpeaks,
                   viewStored, viewDeleted>>

ViewDelete(r) ==
    /\ ViewStep /\ r \notin viewDeleted
    /\ viewDeleted' = viewDeleted \cup {r}
    /\ viewLists' = viewLists \cup {ViewNoOne}
    /\ UNCHANGED <<viewSelected, viewShown, viewTimer, viewAsked, viewWire, viewSends, viewSpeaks,
                   viewStored>>

\* The first refresh selects the first run of the list.
ViewInit ==
    /\ viewSelected = (CHOOSE r \in ViewRuns : TRUE)
    /\ viewAsked = ViewAsk(<<>>, viewSelected, ViewNoOne)
    /\ viewShown = ViewNothing /\ viewTimer = ViewNoTimer
    /\ viewWire = <<>> /\ viewLists = {}
    /\ viewSends = [m \in ViewSent |-> [at |-> "unsent", run |-> ViewNoRun]]
    /\ viewSpeaks = [a \in ViewReplies |-> ViewNoRun]
    /\ viewStored = [r \in ViewRuns |-> {ViewOld}]
    /\ viewDeleted = {} /\ viewLeft = ViewMaxSteps

ViewNext ==
    \/ \E r \in (ViewRuns \ viewDeleted) \cup {ViewNoRun} : ViewSelect(r)
    \/ \E m \in ViewSent : ViewSend(m) \/ ViewStores(m) \/ ViewThrows(m) \/ ViewSendReturns(m)
    \/ \E m \in viewLists : ViewListed(m)
    \/ ViewMainAnswers \/ ViewAnswered \/ ViewEvent \/ ViewTimerFires
    \/ \E a \in ViewReplies, r \in ViewRuns : ViewSpeak(a, r)
    \/ \E a \in ViewReplies : ViewSpoken(a)
    \/ \E r \in ViewRuns : ViewTool(r) \/ ViewDelete(r)

ViewSpec == ViewInit /\ [][ViewNext]_viewVars

--------------------------------------------------------------------------------
(* Properties. *)

\* However switches, answers and events interleave, the timeline holds entries of the
\* run it belongs to and of no other.
ViewTypeOK ==
    /\ viewSelected \in ViewRuns \cup {ViewNoRun}
    /\ \A e \in viewShown.entries : e.run = viewShown.run

\* A message is never shown twice: as the person typed it, or as it streamed, beside
\* the stored one.
ViewNeverTwice == ViewIds("said") \cap (ViewIds("typed") \cup ViewIds("stream")) = {}

\* A message the person sees in the timeline stays in it until Main refuses the message,
\* the run goes or another run is shown: no reload that left before it was stored takes
\* it away, nor does an older message that reads the same.
ViewSentSeen(m) == m \in ViewIds("said") \cup ViewIds("typed")
ViewSentStays ==
    [][\A m \in ViewSent :
         ViewSentSeen(m) /\ viewShown'.run = viewShown.run /\ viewSends[m].at # "refused"
           /\ viewSends[m].run \notin viewDeleted
         => ViewSentSeen(m)']_viewVars

\* What the person sent and what the agent says is on view once: it neither disappears under
\* a late detail nor appears beside its stored copy (useWorkbench).
ViewShowsOnce == []ViewNeverTwice /\ ViewSentStays
================================================================================
