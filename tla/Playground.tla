----------------------------- MODULE Playground -----------------------------
(***************************************************************************)
(* The chat page of the web console: one conversation per display mode, of *)
(* which one is shown, requests that answer as an event stream or with one *)
(* response, pollers of image and video tasks, a copy of the conversations *)
(* in the browser's database, and the user, who sends, retries, stops,     *)
(* switches mode, clears, deletes and reloads while answers arrive.        *)
(*                                                                         *)
(* An event handler, the renders and effects it causes and the timers of   *)
(* zero delay it starts are one step.  A message is its id (that of the    *)
(* request whose loading message it was), its role and status, the set     *)
(* "from" of the requests whose text was written into it, and the status   *)
(* of its video task.                                                      *)
(***************************************************************************)
EXTENDS Naturals, Sequences, FiniteSets

CONSTANTS
    Modes,       \* display modes in use: some of "text", "image", "video"
    Sends,       \* the <<mode, kind of request>> pairs the user sends
    MaxReq,      \* bound: requests of a behaviour
    MaxEdits,    \* bound: clears and deletions of a behaviour
    MaxReloads,  \* bound: reloads of the page
    PollMax,     \* attempts of a poller (60 and 24 in the code)
    MaxFails,    \* consecutive network failures that end a video poller (3)
    Cleared      \* the user had cleared every conversation in an earlier visit

ASSUME ModesAssumption == Modes \subseteq {"text", "image", "video"} /\ Modes # {}
ASSUME SendsAssumption == Sends \subseteq Modes \X {"sse", "post"}
ASSUME BoundsAssumption ==
    /\ MaxReq \in Nat /\ MaxEdits \in Nat /\ MaxReloads \in Nat
    /\ PollMax \in Nat \ {0} /\ MaxFails \in Nat \ {0}
    /\ Cleared \in BOOLEAN

VARIABLES
    display,   \* the mode shown
    msgs,      \* the conversation of every mode
    req,       \* request -> its kind, its mode and whether its connection is open
    sseRef,    \* the stream Stop would close, 0 if none
    poll,      \* request -> the poller of its task
    stored,    \* the conversations in the browser's database
    dirty,     \* the 120 ms save timer is running
    crashed,   \* an update threw while rendering: the page is blank
    edits, reloads

vars == <<display, msgs, req, sseRef, poll, stored, dirty, crashed, edits, reloads>>

Reqs == 1..MaxReq
Unfinished == {"loading", "incomplete"}

UserMsg(r) ==
    [id |-> r, role |-> "user", status |-> "none", from |-> {}, task |-> "none"]
AnswerMsg(r, st) ==
    [id |-> r, role |-> "assistant", status |-> st, from |-> {}, task |-> "none"]
LoadingMsg(r) == AnswerMsg(r, "loading")
DefaultMessages == <<UserMsg(0), AnswerMsg(0, "none")>>

Idle == [on |-> FALSE, left |-> 0, fails |-> 0]
Fresh == [on |-> TRUE, left |-> PollMax, fails |-> 0]

Msg == [id : 0..MaxReq, role : {"user", "assistant"},
        status : Unfinished \cup {"none", "complete", "error"},
        from : SUBSET Reqs, task : {"none", "pending", "other", "ended"}]

TypeOK ==
    /\ display \in Modes
    /\ msgs \in [Modes -> Seq(Msg)]
    /\ req \in [Reqs -> [st : {"none", "open", "closed"}, kind : {"sse", "post"}, mode : Modes]]
    /\ sseRef \in 0..MaxReq
    /\ poll \in [Reqs -> [on : BOOLEAN, left : 0..PollMax, fails : 0..MaxFails]]
    /\ stored \in [Modes -> Seq(Msg)]
    /\ dirty \in BOOLEAN /\ crashed \in BOOLEAN
    /\ edits \in 0..MaxEdits /\ reloads \in 0..MaxReloads

Init ==
    /\ display \in Modes
    /\ msgs = [m \in Modes |-> IF Cleared THEN <<>> ELSE DefaultMessages]
    /\ req = [r \in Reqs |-> [st |-> "none", kind |-> "sse", mode |-> CHOOSE m \in Modes : TRUE]]
    /\ sseRef = 0
    /\ poll = [r \in Reqs |-> Idle]
    /\ stored = msgs
    /\ dirty = FALSE /\ crashed = FALSE
    /\ edits = 0 /\ reloads = 0

-----------------------------------------------------------------------------
(* Reading and writing a conversation.                                     *)

LastOf(s) == s[Len(s)]

\* Faulty variants of the decisions below; each breaks a property.
AnswersLast(s, r) ==
    {i \in DOMAIN s : s[i].role = "assistant" /\
        \A j \in (i + 1)..Len(s) : s[j].role # "assistant"}
GeneratingLoading(m) == \E i \in DOMAIN msgs[m] : msgs[m][i].status = "loading"
ConversationShown(r) == display
SavedIfAsked(m, save) == save
ResumesIncomplete(s, r) ==
    \E i \in DOMAIN s : s[i].id = r /\ s[i].task = "pending" /\ s[i].status = "incomplete"
NeverSpent(left) == FALSE

Answers(s, r) == {i \in DOMAIN s : s[i].id = r /\ s[i].role = "assistant"}
Generating(m) == \E i \in DOMAIN msgs[m] : msgs[m][i].status \in Unfinished
ConversationOf(r) == req[r].mode
SavedAtOnce(m, save) == save \/ m # display
Resumes(s, r) == \E i \in Answers(s, r) : s[i].task = "pending"
Spent(left) == left = 0

\* Text of stream r goes to the last message, whichever that is.
StreamText(s, r) ==
    IF s # <<>> /\ LastOf(s).role = "assistant" /\ LastOf(s).status \in Unfinished
    THEN [s EXCEPT ![Len(s)].status = "incomplete", ![Len(s)].from = @ \cup {r}]
    ELSE s

CloseTail(s, st) ==
    IF LastOf(s).status \in {"complete", "error"} THEN s
    ELSE [s EXCEPT ![Len(s)].status = st]

\* The response of a request that does not stream goes to its own message,
\* and only while that is loading.
FillLoading(s, r, st, task) ==
    [i \in DOMAIN s |->
        IF i \in Answers(s, r) /\ s[i].status = "loading"
        THEN [s[i] EXCEPT !.status = st, !.task = task, !.from = @ \cup {r}]
        ELSE s[i]]

\* A poller patches the message of its task whatever its status is.
PatchMessage(s, r, st, task) ==
    [i \in DOMAIN s |->
        IF i \in Answers(s, r)
        THEN [s[i] EXCEPT !.status = st, !.task = task, !.from = @ \cup {r}]
        ELSE s[i]]

\* The text of an image task that is pending, in a message of whatever status.
ImageText(s, r) ==
    [i \in DOMAIN s |-> IF i \in Answers(s, r) THEN [s[i] EXCEPT !.from = @ \cup {r}] ELSE s[i]]

\* setMessageForMode: the conversation shown is React state, and its save
\* waits for the timer unless the caller saves; another mode's is written and
\* saved at once.  Nothing reaches the state of a page that crashed.
SetMessageForMode(m, s, save) ==
    IF m = display /\ crashed
    THEN UNCHANGED <<msgs, stored, dirty>>
    ELSE LET all == [msgs EXCEPT ![m] = s] IN
         /\ msgs' = all
         /\ stored' = IF SavedAtOnce(m, save) THEN all ELSE stored
         /\ dirty' = (dirty \/ m = display)

\* The effect that runs after every change of what is shown: it starts a
\* poller for each unsettled video task of the conversation, one per task.
ResumePolling(p) ==
    poll' = [r \in Reqs |->
                IF ~crashed' /\ ~p[r].on /\ Resumes(msgs'[display'], r) THEN Fresh
                ELSE p[r]]

NextReq(r) == req[r].st = "none" /\ \A q \in 1..(r - 1) : req[q].st # "none"

-----------------------------------------------------------------------------
(* What the user does.  The input sends only when nothing of the mode      *)
(* shown is being generated, and offers Stop otherwise.                    *)

SendRequest(r, k, base, user) ==
    /\ ~crashed /\ ~Generating(display)
    /\ NextReq(r) /\ <<display, k>> \in Sends
    /\ req' = [req EXCEPT ![r] = [st |-> "open", kind |-> k, mode |-> display]]
    /\ sseRef' = IF k = "sse" THEN r ELSE sseRef
    /\ SetMessageForMode(display, base \o <<user, LoadingMsg(r)>>, TRUE)
    /\ UNCHANGED <<display, crashed, edits, reloads>>
    /\ ResumePolling(poll)

OnMessageSend(r, k) == SendRequest(r, k, msgs[display], UserMsg(r))

\* Retry: everything from the user message on is replaced.
OnMessageReset(r, k, i) ==
    /\ msgs[display][i].role = "user"
    /\ SendRequest(r, k, SubSeq(msgs[display], 1, i - 1), msgs[display][i])

\* Stop closes the stream last opened, of whatever mode, and ends the last
\* message of the mode shown.
OnStopGenerator ==
    LET s == msgs[display] IN
    /\ ~crashed /\ Generating(display)
    /\ req' = IF sseRef = 0 THEN req ELSE [req EXCEPT ![sseRef].st = "closed"]
    /\ sseRef' = 0
    /\ IF LastOf(s).status \in Unfinished
       THEN SetMessageForMode(display, CloseTail(s, "complete"), TRUE)
       ELSE SetMessageForMode(display, s, FALSE)
    /\ UNCHANGED <<display, crashed, edits, reloads>>
    /\ ResumePolling(poll)

SwitchMode(m) ==
    /\ ~crashed /\ m # display
    /\ display' = m
    /\ dirty' = TRUE
    /\ UNCHANGED <<msgs, req, sseRef, stored, crashed, edits, reloads>>
    /\ ResumePolling(poll)

ClearMessages ==
    /\ ~crashed /\ edits < MaxEdits
    /\ edits' = edits + 1
    /\ SetMessageForMode(display, <<>>, TRUE)
    /\ UNCHANGED <<display, req, sseRef, crashed, reloads>>
    /\ ResumePolling(poll)

\* The dialogue lets the user delete a message that is not being generated.
DeleteMessage(i) ==
    LET s == msgs[display] IN
    /\ ~crashed /\ edits < MaxEdits
    /\ s[i].status \notin Unfinished
    /\ edits' = edits + 1
    /\ SetMessageForMode(display, SubSeq(s, 1, i - 1) \o SubSeq(s, i + 1, Len(s)), TRUE)
    /\ UNCHANGED <<display, req, sseRef, crashed, reloads>>
    /\ ResumePolling(poll)

\* A reload closes every connection and poller and restores what was saved.
Reload(m) ==
    /\ reloads < MaxReloads
    /\ reloads' = reloads + 1
    /\ display' = m
    /\ msgs' = stored
    /\ req' = [r \in Reqs |-> IF req[r].st = "open" THEN [req[r] EXCEPT !.st = "closed"]
                              ELSE req[r]]
    /\ sseRef' = 0
    /\ dirty' = TRUE /\ crashed' = FALSE
    /\ UNCHANGED <<stored, edits>>
    /\ ResumePolling([r \in Reqs |-> Idle])

-----------------------------------------------------------------------------
(* What a stream does.                                                     *)

\* completeMessage reads the last message's status without a guard: on an
\* empty conversation it throws, in the render if the conversation is shown.
CompleteMessage(m, s, st) ==
    IF s # <<>>
    THEN /\ SetMessageForMode(m, CloseTail(s, st), CloseTail(s, st) # s)
         /\ UNCHANGED crashed
    ELSE /\ crashed' = (crashed \/ m = display)
         /\ dirty' = (dirty /\ m # display)
         /\ UNCHANGED <<msgs, stored>>

StreamEvent(r) == req[r].st = "open" /\ req[r].kind = "sse"

StreamChunk(r) ==
    LET m == ConversationOf(r) IN
    /\ StreamEvent(r)
    /\ SetMessageForMode(m, StreamText(msgs[m], r), FALSE)
    /\ UNCHANGED <<display, req, sseRef, crashed, edits, reloads>>
    /\ ResumePolling(poll)

\* [DONE] forgets the stream to stop even if that is a newer one.
StreamDone(r) ==
    LET m == ConversationOf(r) IN
    /\ StreamEvent(r)
    /\ req' = [req EXCEPT ![r].st = "closed"]
    /\ sseRef' = 0
    /\ CompleteMessage(m, msgs[m], "complete")
    /\ UNCHANGED <<display, edits, reloads>>
    /\ ResumePolling(poll)

\* Data that is not JSON ends the message but leaves the connection open.
StreamGarbage(r) ==
    LET m == ConversationOf(r) IN
    /\ StreamEvent(r)
    /\ CompleteMessage(m, StreamText(msgs[m], r), "error")
    /\ UNCHANGED <<display, req, sseRef, edits, reloads>>
    /\ ResumePolling(poll)

\* A bad HTTP status closes the stream and does not forget it; the error event
\* does both, but last: never if completeMessage threw at once.
StreamError(r) ==
    LET m == ConversationOf(r) IN
    /\ StreamEvent(r)
    /\ \/ req' = [req EXCEPT ![r].st = "closed"] /\ UNCHANGED sseRef
       \/ /\ ~ (msgs[m] = <<>> /\ m # display)
          /\ req' = [req EXCEPT ![r].st = "closed"] /\ sseRef' = 0
       \/ msgs[m] = <<>> /\ m # display /\ UNCHANGED <<req, sseRef>>
    /\ CompleteMessage(m, StreamText(msgs[m], r), "error")
    /\ UNCHANGED <<display, edits, reloads>>
    /\ ResumePolling(poll)

\* The server ends the response without [DONE]: no listener handles it.
StreamCut(r) ==
    /\ StreamEvent(r)
    /\ req' = [req EXCEPT ![r].st = "closed"]
    /\ UNCHANGED <<display, msgs, sseRef, poll, stored, dirty, crashed, edits, reloads>>

-----------------------------------------------------------------------------
(* What a request that does not stream and the pollers do.                 *)

Reply(r, st, task, pollImage) ==
    LET m == ConversationOf(r) IN
    /\ req[r].st = "open" /\ req[r].kind = "post"
    /\ task # "none" => m = "video" /\ st = "complete"
    /\ pollImage => m = "image" /\ st = "complete"
    /\ req' = [req EXCEPT ![r].st = "closed"]
    /\ SetMessageForMode(m, FillLoading(msgs[m], r, st, task), FALSE)
    /\ UNCHANGED <<display, sseRef, crashed, edits, reloads>>
    /\ ResumePolling(IF pollImage THEN [poll EXCEPT ![r] = Fresh] ELSE poll)

Polling(r, m) == poll[r].on /\ req[r].mode = m

\* A poll of an image task: unanswered (the attempt is spent), pending, or
\* over, by an HTTP error that changes nothing or with a result.
ImagePoll(r) ==
    LET s == msgs["image"]
        spent == IF poll[r].left = 1 THEN [poll EXCEPT ![r] = Idle]
                 ELSE [poll EXCEPT ![r].left = @ - 1]
    IN
    /\ Polling(r, "image")
    /\ UNCHANGED <<display, req, sseRef, crashed, edits, reloads>>
    /\ \/ \E p \in {spent, [poll EXCEPT ![r] = Idle]} :
              UNCHANGED <<msgs, stored, dirty>> /\ ResumePolling(p)
       \/ SetMessageForMode("image", ImageText(s, r), FALSE) /\ ResumePolling(spent)
       \/ \E st \in {"complete", "error"} :
              /\ SetMessageForMode("image", PatchMessage(s, r, st, "none"), FALSE)
              /\ ResumePolling([poll EXCEPT ![r] = Idle])

\* A poll of a video task: the patch it makes and whether it is the last one.
\* The attempt after which none is left also reports the timeout.
VideoPatch(r, st, task, p) ==
    /\ SetMessageForMode("video", PatchMessage(msgs["video"], r, st, task), TRUE)
    /\ ResumePolling([poll EXCEPT ![r] = p])

VideoPollEnds(r) == \E st \in {"complete", "error"} : VideoPatch(r, st, "ended", Idle)

VideoPollGoesOn(r) ==
    LET left == poll[r].left - 1 IN
    IF Spent(left) THEN VideoPatch(r, "error", "ended", Idle)
    ELSE \E task \in {"pending", "other"} :
             VideoPatch(r, "incomplete", task, [on |-> TRUE, left |-> left, fails |-> 0])

VideoPollFails(r) ==
    LET left == poll[r].left - 1
        fails == poll[r].fails + 1
    IN IF fails >= MaxFails \/ Spent(left) THEN VideoPatch(r, "error", "ended", Idle)
       ELSE VideoPatch(r, "complete", "pending", [on |-> TRUE, left |-> left, fails |-> fails])

VideoPoll(r) ==
    /\ Polling(r, "video")
    /\ UNCHANGED <<display, req, sseRef, crashed, edits, reloads>>
    /\ VideoPollEnds(r) \/ VideoPollGoesOn(r) \/ VideoPollFails(r)

\* The save that waits for 120 ms without a change.
PersistModeMessages ==
    /\ dirty
    /\ stored' = msgs
    /\ dirty' = FALSE
    /\ UNCHANGED <<display, msgs, req, sseRef, poll, crashed, edits, reloads>>

-----------------------------------------------------------------------------
UserStep ==
    \/ \E r \in Reqs, k \in {"sse", "post"} :
           \/ OnMessageSend(r, k)
           \/ \E i \in DOMAIN msgs[display] : OnMessageReset(r, k, i)
    \/ OnStopGenerator
    \/ ClearMessages
    \/ \E i \in DOMAIN msgs[display] : DeleteMessage(i)
    \/ \E m \in Modes : SwitchMode(m) \/ Reload(m)

NetworkStep(r) ==
    \/ StreamChunk(r) \/ StreamDone(r) \/ StreamGarbage(r) \/ StreamError(r) \/ StreamCut(r)
    \/ \E st \in {"complete", "error"}, task \in {"none", "pending", "other", "ended"},
          pollImage \in BOOLEAN : Reply(r, st, task, pollImage)
    \/ ImagePoll(r)
    \/ VideoPoll(r)

Next == UserStep \/ PersistModeMessages \/ \E r \in Reqs : NetworkStep(r)

Spec == Init /\ [][Next]_vars

\* The timer of a poller fires and its fetch returns or fails.
FairSpec == Spec /\ \A r \in Reqs : WF_vars(VideoPoll(r))

-----------------------------------------------------------------------------
(* Properties.                                                             *)

\* Text of a request is only ever written into the conversation of the mode it
\* was sent from, whichever mode is shown when it arrives, and this is so of
\* the saved conversations too.
AnswersStayInMode ==
    \A m \in Modes : \A s \in {msgs[m], stored[m]} : \A i \in DOMAIN s :
        \A r \in s[i].from : req[r].st # "none" /\ req[r].mode = m

\* The response of a request that does not stream, and what its pollers
\* report, is only ever written into the answer of that request.
RepliesStayInPlace ==
    \A m \in Modes : \A s \in {msgs[m], stored[m]} : \A i \in DOMAIN s :
        \A r \in s[i].from :
            req[r].kind = "post" => s[i].id = r /\ s[i].role = "assistant"

\* A message that waits for its request is the last of its conversation: that
\* is where streams write and where Stop looks.
OnlyTailWaits ==
    \A m \in Modes : \A i \in DOMAIN msgs[m] :
        msgs[m][i].status \in Unfinished /\ msgs[m][i].task = "none" => i = Len(msgs[m])

\* A stream whose own answer is still unfinished never writes into another one.
Mixed == {p \in Reqs \X (0..MaxReq) : p[1] # p[2] /\
             \E m \in Modes : \E i \in Answers(msgs[m], p[2]) : p[1] \in msgs[m][i].from}
StreamKeepsToOwn ==
    [][\A p \in Mixed' \ Mixed :
          ~ \E m \in Modes : \E i \in Answers(msgs[m], p[1]) :
                msgs[m][i].status \in Unfinished]_vars

\* With no save pending, what a reload would restore is what the page has: no
\* message, finished in the background or not, is only in memory.
QuietIsSaved == ~dirty /\ ~crashed => stored = msgs

\* A video answer with an unsettled task in the conversation shown comes to an
\* end, whatever is reloaded, switched, stopped or sent meanwhile.
Unsettled(r) ==
    "video" \in Modes
    /\ \E i \in DOMAIN msgs["video"] : msgs["video"][i].id = r /\ msgs["video"][i].task = "pending"
PendingVideoEnds ==
    \A r \in Reqs : (display = "video" /\ ~crashed /\ Unsettled(r))
                        ~> (~Unsettled(r) \/ display # "video" \/ crashed)
=============================================================================
