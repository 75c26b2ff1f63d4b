-------------------------- MODULE PlaygroundProofs --------------------------
(***************************************************************************)
(* Proofs about Playground, for every set of modes and every number of     *)
(* requests, attempts, edits and reloads: what arrives is written into the *)
(* conversation, and for single responses into the message, it is for.     *)
(***************************************************************************)
EXTENDS Playground, SequenceTheorems, TLAPS

-----------------------------------------------------------------------------
(* The inductive invariant.  It says of every message of every             *)
(* conversation that the text in it comes from requests of that mode, that *)
(* an answer belongs to a request of that mode, and that its task, if it   *)
(* has one, is that of a request that was sent and does not stream: else a *)
(* poller that is resumed for it could write anywhere.                     *)

Sent(r) == req[r].st # "none"
Posted(r) == Sent(r) /\ req[r].kind = "post"

FromOK(x, m) ==
    \A r \in x.from :
        /\ Sent(r) /\ req[r].mode = m
        /\ req[r].kind = "post" => x.id = r /\ x.role = "assistant"
OwnOK(x, m) ==
    x.role = "assistant" /\ x.id \in Reqs => Sent(x.id) /\ req[x.id].mode = m
TaskOK(x) == x.task # "none" /\ x.id \in Reqs => Posted(x.id)
Good(m) == {x \in Msg : FromOK(x, m) /\ OwnOK(x, m) /\ TaskOK(x)}

Conversations ==
    \A m \in Modes : msgs[m] \in Seq(Good(m)) /\ stored[m] \in Seq(Good(m))

\* A poller that runs has attempts left and a request that was sent.
PollOK(p) == \A r \in Reqs : p[r].on => p[r].left > 0 /\ p[r].fails < MaxFails /\ Posted(r)

PageInv == TypeOK /\ Conversations /\ PollOK(poll)

PollType == [Reqs -> [on : BOOLEAN, left : 0..PollMax, fails : 0..MaxFails]]

-----------------------------------------------------------------------------
(* Sequences of messages, whatever is required of the messages.            *)

LEMMA SameShape ==
    ASSUME NEW S, NEW s \in Seq(S), NEW t, DOMAIN t = DOMAIN s,
           t = [i \in DOMAIN s |-> t[i]], \A i \in DOMAIN s : t[i] \in S
    PROVE  t \in Seq(S)
  <1>1. DOMAIN s = 1..Len(s) /\ Len(s) \in Nat
    BY LenProperties
  <1>2. t \in [1..Len(s) -> S]
    BY <1>1
  <1>. QED
    BY <1>1, <1>2, SeqDef

LEMMA Element ==
    ASSUME NEW S, NEW s \in Seq(S)
    PROVE  /\ \A i \in DOMAIN s : s[i] \in S /\ i \in Nat /\ i >= 1 /\ i <= Len(s)
           /\ s # <<>> => Len(s) \in DOMAIN s /\ LastOf(s) \in S
  <1>1. DOMAIN s = 1..Len(s) /\ Len(s) \in Nat
    BY LenProperties
  <1>2. s # <<>> => Len(s) \in Nat \ {0}
    BY EmptySeq
  <1>. QED
    BY <1>1, <1>2, ElementOfSeq DEF LastOf

LEMMA Without ==
    ASSUME NEW S, NEW s \in Seq(S), NEW i \in DOMAIN s
    PROVE  /\ SubSeq(s, 1, i - 1) \in Seq(S)
           /\ SubSeq(s, i + 1, Len(s)) \in Seq(S)
           /\ SubSeq(s, 1, i - 1) \o SubSeq(s, i + 1, Len(s)) \in Seq(S)
  <1>1. i \in 1..Len(s) /\ Len(s) \in Nat
    BY LenProperties
  <1>2. \A j \in 1..Len(s) : s[j] \in S
    BY ElementOfSeq
  <1>3. SubSeq(s, 1, i - 1) \in Seq(S)
    <2>1. \A j \in 1..(i - 1) : s[j] \in S
      BY <1>1, <1>2
    <2>. QED
      BY <1>1, <2>1, SubSeqProperties
  <1>4. SubSeq(s, i + 1, Len(s)) \in Seq(S)
    <2>1. \A j \in (i + 1)..Len(s) : s[j] \in S
      BY <1>1, <1>2
    <2>. QED
      BY <1>1, <2>1, SubSeqProperties
  <1>. QED
    BY <1>3, <1>4, ConcatProperties

LEMMA AppendTwo ==
    ASSUME NEW S, NEW s \in Seq(S), NEW x \in S, NEW y \in S
    PROVE  s \o <<x, y>> \in Seq(S)
  <1>1. <<x, y>> \in Seq(S)
    OBVIOUS
  <1>. QED
    BY <1>1, ConcatProperties

-----------------------------------------------------------------------------
(* Messages that are written stay as the invariant wants them.             *)

Statuses == Unfinished \cup {"none", "complete", "error"}
Tasks == {"none", "pending", "other", "ended"}

\* Request r may write into message x of conversation m.
MayWrite(r, x, m) ==
    /\ Sent(r) /\ req[r].mode = m
    /\ req[r].kind = "sse" \/ (x.id = r /\ x.role = "assistant")

LEMMA Written ==
    ASSUME NEW m \in Modes, NEW x \in Good(m), NEW r \in Reqs, MayWrite(r, x, m),
           NEW st \in Statuses, NEW task \in Tasks,
           task = x.task \/ (x.id = r /\ req[r].kind = "post")
    PROVE  [x EXCEPT !.status = st, !.task = task, !.from = @ \cup {r}] \in Good(m)
  <1>. DEFINE y == [x EXCEPT !.status = st, !.task = task, !.from = @ \cup {r}]
  <1>1. /\ y \in Msg /\ y.from = x.from \cup {r} /\ y.id = x.id /\ y.role = x.role
        /\ y.task = task
    BY DEF Good, Msg, Statuses, Tasks
  <1>. HIDE DEF y
  <1>2. FromOK(y, m)
    BY <1>1 DEF Good, FromOK, MayWrite
  <1>3. TaskOK(y)
    BY <1>1 DEF Good, TaskOK, MayWrite, Posted
  <1>4. OwnOK(y, m)
    BY <1>1 DEF Good, OwnOK
  <1>. QED
    BY <1>1, <1>2, <1>3, <1>4 DEF Good, y

LEMMA StreamTextGood ==
    ASSUME NEW m \in Modes, NEW s \in Seq(Good(m)), NEW r \in Reqs,
           Sent(r), req[r].mode = m, req[r].kind = "sse"
    PROVE  StreamText(s, r) \in Seq(Good(m))
  <1>1. CASE s # <<>>
    <2>. DEFINE x == s[Len(s)]
                y == [x EXCEPT !.status = "incomplete", !.from = @ \cup {r}]
    <2>1. x \in Good(m) /\ Len(s) \in 1..Len(s)
      BY <1>1, Element, LenProperties DEF LastOf
    <2>2. y = [x EXCEPT !.status = "incomplete", !.task = x.task, !.from = @ \cup {r}]
      BY <2>1 DEF Good, Msg
    <2>3. y \in Good(m)
      <3>1. MayWrite(r, x, m) /\ x.task \in Tasks /\ "incomplete" \in Statuses
        BY <2>1 DEF MayWrite, Good, Msg, Tasks, Statuses, Unfinished
      <3>. HIDE DEF x
      <3>2. [x EXCEPT !.status = "incomplete", !.task = x.task, !.from = @ \cup {r}] \in Good(m)
        BY <2>1, <3>1, Written
      <3>. QED
        BY <2>2, <3>2
    <2>4. StreamText(s, r) \in {s, [s EXCEPT ![Len(s)] = y]}
      BY DEF StreamText
    <2>. HIDE DEF x, y
    <2>. QED
      BY <2>1, <2>3, <2>4, ExceptSeq
  <1>2. CASE s = <<>>
    BY <1>2 DEF StreamText
  <1>. QED
    BY <1>1, <1>2

LEMMA CloseTailGood ==
    ASSUME NEW m \in Modes, NEW s \in Seq(Good(m)), s # <<>>, NEW st \in {"complete", "error"}
    PROVE  CloseTail(s, st) \in Seq(Good(m))
  <1>. DEFINE x == s[Len(s)]
              y == [x EXCEPT !.status = st]
  <1>1. x \in Good(m) /\ Len(s) \in 1..Len(s)
    BY Element, LenProperties DEF LastOf
  <1>2. y \in Good(m)
    <2>1. y \in Msg /\ y.from = x.from /\ y.id = x.id /\ y.role = x.role /\ y.task = x.task
      BY <1>1 DEF Good, Msg
    <2>. HIDE DEF y
    <2>. QED
      BY <1>1, <2>1 DEF Good, FromOK, OwnOK, TaskOK
  <1>3. CloseTail(s, st) \in {s, [s EXCEPT ![Len(s)] = y]}
    BY DEF CloseTail
  <1>. HIDE DEF x, y
  <1>. QED
    BY <1>1, <1>2, <1>3, ExceptSeq

LEMMA AnswersWritten ==
    ASSUME NEW m \in Modes, NEW s \in Seq(Good(m)), NEW r \in Reqs, Posted(r), req[r].mode = m,
           NEW st \in Statuses, NEW task \in Tasks, NEW i \in Answers(s, r)
    PROVE  [s[i] EXCEPT !.status = st, !.task = task, !.from = @ \cup {r}] \in Good(m)
  <1>1. s[i] \in Good(m) /\ s[i].id = r /\ s[i].role = "assistant"
    BY Element DEF Answers
  <1>2. MayWrite(r, s[i], m) /\ req[r].kind = "post"
    BY <1>1 DEF MayWrite, Posted
  <1>. QED
    BY <1>1, <1>2, Written

LEMMA FillLoadingGood ==
    ASSUME NEW m \in Modes, NEW s \in Seq(Good(m)), NEW r \in Reqs, Posted(r), req[r].mode = m,
           NEW st \in Statuses, NEW task \in Tasks
    PROVE  FillLoading(s, r, st, task) \in Seq(Good(m))
  <1>. DEFINE t == FillLoading(s, r, st, task)
  <1>1. DOMAIN t = DOMAIN s /\ t = [i \in DOMAIN s |-> t[i]]
    BY DEF FillLoading
  <1>2. \A i \in DOMAIN s : t[i] \in Good(m)
    BY Element, AnswersWritten DEF FillLoading
  <1>. HIDE DEF t
  <1>3. t \in Seq(Good(m))
    BY <1>1, <1>2, SameShape
  <1>. QED
    BY <1>3 DEF t

LEMMA PatchMessageGood ==
    ASSUME NEW m \in Modes, NEW s \in Seq(Good(m)), NEW r \in Reqs, Posted(r), req[r].mode = m,
           NEW st \in Statuses, NEW task \in Tasks
    PROVE  PatchMessage(s, r, st, task) \in Seq(Good(m))
  <1>. DEFINE t == PatchMessage(s, r, st, task)
  <1>1. DOMAIN t = DOMAIN s /\ t = [i \in DOMAIN s |-> t[i]]
    BY DEF PatchMessage
  <1>2. \A i \in DOMAIN s : t[i] \in Good(m)
    BY Element, AnswersWritten DEF PatchMessage
  <1>. HIDE DEF t
  <1>3. t \in Seq(Good(m))
    BY <1>1, <1>2, SameShape
  <1>. QED
    BY <1>3 DEF t

LEMMA ImageTextGood ==
    ASSUME NEW m \in Modes, NEW s \in Seq(Good(m)), NEW r \in Reqs, Posted(r), req[r].mode = m
    PROVE  ImageText(s, r) \in Seq(Good(m))
  <1>. DEFINE t == ImageText(s, r)
  <1>1. DOMAIN t = DOMAIN s /\ t = [i \in DOMAIN s |-> t[i]]
    BY DEF ImageText
  <1>2. ASSUME NEW i \in DOMAIN s
        PROVE  t[i] \in Good(m)
    <2>1. s[i] \in Good(m) /\ s[i].status \in Statuses /\ s[i].task \in Tasks
      BY Element DEF Good, Msg, Statuses, Tasks
    <2>2. [s[i] EXCEPT !.from = @ \cup {r}]
              = [s[i] EXCEPT !.status = s[i].status, !.task = s[i].task, !.from = @ \cup {r}]
      BY <2>1 DEF Good, Msg
    <2>3. i \in Answers(s, r) => [s[i] EXCEPT !.from = @ \cup {r}] \in Good(m)
      BY <2>1, <2>2, AnswersWritten
    <2>. QED
      BY <2>1, <2>3 DEF ImageText
  <1>. HIDE DEF t
  <1>3. t \in Seq(Good(m))
    BY <1>1, <1>2, SameShape
  <1>. QED
    BY <1>3 DEF t

-----------------------------------------------------------------------------
(* Requests that were sent keep their kind and mode.                       *)

ReqStays ==
    \A r \in Reqs : Sent(r) => /\ Sent(r)' /\ req'[r].mode = req[r].mode
                               /\ req'[r].kind = req[r].kind
ReqType == [Reqs -> [st : {"none", "open", "closed"}, kind : {"sse", "post"}, mode : Modes]]

LEMMA Closed ==
    ASSUME TypeOK, NEW r \in Reqs, req' = [req EXCEPT ![r].st = "closed"]
    PROVE  ReqStays /\ req' \in ReqType
  <1>1. req[r] \in [st : {"none", "open", "closed"}, kind : {"sse", "post"}, mode : Modes]
    BY DEF TypeOK
  <1>2. \A q \in Reqs : req'[q] = IF q = r THEN [req[r] EXCEPT !.st = "closed"] ELSE req[q]
    BY DEF TypeOK
  <1>3. req' \in ReqType
    BY <1>1 DEF TypeOK, ReqType
  <1>. QED
    BY <1>1, <1>2, <1>3 DEF ReqStays, Sent

LEMMA Untouched == ASSUME TypeOK, UNCHANGED req PROVE ReqStays /\ req' \in ReqType
  BY DEF TypeOK, ReqStays, ReqType, Sent

LEMMA GoodStays ==
    ASSUME ReqStays, NEW m \in Modes
    PROVE  Good(m) \subseteq Good(m)'
  <1>. SUFFICES ASSUME NEW x \in Good(m) PROVE x \in Good(m)'
    OBVIOUS
  <1>1. x \in Msg /\ FromOK(x, m) /\ OwnOK(x, m) /\ TaskOK(x) /\ x.from \subseteq Reqs
    BY DEF Good, Msg
  <1>2. FromOK(x, m)'
    BY <1>1 DEF FromOK, ReqStays, Sent
  <1>3. TaskOK(x)'
    BY <1>1 DEF TaskOK, ReqStays, Sent, Posted
  <1>4. OwnOK(x, m)'
    BY <1>1 DEF OwnOK, ReqStays, Sent
  <1>. QED
    BY <1>1, <1>2, <1>3, <1>4 DEF Good

LEMMA ConversationsStay ==
    ASSUME TypeOK, Conversations, ReqStays
    PROVE  /\ \A m \in Modes : msgs[m] \in Seq(Good(m)') /\ stored[m] \in Seq(Good(m)')
           /\ \A m \in Modes : msgs[m] \in Seq(Good(m)) /\ stored[m] \in Seq(Good(m))
  BY GoodStays, SeqMonotonic DEF Conversations

\* What a step does to the conversations: nothing, a save of all of them, or
\* a write of one of them.
Kept == msgs' \in [Modes -> Seq(Msg)] /\ stored' \in [Modes -> Seq(Msg)] /\ Conversations'

LEMMA NothingWritten ==
    ASSUME TypeOK, Conversations, ReqStays, UNCHANGED msgs, stored' \in {stored, msgs}
    PROVE  Kept
  <1>1. Conversations'
    BY ConversationsStay DEF Conversations
  <1>. QED
    BY <1>1 DEF TypeOK, Kept

LEMMA ConversationWritten ==
    ASSUME TypeOK, Conversations, ReqStays, NEW m \in Modes, NEW s,
           s \in Seq(Good(m)) \/ s \in Seq(Good(m)'),
           NEW save \in BOOLEAN, SetMessageForMode(m, s, save)
    PROVE  Kept /\ dirty' \in BOOLEAN
  <1>1. CASE UNCHANGED <<msgs, stored, dirty>>
    BY <1>1, NothingWritten DEF TypeOK
  <1>2. CASE ~(m = display /\ crashed)
    <2>1. /\ msgs' = [msgs EXCEPT ![m] = s]
          /\ stored' \in {msgs', stored}
          /\ dirty' = (dirty \/ m = display)
      BY <1>2 DEF SetMessageForMode
    <2>2. Good(m)' \subseteq Msg /\ Good(m) \subseteq Good(m)'
      BY GoodStays DEF Good
    <2>3. s \in Seq(Msg) /\ s \in Seq(Good(m)')
      BY <2>2, SeqMonotonic
    <2>4. msgs' \in [Modes -> Seq(Msg)]
      BY <2>1, <2>3 DEF TypeOK
    <2>5. \A k \in Modes : msgs'[k] \in Seq(Good(k)')
      BY <2>1, <2>3, ConversationsStay DEF TypeOK
    <2>6. \A k \in Modes : stored'[k] \in Seq(Good(k)')
      BY <2>1, <2>5, ConversationsStay
    <2>7. Conversations'
      BY <2>5, <2>6 DEF Conversations
    <2>. QED
      BY <2>1, <2>4, <2>7 DEF Kept, TypeOK
  <1>. QED
    BY <1>1, <1>2 DEF SetMessageForMode

-----------------------------------------------------------------------------
(* Pollers.                                                                *)

\* A poller is resumed for a task of a message, so for a request that was sent.
LEMMA Polled ==
    ASSUME TypeOK, Conversations', ReqStays, NEW p \in PollType, PollOK(p),
           display' \in Modes, ResumePolling(p)
    PROVE  poll' \in PollType /\ PollOK(poll)'
  <1>1. Fresh \in [on : BOOLEAN, left : 0..PollMax, fails : 0..MaxFails]
        /\ Fresh.left > 0 /\ Fresh.fails < MaxFails
    BY BoundsAssumption DEF Fresh
  <1>2. ASSUME NEW r \in Reqs, Resumes(msgs'[display'], r)
        PROVE  Posted(r)'
    <2>1. PICK i \in Answers(msgs'[display'], r) : msgs'[display'][i].task = "pending"
      BY <1>2 DEF Resumes
    <2>2. msgs'[display'] \in Seq(Good(display)')
      BY DEF Conversations
    <2>3. msgs'[display'][i] \in Good(display)'
      BY <2>1, <2>2, Element DEF Answers
    <2>. QED
      BY <2>1, <2>3 DEF Good, TaskOK, Answers, Sent, Posted
  <1>3. \A r \in Reqs : poll'[r] = p[r] \/ (poll'[r] = Fresh /\ Posted(r)')
    BY <1>2 DEF ResumePolling
  <1>4. poll' \in PollType
    BY <1>1 DEF ResumePolling, PollType
  <1>5. PollOK(poll)'
    BY <1>1, <1>3 DEF PollOK, ReqStays, Posted
  <1>. QED
    BY <1>4, <1>5

-----------------------------------------------------------------------------
(* Every step keeps the invariant.                                         *)

Rest ==
    /\ display' \in Modes /\ sseRef' \in 0..MaxReq /\ crashed' \in BOOLEAN
    /\ edits' \in 0..MaxEdits /\ reloads' \in 0..MaxReloads

LEMMA Combined ==
    ASSUME PageInv, ReqStays, req' \in ReqType, Kept, dirty' \in BOOLEAN, Rest,
           NEW p \in PollType, PollOK(p), ResumePolling(p)
    PROVE  PageInv'
  <1>1. poll' \in PollType /\ PollOK(poll)'
    BY Polled DEF PageInv, Kept, Rest
  <1>. QED
    BY <1>1 DEF PageInv, Kept, Rest, TypeOK, ReqType, PollType

LEMMA PollFacts ==
    ASSUME PageInv
    PROVE  /\ poll \in PollType /\ PollOK(poll)
           /\ Idle \in [on : BOOLEAN, left : 0..PollMax, fails : 0..MaxFails] /\ ~Idle.on
           /\ Fresh \in [on : BOOLEAN, left : 0..PollMax, fails : 0..MaxFails]
           /\ Fresh.left > 0 /\ Fresh.fails < MaxFails
  BY BoundsAssumption DEF PageInv, TypeOK, PollType, Idle, Fresh

\* A poller of a request that was sent is set to another state of its own.
LEMMA PollSet ==
    ASSUME PageInv, NEW r \in Reqs, Posted(r),
           NEW v \in [on : BOOLEAN, left : 0..PollMax, fails : 0..MaxFails],
           v.on => v.left > 0 /\ v.fails < MaxFails
    PROVE  [poll EXCEPT ![r] = v] \in PollType /\ PollOK([poll EXCEPT ![r] = v])
  <1>1. poll \in PollType /\ PollOK(poll)
    BY PollFacts
  <1>. QED
    BY <1>1 DEF PollType, PollOK

LEMMA SendKeeps ==
    ASSUME PageInv, NEW r \in Reqs, NEW k \in {"sse", "post"},
           NEW base \in Seq(Good(display)), NEW user \in Good(display),
           SendRequest(r, k, base, user)
    PROVE  PageInv'
  <1>. PICK m : m = display
    OBVIOUS
  <1>1. m \in Modes /\ ~Sent(r) /\ TypeOK /\ Conversations
    BY DEF PageInv, TypeOK, SendRequest, NextReq, Sent
  <1>2. req' = [req EXCEPT ![r] = [st |-> "open", kind |-> k, mode |-> m]]
    BY DEF SendRequest
  <1>3. ReqStays /\ req' \in ReqType
    BY <1>1, <1>2 DEF ReqStays, Sent, ReqType, TypeOK
  <1>4. LoadingMsg(r) \in Good(m)'
    <2>1. LoadingMsg(r) \in Msg
      BY BoundsAssumption DEF LoadingMsg, AnswerMsg, Msg, Unfinished, Reqs
    <2>2. req'[r].st = "open" /\ req'[r].mode = m
      BY <1>1, <1>2 DEF TypeOK
    <2>. QED
      BY <2>1, <2>2 DEF LoadingMsg, AnswerMsg, Good, FromOK, OwnOK, TaskOK, Sent
  <1>5. base \o <<user, LoadingMsg(r)>> \in Seq(Good(m)')
    <2>1. base \in Seq(Good(m)') /\ user \in Good(m)'
      BY <1>1, <1>3, GoodStays, SeqMonotonic
    <2>. QED
      BY <1>4, <2>1, AppendTwo
  <1>6. SetMessageForMode(m, base \o <<user, LoadingMsg(r)>>, TRUE)
    BY DEF SendRequest
  <1>7. Kept /\ dirty' \in BOOLEAN
    BY <1>1, <1>3, <1>5, <1>6, ConversationWritten
  <1>8. Rest
    BY BoundsAssumption DEF SendRequest, Rest, PageInv, TypeOK, Reqs
  <1>9. ResumePolling(poll)
    BY DEF SendRequest
  <1>. QED
    BY <1>3, <1>7, <1>8, <1>9, Combined, PollFacts

LEMMA UserKeeps ==
    ASSUME PageInv, UserStep
    PROVE  PageInv'
  <1>1. /\ TypeOK /\ Conversations /\ display \in Modes
        /\ msgs[display] \in Seq(Good(display))
    BY DEF PageInv, TypeOK, Conversations
  <1>2. ASSUME NEW r \in Reqs, NEW k \in {"sse", "post"}, OnMessageSend(r, k)
        PROVE  PageInv'
    <2>1. UserMsg(r) \in Good(display)
      BY BoundsAssumption DEF UserMsg, Good, Msg, FromOK, OwnOK, TaskOK, Reqs
    <2>. QED
      BY <1>1, <1>2, <2>1, SendKeeps DEF OnMessageSend
  <1>3. ASSUME NEW r \in Reqs, NEW k \in {"sse", "post"}, NEW i \in DOMAIN msgs[display],
               OnMessageReset(r, k, i)
        PROVE  PageInv'
    <2>1. SubSeq(msgs[display], 1, i - 1) \in Seq(Good(display))
      BY <1>1, Without
    <2>2. msgs[display][i] \in Good(display)
      BY <1>1, Element
    <2>. QED
      BY <1>3, <2>1, <2>2, SendKeeps DEF OnMessageReset
  <1>4. ASSUME ReqStays, req' \in ReqType, Rest, ResumePolling(poll),
               NEW s \in Seq(Good(display)), NEW save \in BOOLEAN,
               SetMessageForMode(display, s, save)
        PROVE  PageInv'
    <2>1. Kept /\ dirty' \in BOOLEAN
      BY <1>1, <1>4, ConversationWritten
    <2>. QED
      BY <1>4, <2>1, Combined, PollFacts
  <1>5. CASE OnStopGenerator
    <2>1. ReqStays /\ req' \in ReqType
      <3>1. sseRef # 0 => sseRef \in Reqs
        BY <1>1, BoundsAssumption DEF TypeOK, Reqs
      <3>. QED
        BY <1>1, <1>5, <3>1, Closed, Untouched DEF OnStopGenerator
    <2>2. Rest
      BY <1>5, BoundsAssumption DEF OnStopGenerator, Rest, PageInv, TypeOK
    <2>3. CASE LastOf(msgs[display]).status \in Unfinished
      <3>1. msgs[display] # <<>>
        BY <1>5, Element DEF OnStopGenerator, Generating
      <3>2. CloseTail(msgs[display], "complete") \in Seq(Good(display))
        BY <1>1, <3>1, CloseTailGood
      <3>. QED
        BY <1>4, <1>5, <2>1, <2>2, <2>3, <3>2 DEF OnStopGenerator
    <2>4. CASE LastOf(msgs[display]).status \notin Unfinished
      BY <1>1, <1>4, <1>5, <2>1, <2>2, <2>4 DEF OnStopGenerator
    <2>. QED
      BY <2>3, <2>4
  <1>6. CASE ClearMessages
    <2>1. <<>> \in Seq(Good(display))
      BY EmptySeq
    <2>2. Rest
      BY <1>6, BoundsAssumption DEF ClearMessages, Rest, PageInv, TypeOK
    <2>. QED
      BY <1>1, <1>4, <1>6, <2>1, <2>2, Untouched DEF ClearMessages
  <1>7. ASSUME NEW i \in DOMAIN msgs[display], DeleteMessage(i)
        PROVE  PageInv'
    <2>1. SubSeq(msgs[display], 1, i - 1) \o SubSeq(msgs[display], i + 1, Len(msgs[display]))
              \in Seq(Good(display))
      BY <1>1, Without
    <2>2. Rest
      BY <1>7, BoundsAssumption DEF DeleteMessage, Rest, PageInv, TypeOK
    <2>. QED
      BY <1>1, <1>4, <1>7, <2>1, <2>2, Untouched DEF DeleteMessage
  <1>8. ASSUME NEW m \in Modes, SwitchMode(m)
        PROVE  PageInv'
    <2>1. ReqStays /\ req' \in ReqType /\ dirty' \in BOOLEAN
      BY <1>1, <1>8, Untouched DEF SwitchMode
    <2>2. Kept
      BY <1>1, <1>8, <2>1, NothingWritten DEF SwitchMode
    <2>3. Rest /\ ResumePolling(poll)
      BY <1>8 DEF SwitchMode, Rest, PageInv, TypeOK
    <2>. QED
      BY <2>1, <2>2, <2>3, Combined, PollFacts
  <1>9. ASSUME NEW m \in Modes, Reload(m)
        PROVE  PageInv'
    <2>1. req' = [r \in Reqs |-> IF req[r].st = "open" THEN [req[r] EXCEPT !.st = "closed"]
                                 ELSE req[r]]
      BY <1>9 DEF Reload
    <2>2. \A r \in Reqs : req[r] \in [st : {"none", "open", "closed"}, kind : {"sse", "post"},
                                      mode : Modes]
      BY <1>1 DEF TypeOK
    <2>3. ReqStays /\ req' \in ReqType
      BY <2>1, <2>2 DEF ReqStays, ReqType, Sent
    <2>4. Conversations' /\ msgs' \in [Modes -> Seq(Msg)]
      BY <1>1, <1>9, <2>3, ConversationsStay DEF Reload, Conversations, TypeOK
    <2>5. Kept /\ dirty' \in BOOLEAN
      BY <1>1, <1>9, <2>4 DEF Reload, Kept, TypeOK
    <2>6. Rest
      <3>1. /\ display' = m /\ sseRef' = 0 /\ crashed' = FALSE /\ edits' = edits
            /\ reloads' = reloads + 1 /\ reloads < MaxReloads
        BY <1>9 DEF Reload
      <3>2. edits \in 0..MaxEdits /\ reloads \in 0..MaxReloads
        BY <1>1 DEF TypeOK
      <3>3. crashed' \in BOOLEAN
        BY <3>1, Zenon
      <3>4. sseRef' \in 0..MaxReq /\ edits' \in 0..MaxEdits /\ reloads' \in 0..MaxReloads
        BY <3>1, <3>2, BoundsAssumption
      <3>. QED
        BY <3>1, <3>3, <3>4 DEF Rest
    <2>7. [r \in Reqs |-> Idle] \in PollType /\ PollOK([r \in Reqs |-> Idle])
      BY PollFacts DEF PollType, PollOK
    <2>8. ResumePolling([r \in Reqs |-> Idle])
      BY <1>9 DEF Reload
    <2>. QED
      BY <2>3, <2>5, <2>6, <2>7, <2>8, Combined
  <1>. QED
    BY <1>2, <1>3, <1>5, <1>6, <1>7, <1>8, <1>9 DEF UserStep

LEMMA StreamKeeps ==
    ASSUME PageInv, NEW r \in Reqs,
           StreamChunk(r) \/ StreamDone(r) \/ StreamGarbage(r) \/ StreamError(r) \/ StreamCut(r)
    PROVE  PageInv'
  <1>. PICK m : m = ConversationOf(r)
    OBVIOUS
  <1>1. /\ TypeOK /\ Conversations /\ m \in Modes /\ msgs[m] \in Seq(Good(m))
        /\ Sent(r) /\ req[r].mode = m /\ req[r].kind = "sse"
    BY DEF PageInv, TypeOK, Conversations, ConversationOf, StreamChunk, StreamDone,
           StreamGarbage, StreamError, StreamCut, StreamEvent, Sent
  <1>2. StreamText(msgs[m], r) \in Seq(Good(m))
    BY <1>1, StreamTextGood
  <1>3. ASSUME ReqStays, NEW s \in Seq(Good(m)), NEW st \in {"complete", "error"},
               CompleteMessage(m, s, st)
        PROVE  Kept /\ dirty' \in BOOLEAN /\ crashed' \in BOOLEAN
    <2>1. CASE s # <<>>
      <3>1. CloseTail(s, st) \in Seq(Good(m)) /\ (CloseTail(s, st) # s) \in BOOLEAN
        BY <1>1, <2>1, CloseTailGood
      <3>2. SetMessageForMode(m, CloseTail(s, st), CloseTail(s, st) # s) /\ UNCHANGED crashed
        BY <1>3, <2>1 DEF CompleteMessage
      <3>. QED
        BY <1>1, <1>3, <3>1, <3>2, ConversationWritten DEF TypeOK
    <2>2. CASE s = <<>>
      <3>1. /\ crashed' = (crashed \/ m = display) /\ dirty' = (dirty /\ m # display)
            /\ UNCHANGED <<msgs, stored>>
        BY <1>3, <2>2 DEF CompleteMessage
      <3>2. Kept
        BY <1>1, <1>3, <3>1, NothingWritten
      <3>. QED
        BY <1>1, <3>1, <3>2 DEF TypeOK
    <2>. QED
      BY <2>1, <2>2
  <1>4. CASE StreamChunk(r)
    <2>1. ReqStays /\ req' \in ReqType
      BY <1>1, <1>4, Untouched DEF StreamChunk
    <2>2. SetMessageForMode(m, StreamText(msgs[m], r), FALSE) /\ ResumePolling(poll)
      BY <1>4 DEF StreamChunk
    <2>3. Kept /\ dirty' \in BOOLEAN
      BY <1>1, <1>2, <2>1, <2>2, ConversationWritten
    <2>4. Rest
      BY <1>1, <1>4 DEF StreamChunk, Rest, TypeOK
    <2>. QED
      BY <2>1, <2>2, <2>3, <2>4, Combined, PollFacts
  <1>5. CASE StreamDone(r)
    <2>1. ReqStays /\ req' \in ReqType
      BY <1>1, <1>5, Closed DEF StreamDone
    <2>2. CompleteMessage(m, msgs[m], "complete") /\ ResumePolling(poll)
      BY <1>5 DEF StreamDone
    <2>3. Kept /\ dirty' \in BOOLEAN /\ crashed' \in BOOLEAN
      BY <1>1, <1>3, <2>1, <2>2
    <2>4. Rest
      BY <1>1, <1>5, <2>3, BoundsAssumption DEF StreamDone, Rest, TypeOK
    <2>. QED
      BY <2>1, <2>2, <2>3, <2>4, Combined, PollFacts
  <1>6. CASE StreamGarbage(r)
    <2>1. ReqStays /\ req' \in ReqType
      BY <1>1, <1>6, Untouched DEF StreamGarbage
    <2>2. CompleteMessage(m, StreamText(msgs[m], r), "error") /\ ResumePolling(poll)
      BY <1>6 DEF StreamGarbage
    <2>3. Kept /\ dirty' \in BOOLEAN /\ crashed' \in BOOLEAN
      BY <1>2, <1>3, <2>1, <2>2
    <2>4. Rest
      BY <1>1, <1>6, <2>3 DEF StreamGarbage, Rest, TypeOK
    <2>. QED
      BY <2>1, <2>2, <2>3, <2>4, Combined, PollFacts
  <1>7. CASE StreamError(r)
    <2>1. ReqStays /\ req' \in ReqType
      <3>1. req' = [req EXCEPT ![r].st = "closed"] \/ UNCHANGED req
        BY <1>7 DEF StreamError
      <3>. QED
        BY <1>1, <3>1, Closed, Untouched
    <2>2. CompleteMessage(m, StreamText(msgs[m], r), "error") /\ ResumePolling(poll)
      BY <1>7 DEF StreamError
    <2>3. Kept /\ dirty' \in BOOLEAN /\ crashed' \in BOOLEAN
      BY <1>2, <1>3, <2>1, <2>2
    <2>4. Rest
      <3>1. sseRef' \in {0, sseRef} /\ UNCHANGED <<display, edits, reloads>>
        BY <1>7 DEF StreamError
      <3>. QED
        BY <1>1, <2>3, <3>1, BoundsAssumption DEF Rest, TypeOK
    <2>. QED
      BY <2>1, <2>2, <2>3, <2>4, Combined, PollFacts
  <1>8. CASE StreamCut(r)
    <2>1. ReqStays /\ req' \in ReqType
      BY <1>1, <1>8, Closed DEF StreamCut
    <2>2. Kept
      BY <1>1, <1>8, <2>1, NothingWritten DEF StreamCut
    <2>3. PollOK(poll)'
      BY <1>8, <2>1, PollFacts DEF StreamCut, PollOK, ReqStays, Posted
    <2>. QED
      BY <1>1, <1>8, <2>1, <2>2, <2>3 DEF StreamCut, PageInv, Kept, TypeOK, ReqType
  <1>. QED
    BY <1>4, <1>5, <1>6, <1>7, <1>8

LEMMA ReplyKeeps ==
    ASSUME PageInv, NEW r \in Reqs, NEW st \in {"complete", "error"}, NEW task \in Tasks,
           NEW pollImage \in BOOLEAN, Reply(r, st, task, pollImage)
    PROVE  PageInv'
  <1>. PICK m : m = ConversationOf(r)
    OBVIOUS
  <1>1. /\ TypeOK /\ Conversations /\ m \in Modes /\ msgs[m] \in Seq(Good(m))
        /\ Posted(r) /\ req[r].mode = m /\ st \in Statuses
    BY DEF PageInv, TypeOK, Conversations, ConversationOf, Reply, Sent, Posted, Statuses
  <1>2. ReqStays /\ req' \in ReqType
    BY <1>1, Closed DEF Reply
  <1>3. SetMessageForMode(m, FillLoading(msgs[m], r, st, task), FALSE)
    BY DEF Reply
  <1>4. Kept /\ dirty' \in BOOLEAN
    BY <1>1, <1>2, <1>3, FillLoadingGood, ConversationWritten
  <1>5. Rest
    BY <1>1 DEF Reply, Rest, TypeOK
  <1>6. \E p \in PollType : PollOK(p) /\ ResumePolling(p)
    <2>1. [poll EXCEPT ![r] = Fresh] \in PollType /\ PollOK([poll EXCEPT ![r] = Fresh])
      BY <1>1, PollSet, PollFacts
    <2>. QED
      BY <2>1, PollFacts DEF Reply
  <1>. QED
    BY <1>2, <1>4, <1>5, <1>6, Combined

LEMMA PollFields ==
    ASSUME PageInv, NEW r \in Reqs, poll[r].on
    PROVE  /\ Posted(r) /\ poll[r].left \in 1..PollMax /\ poll[r].fails \in 0..(MaxFails - 1)
           /\ poll[r] \in [on : BOOLEAN, left : 0..PollMax, fails : 0..MaxFails]
           /\ poll[r].left - 1 \in 0..PollMax
  <1>1. /\ poll[r] \in [on : BOOLEAN, left : 0..PollMax, fails : 0..MaxFails]
        /\ poll[r].left > 0 /\ poll[r].fails < MaxFails /\ Posted(r)
    BY DEF PageInv, TypeOK, PollOK
  <1>. QED
    BY <1>1, BoundsAssumption

LEMMA ImageKeeps ==
    ASSUME PageInv, NEW r \in Reqs, ImagePoll(r)
    PROVE  PageInv'
  <1>. PICK s : s = msgs["image"]
    OBVIOUS
  <1>. DEFINE spent == IF poll[r].left = 1 THEN [poll EXCEPT ![r] = Idle]
                       ELSE [poll EXCEPT ![r].left = @ - 1]
              over == [poll EXCEPT ![r] = Idle]
  <1>1. poll[r].on /\ req[r].mode = "image"
    BY DEF ImagePoll, Polling
  <1>2. /\ TypeOK /\ Conversations /\ "image" \in Modes /\ s \in Seq(Good("image")) /\ Posted(r)
    <2>1. TypeOK /\ Conversations
      BY DEF PageInv
    <2>2. Posted(r)
      BY <1>1, PollFields
    <2>3. "image" \in Modes
      BY <1>1, <2>1 DEF TypeOK
    <2>. QED
      BY <2>1, <2>2, <2>3 DEF Conversations
  <1>3. ReqStays /\ req' \in ReqType /\ Rest
    BY <1>2, Untouched DEF ImagePoll, Rest, TypeOK
  <1>4. over \in PollType /\ PollOK(over)
    BY <1>2, PollSet, PollFacts
  <1>5. spent \in PollType /\ PollOK(spent)
    <2>1. CASE poll[r].left = 1
      BY <1>4, <2>1
    <2>2. CASE poll[r].left # 1
      <3>. DEFINE v == [poll[r] EXCEPT !.left = @ - 1]
      <3>1. v \in [on : BOOLEAN, left : 0..PollMax, fails : 0..MaxFails]
        BY <1>1, PollFields
      <3>2. v.left > 0 /\ v.fails < MaxFails
        BY <1>1, <2>2, PollFields, BoundsAssumption
      <3>3. spent = [poll EXCEPT ![r] = v]
        BY <2>2
      <3>. HIDE DEF v, spent
      <3>. QED
        BY <1>2, <3>1, <3>2, <3>3, PollSet
    <2>. QED
      BY <2>1, <2>2
  <1>. HIDE DEF spent, over
  <1>6. CASE UNCHANGED <<msgs, stored, dirty>> /\ \E p \in {spent, over} : ResumePolling(p)
    <2>1. Kept /\ dirty' \in BOOLEAN
      BY <1>2, <1>3, <1>6, NothingWritten DEF TypeOK
    <2>. QED
      BY <1>3, <1>4, <1>5, <1>6, <2>1, Combined
  <1>7. CASE SetMessageForMode("image", ImageText(s, r), FALSE) /\ ResumePolling(spent)
    <2>1. ImageText(s, r) \in Seq(Good("image"))
      BY <1>1, <1>2, ImageTextGood
    <2>2. Kept /\ dirty' \in BOOLEAN
      BY <1>2, <1>3, <1>7, <2>1, ConversationWritten
    <2>. QED
      BY <1>3, <1>5, <1>7, <2>2, Combined
  <1>8. ASSUME NEW st \in {"complete", "error"},
               SetMessageForMode("image", PatchMessage(s, r, st, "none"), FALSE),
               ResumePolling(over)
        PROVE  PageInv'
    <2>1. PatchMessage(s, r, st, "none") \in Seq(Good("image"))
      BY <1>1, <1>2, PatchMessageGood DEF Statuses, Tasks
    <2>2. Kept /\ dirty' \in BOOLEAN
      BY <1>2, <1>3, <1>8, <2>1, ConversationWritten
    <2>. QED
      BY <1>3, <1>4, <1>8, <2>2, Combined
  <1>. QED
    BY <1>6, <1>7, <1>8 DEF ImagePoll, spent, over

LEMMA VideoKeeps ==
    ASSUME PageInv, NEW r \in Reqs, VideoPoll(r)
    PROVE  PageInv'
  <1>1. poll[r].on /\ req[r].mode = "video"
    BY DEF VideoPoll, Polling
  <1>2. /\ TypeOK /\ Conversations /\ "video" \in Modes /\ msgs["video"] \in Seq(Good("video"))
        /\ Posted(r)
    <2>1. TypeOK /\ Conversations
      BY DEF PageInv
    <2>2. Posted(r)
      BY <1>1, PollFields
    <2>3. "video" \in Modes
      BY <1>1, <2>1 DEF TypeOK
    <2>. QED
      BY <2>1, <2>2, <2>3 DEF Conversations
  <1>3. ReqStays /\ req' \in ReqType /\ Rest
    BY <1>2, Untouched DEF VideoPoll, Rest, TypeOK
  <1>4. ASSUME NEW st \in Statuses, NEW task \in Tasks,
               NEW v \in [on : BOOLEAN, left : 0..PollMax, fails : 0..MaxFails],
               v.on => v.left > 0 /\ v.fails < MaxFails, VideoPatch(r, st, task, v)
        PROVE  PageInv'
    <2>1. PatchMessage(msgs["video"], r, st, task) \in Seq(Good("video"))
      BY <1>1, <1>2, PatchMessageGood
    <2>2. Kept /\ dirty' \in BOOLEAN
      BY <1>2, <1>3, <1>4, <2>1, ConversationWritten DEF VideoPatch
    <2>3. [poll EXCEPT ![r] = v] \in PollType /\ PollOK([poll EXCEPT ![r] = v])
      BY <1>2, <1>4, PollSet
    <2>. QED
      BY <1>3, <1>4, <2>2, <2>3, Combined DEF VideoPatch
  <1>. DEFINE left == poll[r].left - 1
              fails == poll[r].fails + 1
  <1>5. ASSUME NEW st \in {"complete", "error"}, VideoPatch(r, st, "ended", Idle)
        PROVE  PageInv'
    BY <1>4, <1>5, PollFacts DEF Statuses, Tasks
  <1>6. CASE VideoPollEnds(r)
    BY <1>5, <1>6 DEF VideoPollEnds
  <1>7. CASE VideoPollGoesOn(r)
    <2>1. CASE Spent(left)
      BY <1>5, <1>7, <2>1 DEF VideoPollGoesOn
    <2>2. CASE ~Spent(left)
      <3>. DEFINE v == [on |-> TRUE, left |-> left, fails |-> 0]
      <3>1. /\ v \in [on : BOOLEAN, left : 0..PollMax, fails : 0..MaxFails]
            /\ v.left > 0 /\ v.fails < MaxFails
        BY <1>1, <2>2, PollFields, BoundsAssumption DEF Spent
      <3>2. PICK task \in {"pending", "other"} : VideoPatch(r, "incomplete", task, v)
        BY <1>7, <2>2 DEF VideoPollGoesOn
      <3>3. "incomplete" \in Statuses /\ task \in Tasks
        BY DEF Statuses, Unfinished, Tasks
      <3>. HIDE DEF v
      <3>. QED
        BY <1>4, <3>1, <3>2, <3>3
    <2>. QED
      BY <2>1, <2>2
  <1>8. CASE VideoPollFails(r)
    <2>1. CASE fails >= MaxFails \/ Spent(left)
      BY <1>5, <1>8, <2>1 DEF VideoPollFails
    <2>2. CASE ~(fails >= MaxFails \/ Spent(left))
      <3>. DEFINE v == [on |-> TRUE, left |-> left, fails |-> fails]
      <3>1. /\ v \in [on : BOOLEAN, left : 0..PollMax, fails : 0..MaxFails]
            /\ v.left > 0 /\ v.fails < MaxFails
        BY <1>1, <2>2, PollFields, BoundsAssumption DEF Spent
      <3>2. VideoPatch(r, "complete", "pending", v)
        BY <1>8, <2>2 DEF VideoPollFails
      <3>3. "complete" \in Statuses /\ "pending" \in Tasks
        BY DEF Statuses, Tasks
      <3>. HIDE DEF v
      <3>. QED
        BY <1>4, <3>1, <3>2, <3>3
    <2>. QED
      BY <2>1, <2>2
  <1>. QED
    BY <1>6, <1>7, <1>8 DEF VideoPoll

LEMMA PageStep ==
    ASSUME PageInv, [Next]_vars
    PROVE  PageInv'
  <1>1. TypeOK /\ Conversations
    BY DEF PageInv
  <1>2. CASE UNCHANGED vars
    <2>1. ReqStays /\ req' \in ReqType
      BY <1>1, <1>2, Untouched DEF vars
    <2>2. Kept
      BY <1>1, <1>2, <2>1, NothingWritten DEF vars
    <2>3. PollOK(poll)'
      BY <1>2, <2>1, PollFacts DEF vars, PollOK, ReqStays, Posted
    <2>. QED
      BY <1>1, <1>2, <2>2, <2>3 DEF vars, PageInv, Kept, TypeOK
  <1>3. CASE PersistModeMessages
    <2>1. ReqStays /\ req' \in ReqType
      BY <1>1, <1>3, Untouched DEF PersistModeMessages
    <2>2. Kept
      BY <1>1, <1>3, <2>1, NothingWritten DEF PersistModeMessages
    <2>3. PollOK(poll)' /\ dirty' \in BOOLEAN
      BY <1>3, <2>1, PollFacts DEF PersistModeMessages, PollOK, ReqStays, Posted
    <2>. QED
      BY <1>1, <1>3, <2>1, <2>2, <2>3 DEF PersistModeMessages, PageInv, Kept, TypeOK, ReqType
  <1>4. ASSUME NEW r \in Reqs, NetworkStep(r)
        PROVE  PageInv'
    BY <1>4, StreamKeeps, ReplyKeeps, ImageKeeps, VideoKeeps DEF NetworkStep, Tasks
  <1>. QED
    BY <1>2, <1>3, <1>4, UserKeeps DEF Next

LEMMA PageInit == ASSUME Init PROVE PageInv
  <1>1. \A m \in Modes : Good(m) \subseteq Msg
    BY DEF Good
  <1>2. ASSUME NEW m \in Modes
        PROVE  DefaultMessages \in Seq(Good(m)) /\ <<>> \in Seq(Good(m))
    <2>1. UserMsg(0) \in Good(m) /\ AnswerMsg(0, "none") \in Good(m)
      BY BoundsAssumption DEF UserMsg, AnswerMsg, Good, Msg, FromOK, OwnOK, TaskOK, Reqs
    <2>. QED
      BY <2>1 DEF DefaultMessages
  <1>3. /\ msgs = [m \in Modes |-> IF Cleared THEN <<>> ELSE DefaultMessages]
        /\ stored = msgs
    BY DEF Init
  <1>4. Conversations
    BY <1>2, <1>3 DEF Conversations
  <1>5. msgs \in [Modes -> Seq(Msg)]
    <2>1. \A m \in Modes : msgs[m] \in Seq(Msg)
      BY <1>1, <1>4, SeqMonotonic DEF Conversations
    <2>. QED
      BY <1>3, <2>1
  <1>6. PollOK(poll)
    BY DEF Init, PollOK, Idle
  <1>7. req \in [Reqs -> [st : {"none", "open", "closed"}, kind : {"sse", "post"}, mode : Modes]]
    <2>1. (CHOOSE m \in Modes : TRUE) \in Modes
      BY ModesAssumption
    <2>. QED
      BY <2>1 DEF Init
  <1>8. poll \in [Reqs -> [on : BOOLEAN, left : 0..PollMax, fails : 0..MaxFails]]
    BY BoundsAssumption DEF Init, Idle
  <1>9. display \in Modes /\ sseRef \in 0..MaxReq /\ edits \in 0..MaxEdits /\ reloads \in 0..MaxReloads
    BY BoundsAssumption DEF Init
  <1>10. dirty \in BOOLEAN /\ crashed \in BOOLEAN
    BY Zenon DEF Init
  <1>. QED
    BY <1>3, <1>4, <1>5, <1>6, <1>7, <1>8, <1>9, <1>10 DEF PageInv, TypeOK

-----------------------------------------------------------------------------
LEMMA PageAlways == Spec => []PageInv
  BY PageInit, PageStep, PTL DEF Spec

\* Every variable keeps to its type: a poller is never left without attempts.
THEOREM PlaygroundTypeCorrect == Spec => []TypeOK
  <1>1. PageInv => TypeOK
    BY DEF PageInv
  <1>. QED
    BY <1>1, PageAlways, PTL

\* What is in a good message is from requests of its mode, and from its own
\* request if that does not stream.
LEMMA InPlace ==
    ASSUME PageInv
    PROVE  AnswersStayInMode /\ RepliesStayInPlace
  <1>. SUFFICES ASSUME NEW m \in Modes, NEW s \in {msgs[m], stored[m]}, NEW i \in DOMAIN s,
                       NEW r \in s[i].from
                PROVE  /\ req[r].st # "none" /\ req[r].mode = m
                       /\ req[r].kind = "post" => s[i].id = r /\ s[i].role = "assistant"
    BY DEF AnswersStayInMode, RepliesStayInPlace
  <1>1. s \in Seq(Good(m))
    BY DEF PageInv, Conversations
  <1>2. s[i] \in Good(m)
    BY <1>1, Element
  <1>. QED
    BY <1>2 DEF Good, FromOK, Sent

\* Whatever mode is shown when an answer arrives, its text stays in the
\* conversation it was asked in, in memory and in the browser's database.
THEOREM AnswersKeepTheirMode == Spec => []AnswersStayInMode
  <1>1. PageInv => AnswersStayInMode
    BY InPlace
  <1>. QED
    BY <1>1, PageAlways, PTL

\* A response that is not a stream, and the reports of its task, are written
\* into the answer of their request only, whatever the user has deleted,
\* retried or reloaded since.
THEOREM RepliesKeepTheirPlace == Spec => []RepliesStayInPlace
  <1>1. PageInv => RepliesStayInPlace
    BY InPlace
  <1>. QED
    BY <1>1, PageAlways, PTL

-----------------------------------------------------------------------------
(* What waits to be saved is marked.                                       *)

LEMMA WriteIsSaved ==
    ASSUME QuietIsSaved, NEW m, NEW s, NEW save, SetMessageForMode(m, s, save)
    PROVE  ~dirty' /\ ~crashed /\ ~crashed' => stored' = msgs'
  BY DEF SetMessageForMode, QuietIsSaved, SavedAtOnce

LEMMA CompleteIsSaved ==
    ASSUME QuietIsSaved, NEW m, NEW s, NEW st, CompleteMessage(m, s, st)
    PROVE  QuietIsSaved'
  <1>1. CASE s # <<>>
    <2>1. /\ SetMessageForMode(m, CloseTail(s, st), CloseTail(s, st) # s)
          /\ UNCHANGED crashed
      BY <1>1 DEF CompleteMessage
    <2>. QED
      BY <2>1, WriteIsSaved DEF QuietIsSaved
  <1>2. CASE s = <<>>
    BY <1>2 DEF CompleteMessage, QuietIsSaved
  <1>. QED
    BY <1>1, <1>2

LEMMA SavedStep ==
    ASSUME QuietIsSaved, [Next]_vars
    PROVE  QuietIsSaved'
  <1>1. ASSUME NEW m, NEW s, NEW save, SetMessageForMode(m, s, save), UNCHANGED crashed
        PROVE  QuietIsSaved'
    BY <1>1, WriteIsSaved DEF QuietIsSaved
  <1>2. CASE UNCHANGED vars
    BY <1>2 DEF vars, QuietIsSaved
  <1>3. CASE PersistModeMessages
    BY <1>3 DEF PersistModeMessages, QuietIsSaved
  <1>4. CASE UserStep
    <2>1. ASSUME NEW r, NEW k, NEW base, NEW user, SendRequest(r, k, base, user)
          PROVE  QuietIsSaved'
      BY <1>1, <2>1 DEF SendRequest
    <2>2. ASSUME NEW r \in Reqs, NEW k \in {"sse", "post"},
                 OnMessageSend(r, k) \/ \E i \in DOMAIN msgs[display] : OnMessageReset(r, k, i)
          PROVE  QuietIsSaved'
      BY <2>1, <2>2 DEF OnMessageSend, OnMessageReset
    <2>3. CASE OnStopGenerator
      BY <1>1, <2>3 DEF OnStopGenerator
    <2>4. CASE ClearMessages
      BY <1>1, <2>4 DEF ClearMessages
    <2>5. ASSUME NEW i \in DOMAIN msgs[display], DeleteMessage(i)
          PROVE  QuietIsSaved'
      BY <1>1, <2>5 DEF DeleteMessage
    <2>6. ASSUME NEW m \in Modes, SwitchMode(m) \/ Reload(m)
          PROVE  QuietIsSaved'
      BY <2>6 DEF SwitchMode, Reload, QuietIsSaved
    <2>. QED
      BY <1>4, <2>2, <2>3, <2>4, <2>5, <2>6 DEF UserStep
  <1>5. ASSUME NEW r \in Reqs, NetworkStep(r)
        PROVE  QuietIsSaved'
    <2>1. CASE StreamChunk(r)
      BY <1>1, <2>1 DEF StreamChunk
    <2>2. CASE StreamDone(r) \/ StreamGarbage(r) \/ StreamError(r)
      BY <2>2, CompleteIsSaved DEF StreamDone, StreamGarbage, StreamError
    <2>3. CASE StreamCut(r)
      BY <2>3 DEF StreamCut, QuietIsSaved
    <2>4. ASSUME NEW st, NEW task, NEW pollImage, Reply(r, st, task, pollImage)
          PROVE  QuietIsSaved'
      BY <1>1, <2>4 DEF Reply
    <2>5. CASE ImagePoll(r)
      <3>1. UNCHANGED crashed
        BY <2>5 DEF ImagePoll
      <3>2. \/ UNCHANGED <<msgs, stored, dirty>>
            \/ \E s : SetMessageForMode("image", s, FALSE)
        BY <2>5 DEF ImagePoll
      <3>. QED
        BY <1>1, <3>1, <3>2 DEF QuietIsSaved
    <2>6. CASE VideoPoll(r)
      <3>1. ASSUME NEW st, NEW task, NEW p, VideoPatch(r, st, task, p), UNCHANGED crashed
            PROVE  QuietIsSaved'
        BY <1>1, <3>1 DEF VideoPatch
      <3>2. CASE VideoPollEnds(r)
        BY <2>6, <3>1, <3>2 DEF VideoPoll, VideoPollEnds
      <3>3. CASE VideoPollGoesOn(r)
        BY <2>6, <3>1, <3>3 DEF VideoPoll, VideoPollGoesOn
      <3>4. CASE VideoPollFails(r)
        BY <2>6, <3>1, <3>4 DEF VideoPoll, VideoPollFails
      <3>. QED
        BY <2>6, <3>2, <3>3, <3>4 DEF VideoPoll
    <2>. QED
      BY <1>5, <2>1, <2>2, <2>3, <2>4, <2>5, <2>6 DEF NetworkStep
  <1>. QED
    BY <1>2, <1>3, <1>4, <1>5 DEF Next

\* With no save pending a reload restores what the page has, background
\* conversations included.
THEOREM QuietPageIsSaved == Spec => []QuietIsSaved
  <1>1. Init => QuietIsSaved
    BY DEF Init, QuietIsSaved
  <1>. QED
    BY <1>1, SavedStep, PTL DEF Spec

-----------------------------------------------------------------------------
(* What waits is last.                                                     *)

Waits(x) == x.status \in Unfinished /\ x.task = "none"
TailWaits(s) == \A i, j \in DOMAIN s : Waits(s[i]) => j <= i
TailInv == \A m \in Modes : TailWaits(msgs[m]) /\ TailWaits(stored[m])

\* A message that is rewritten waits only if it did.
LEMMA TailSameShape ==
    ASSUME NEW s, NEW t, DOMAIN t = DOMAIN s, TailWaits(s),
           \A i \in DOMAIN s : Waits(t[i]) => Waits(s[i])
    PROVE  TailWaits(t)
  BY DEF TailWaits

LEMMA TailStreamText ==
    ASSUME NEW s \in Seq(Msg), TailWaits(s), NEW r
    PROVE  TailWaits(StreamText(s, r))
  <1>1. CASE StreamText(s, r) = s
    BY <1>1
  <1>2. CASE StreamText(s, r) # s
    <2>. DEFINE t == StreamText(s, r)
    <2>1. LastOf(s).status \in Unfinished
      BY <1>2 DEF StreamText
    <2>2. /\ DOMAIN t = DOMAIN s
          /\ \A i \in DOMAIN s : i # Len(s) => t[i] = s[i]
      BY DEF StreamText
    <2>3. Len(s) \in DOMAIN s => t[Len(s)].task = s[Len(s)].task
      BY Element DEF StreamText, Msg
    <2>. HIDE DEF t
    <2>4. \A i \in DOMAIN s : Waits(t[i]) => Waits(s[i])
      BY <2>1, <2>2, <2>3 DEF Waits, LastOf
    <2>5. TailWaits(t)
      BY <2>2, <2>4, TailSameShape
    <2>. QED
      BY <2>5 DEF t
  <1>. QED
    BY <1>1, <1>2

LEMMA TailCloseTail ==
    ASSUME NEW s \in Seq(Msg), TailWaits(s), NEW st \in {"complete", "error"}
    PROVE  TailWaits(CloseTail(s, st))
  <1>. DEFINE t == CloseTail(s, st)
  <1>1. /\ DOMAIN t = DOMAIN s
        /\ \A i \in DOMAIN s : i # Len(s) => t[i] = s[i]
    BY DEF CloseTail
  <1>2. Len(s) \in DOMAIN s => t[Len(s)].status \notin Unfinished
    BY Element DEF CloseTail, LastOf, Msg, Unfinished
  <1>. HIDE DEF t
  <1>3. TailWaits(t)
    BY <1>1, <1>2, TailSameShape DEF Waits
  <1>. QED
    BY <1>3 DEF t

\* A rewrite of the answers to r that finishes them or gives them a task.
LEMMA TailPatched ==
    ASSUME NEW s \in Seq(Msg), TailWaits(s), NEW r, NEW st, NEW task,
           st \notin Unfinished \/ task # "none"
    PROVE  TailWaits(PatchMessage(s, r, st, task)) /\ TailWaits(FillLoading(s, r, st, task))
  <1>. DEFINE t == PatchMessage(s, r, st, task)
              u == FillLoading(s, r, st, task)
  <1>1. \A i \in DOMAIN s : s[i] \in Msg
    BY Element
  <1>2. \A i \in DOMAIN s : ~Waits([s[i] EXCEPT !.status = st, !.task = task, !.from = @ \cup {r}])
    BY <1>1 DEF Waits, Msg
  <1>3. /\ DOMAIN t = DOMAIN s /\ \A i \in DOMAIN s : t[i] = s[i] \/ ~Waits(t[i])
        /\ DOMAIN u = DOMAIN s /\ \A i \in DOMAIN s : u[i] = s[i] \/ ~Waits(u[i])
    BY <1>2 DEF PatchMessage, FillLoading
  <1>. HIDE DEF t, u
  <1>4. TailWaits(t) /\ TailWaits(u)
    BY <1>3, TailSameShape
  <1>. QED
    BY <1>4 DEF t, u

LEMMA TailImageText ==
    ASSUME NEW s \in Seq(Msg), TailWaits(s), NEW r
    PROVE  TailWaits(ImageText(s, r))
  <1>. DEFINE t == ImageText(s, r)
  <1>1. \A i \in DOMAIN s : s[i] \in Msg
    BY Element
  <1>2. DOMAIN t = DOMAIN s
        /\ \A i \in DOMAIN s : t[i].status = s[i].status /\ t[i].task = s[i].task
    BY <1>1 DEF ImageText, Msg
  <1>. HIDE DEF t
  <1>3. TailWaits(t)
    BY <1>2, TailSameShape DEF Waits
  <1>. QED
    BY <1>3 DEF t

LEMMA TailSend ==
    ASSUME NEW s \in Seq(Msg), \A i \in DOMAIN s : s[i].status \notin Unfinished,
           NEW x \in Msg, NEW y \in Msg, x.status \notin Unfinished
    PROVE  TailWaits(s \o <<x, y>>)
  <1>. DEFINE t == s \o <<x, y>>
  <1>1. <<x, y>> \in Seq(Msg) /\ Len(<<x, y>>) = 2
    OBVIOUS
  <1>2. /\ t \in Seq(Msg) /\ Len(t) = Len(s) + 2
        /\ \A i \in 1..(Len(s) + 2) : t[i] = IF i <= Len(s) THEN s[i] ELSE <<x, y>>[i - Len(s)]
    BY <1>1, ConcatProperties
  <1>3. Len(s) \in Nat /\ DOMAIN s = 1..Len(s) /\ DOMAIN t = 1..(Len(s) + 2)
    BY <1>2, LenProperties
  <1>. HIDE DEF t
  <1>4. \A i \in 1..Len(s) : ~Waits(t[i])
    BY <1>2, <1>3 DEF Waits
  <1>5. ~Waits(t[Len(s) + 1])
    BY <1>2, <1>3 DEF Waits
  <1>6. TailWaits(t)
    BY <1>3, <1>4, <1>5 DEF TailWaits
  <1>. QED
    BY <1>6 DEF t

LEMMA TailDelete ==
    ASSUME NEW s \in Seq(Msg), TailWaits(s), NEW k \in DOMAIN s
    PROVE  TailWaits(SubSeq(s, 1, k - 1) \o SubSeq(s, k + 1, Len(s)))
  <1>. DEFINE a == SubSeq(s, 1, k - 1)
              b == SubSeq(s, k + 1, Len(s))
              t == a \o b
  <1>1. Len(s) \in Nat /\ DOMAIN s = 1..Len(s) /\ k \in 1..Len(s)
        /\ \A i \in 1..Len(s) : s[i] \in Msg
    BY LenProperties, ElementOfSeq
  <1>2. a \in Seq(Msg) /\ b \in Seq(Msg)
    BY Without
  <1>3. Len(a) = k - 1 /\ \A i \in 1..(k - 1) : a[i] = s[i]
    <2>1. \A i \in 1..(k - 1) : s[i] \in Msg
      BY <1>1
    <2>2. /\ Len(a) = IF 1 <= k - 1 THEN k - 1 - 1 + 1 ELSE 0
          /\ \A i \in 1..(k - 1 - 1 + 1) : a[i] = s[1 + i - 1]
      BY <1>1, <2>1, SubSeqProperties
    <2>. QED
      BY <1>1, <2>2
  <1>4. Len(b) = Len(s) - k /\ \A i \in 1..(Len(s) - k) : b[i] = s[k + i]
    <2>1. \A i \in (k + 1)..Len(s) : s[i] \in Msg
      BY <1>1
    <2>2. k + 1 \in Int /\ Len(s) \in Int
      BY <1>1
    <2>3. /\ Len(b) = IF k + 1 <= Len(s) THEN Len(s) - (k + 1) + 1 ELSE 0
          /\ \A i \in 1..(Len(s) - (k + 1) + 1) : b[i] = s[k + 1 + i - 1]
      BY <2>1, <2>2, SubSeqProperties
    <2>. HIDE DEF b
    <2>4. Len(b) = Len(s) - k
      BY <1>1, <2>3
    <2>5. ASSUME NEW i \in 1..(Len(s) - k)
          PROVE  b[i] = s[k + i]
      <3>1. i \in 1..(Len(s) - (k + 1) + 1) /\ k + 1 + i - 1 = k + i
        BY <1>1
      <3>. QED
        BY <2>3, <3>1
    <2>. QED
      BY <2>4, <2>5
  <1>. HIDE DEF a, b
  <1>5. /\ t \in Seq(Msg) /\ Len(t) = Len(a) + Len(b)
        /\ \A i \in 1..(Len(a) + Len(b)) : t[i] = IF i <= Len(a) THEN a[i] ELSE b[i - Len(a)]
    BY <1>2, ConcatProperties
  <1>. HIDE DEF t
  <1>6. DOMAIN t = 1..(Len(s) - 1)
    <2>1. DOMAIN t = 1..Len(t)
      BY <1>5, LenProperties
    <2>2. Len(t) = Len(s) - 1
      BY <1>1, <1>3, <1>4, <1>5
    <2>. QED
      BY <2>1, <2>2
  <1>7. ASSUME NEW i \in 1..(Len(s) - 1)
        PROVE  t[i] = IF i < k THEN s[i] ELSE s[i + 1]
    <2>1. t[i] = IF i <= Len(a) THEN a[i] ELSE b[i - Len(a)]
      BY <1>1, <1>3, <1>4, <1>5
    <2>2. CASE i < k
      BY <1>1, <1>3, <2>1, <2>2
    <2>3. CASE i >= k
      <3>1. i - (k - 1) \in 1..(Len(s) - k) /\ k + (i - (k - 1)) = i + 1
        BY <1>1, <2>3
      <3>2. t[i] = b[i - (k - 1)]
        BY <1>1, <1>3, <2>1, <2>3
      <3>. QED
        BY <1>1, <1>4, <2>3, <3>1, <3>2
    <2>. QED
      BY <1>1, <2>2, <2>3
  <1>8. TailWaits(t)
    <2>. PICK n : n = Len(s)
      OBVIOUS
    <2>1. n \in Nat /\ k \in 1..n /\ DOMAIN s = 1..n /\ DOMAIN t = 1..(n - 1)
      BY <1>1, <1>6
    <2>2. n \in DOMAIN s
      BY <2>1
    <2>3. ASSUME NEW i \in 1..n, Waits(s[i])
          PROVE  i = n
      <3>1. n <= i
        BY <2>1, <2>2, <2>3 DEF TailWaits
      <3>. QED
        BY <2>1, <3>1
    <2>4. ASSUME NEW i \in 1..(n - 1), Waits(t[i])
          PROVE  i = n - 1
      <3>1. t[i] = IF i < k THEN s[i] ELSE s[i + 1]
        BY <1>7
      <3>2. CASE i < k
        BY <2>1, <2>3, <2>4, <3>1, <3>2
      <3>3. CASE ~(i < k)
        <4>1. i + 1 \in 1..n /\ Waits(s[i + 1])
          BY <2>1, <2>4, <3>1, <3>3
        <4>. QED
          BY <2>1, <2>3, <4>1
      <3>. QED
        BY <3>2, <3>3
    <2>5. ASSUME NEW i \in 1..(n - 1), NEW j \in 1..(n - 1), Waits(t[i])
          PROVE  j <= i
      BY <2>1, <2>4, <2>5
    <2>. QED
      BY <2>1, <2>5 DEF TailWaits
  <1>. QED
    BY <1>8 DEF t, a, b

LEMMA TailWritten ==
    ASSUME TypeOK, TailInv, NEW m \in Modes, NEW s, TailWaits(s), NEW save,
           SetMessageForMode(m, s, save)
    PROVE  TailInv'
  <1>1. CASE UNCHANGED <<msgs, stored>>
    BY <1>1 DEF TailInv
  <1>2. CASE msgs' = [msgs EXCEPT ![m] = s] /\ stored' \in {msgs', stored}
    <2>1. \A k \in Modes : TailWaits(msgs'[k])
      BY <1>2 DEF TailInv, TypeOK
    <2>2. \A k \in Modes : TailWaits(stored'[k])
      BY <1>2, <2>1 DEF TailInv
    <2>. QED
      BY <2>1, <2>2 DEF TailInv
  <1>. QED
    BY <1>1, <1>2 DEF SetMessageForMode

LEMMA TailComplete ==
    ASSUME TypeOK, TailInv, NEW m \in Modes, NEW s \in Seq(Msg), TailWaits(s),
           NEW st \in {"complete", "error"}, CompleteMessage(m, s, st)
    PROVE  TailInv'
  <1>1. CASE s # <<>>
    BY <1>1, TailCloseTail, TailWritten DEF CompleteMessage
  <1>2. CASE s = <<>>
    BY <1>2 DEF CompleteMessage, TailInv
  <1>. QED
    BY <1>1, <1>2

LEMMA TailSendRequest ==
    ASSUME PageInv, TailInv, NEW r \in Reqs, NEW k, NEW base \in Seq(Msg), NEW user \in Msg,
           \A i \in DOMAIN base : base[i].status \notin Unfinished, user.status \notin Unfinished,
           SendRequest(r, k, base, user)
    PROVE  TailInv'
  <1>1. TypeOK /\ display \in Modes
    BY DEF PageInv, TypeOK
  <1>2. LoadingMsg(r) \in Msg
    BY BoundsAssumption DEF LoadingMsg, AnswerMsg, Msg, Unfinished, Reqs
  <1>3. TailWaits(base \o <<user, LoadingMsg(r)>>)
    BY <1>2, TailSend
  <1>. QED
    BY <1>1, <1>3, TailWritten DEF SendRequest

LEMMA TailUser ==
    ASSUME PageInv, TailInv, UserStep
    PROVE  TailInv'
  <1>. PICK s : s = msgs[display]
    OBVIOUS
  <1>1. TypeOK /\ display \in Modes /\ s \in Seq(Msg) /\ TailWaits(s)
    BY DEF PageInv, TypeOK, TailInv
  <1>2. \A i \in DOMAIN s : s[i] \in Msg
    BY <1>1, Element
  <1>3. ASSUME NEW r \in Reqs, NEW k \in {"sse", "post"}, OnMessageSend(r, k)
        PROVE  TailInv'
    <2>1. \A i \in DOMAIN s : s[i].status \notin Unfinished
      BY <1>3 DEF OnMessageSend, SendRequest, Generating
    <2>2. UserMsg(r) \in Msg /\ UserMsg(r).status \notin Unfinished
      BY BoundsAssumption DEF UserMsg, Msg, Unfinished, Reqs
    <2>. QED
      BY <1>1, <1>3, <2>1, <2>2, TailSendRequest DEF OnMessageSend
  <1>4. ASSUME NEW r \in Reqs, NEW k \in {"sse", "post"}, NEW i \in DOMAIN s,
               OnMessageReset(r, k, i)
        PROVE  TailInv'
    <2>. DEFINE Finished == {x \in Msg : x.status \notin Unfinished}
    <2>1. \A j \in DOMAIN s : s[j] \in Finished
      BY <1>2, <1>4 DEF OnMessageReset, SendRequest, Generating
    <2>2. s \in Seq(Finished)
      <3>1. DOMAIN s = 1..Len(s) /\ Len(s) \in Nat /\ s \in [1..Len(s) -> Msg]
        BY <1>1, LenProperties
      <3>2. s \in [1..Len(s) -> Finished]
        BY <2>1, <3>1
      <3>. HIDE DEF Finished
      <3>. QED
        BY <3>1, <3>2, SeqDef
    <2>3. SubSeq(s, 1, i - 1) \in Seq(Finished)
      <3>. HIDE DEF Finished
      <3>. QED
        BY <2>2, Without
    <2>4. \A j \in DOMAIN SubSeq(s, 1, i - 1) : SubSeq(s, 1, i - 1)[j] \in Finished
      <3>. HIDE DEF Finished
      <3>. QED
        BY <2>3, Element
    <2>5. SubSeq(s, 1, i - 1) \in Seq(Msg)
      BY <1>1, Without
    <2>6. s[i] \in Msg /\ s[i].status \notin Unfinished
      BY <2>1
    <2>. QED
      BY <1>4, <2>4, <2>5, <2>6, TailSendRequest DEF OnMessageReset
  <1>5. CASE OnStopGenerator
    BY <1>1, <1>5, TailCloseTail, TailWritten DEF OnStopGenerator
  <1>6. CASE ClearMessages
    <2>1. TailWaits(<<>>)
      BY DEF TailWaits
    <2>. QED
      BY <1>1, <1>6, <2>1, TailWritten DEF ClearMessages
  <1>7. ASSUME NEW i \in DOMAIN s, DeleteMessage(i)
        PROVE  TailInv'
    BY <1>1, <1>7, TailDelete, TailWritten DEF DeleteMessage
  <1>8. ASSUME NEW m \in Modes, SwitchMode(m) \/ Reload(m)
        PROVE  TailInv'
    BY <1>8 DEF SwitchMode, Reload, TailInv
  <1>. QED
    BY <1>3, <1>4, <1>5, <1>6, <1>7, <1>8 DEF UserStep

LEMMA TailNetwork ==
    ASSUME PageInv, TailInv, NEW r \in Reqs, NetworkStep(r)
    PROVE  TailInv'
  <1>. PICK m : m = ConversationOf(r)
    OBVIOUS
  <1>1. /\ TypeOK /\ m \in Modes /\ req[r].mode = m
        /\ \A k \in Modes : msgs[k] \in Seq(Msg) /\ TailWaits(msgs[k])
    BY DEF PageInv, TypeOK, TailInv, ConversationOf
  <1>2. StreamEvent(r)
            => StreamText(msgs[m], r) \in Seq(Msg) /\ TailWaits(StreamText(msgs[m], r))
    <2>1. CASE StreamEvent(r)
      <3>1. Sent(r) /\ req[r].kind = "sse" /\ msgs[m] \in Seq(Good(m)) /\ Good(m) \subseteq Msg
        BY <1>1, <2>1 DEF StreamEvent, Sent, PageInv, Conversations, Good
      <3>2. StreamText(msgs[m], r) \in Seq(Good(m))
        BY <1>1, <3>1, StreamTextGood
      <3>. QED
        BY <1>1, <3>1, <3>2, SeqMonotonic, TailStreamText
    <2>. QED
      BY <2>1
  <1>3. CASE StreamChunk(r)
    BY <1>1, <1>2, <1>3, TailWritten DEF StreamChunk
  <1>4. CASE StreamDone(r)
    BY <1>1, <1>4, TailComplete DEF StreamDone
  <1>5. CASE StreamGarbage(r) \/ StreamError(r)
    BY <1>1, <1>2, <1>5, TailComplete DEF StreamGarbage, StreamError
  <1>6. CASE StreamCut(r)
    BY <1>6 DEF StreamCut, TailInv
  <1>7. ASSUME NEW st \in {"complete", "error"}, NEW task \in Tasks, NEW pollImage \in BOOLEAN,
               Reply(r, st, task, pollImage)
        PROVE  TailInv'
    <2>1. st \notin Unfinished
      BY DEF Unfinished
    <2>. QED
      BY <1>1, <1>7, <2>1, TailPatched, TailWritten DEF Reply
  <1>8. CASE ImagePoll(r)
    <2>1. "image" \in Modes
      BY <1>1, <1>8 DEF ImagePoll, Polling
    <2>2. TailWaits(ImageText(msgs["image"], r))
      BY <1>1, <2>1, TailImageText
    <2>3. \A st \in {"complete", "error"} : TailWaits(PatchMessage(msgs["image"], r, st, "none"))
      BY <1>1, <2>1, TailPatched DEF Unfinished
    <2>4. \/ UNCHANGED <<msgs, stored>>
          \/ SetMessageForMode("image", ImageText(msgs["image"], r), FALSE)
          \/ \E st \in {"complete", "error"} :
                 SetMessageForMode("image", PatchMessage(msgs["image"], r, st, "none"), FALSE)
      BY <1>8 DEF ImagePoll
    <2>. QED
      BY <1>1, <2>1, <2>2, <2>3, <2>4, TailWritten DEF TailInv
  <1>9. CASE VideoPoll(r)
    <2>1. "video" \in Modes
      BY <1>1, <1>9 DEF VideoPoll, Polling
    <2>2. ASSUME NEW st, NEW task, NEW p, task # "none", VideoPatch(r, st, task, p)
          PROVE  TailInv'
      <3>1. TailWaits(PatchMessage(msgs["video"], r, st, task))
        BY <1>1, <2>1, <2>2, TailPatched
      <3>. QED
        BY <1>1, <2>1, <2>2, <3>1, TailWritten DEF VideoPatch
    <2>3. CASE VideoPollEnds(r)
      BY <2>2, <2>3 DEF VideoPollEnds
    <2>4. CASE VideoPollGoesOn(r)
      BY <2>2, <2>4 DEF VideoPollGoesOn
    <2>5. CASE VideoPollFails(r)
      BY <2>2, <2>5 DEF VideoPollFails
    <2>. QED
      BY <1>9, <2>3, <2>4, <2>5 DEF VideoPoll
  <1>. QED
    BY <1>3, <1>4, <1>5, <1>6, <1>7, <1>8, <1>9 DEF NetworkStep, Tasks

\* A message that waits for its request is the last of its conversation, so
\* that streams write into it and Stop finds it.
THEOREM WaitingIsLast == Spec => []OnlyTailWaits
  <1>1. Init => TailInv
    BY DEF Init, TailInv, TailWaits, Waits, DefaultMessages, UserMsg, AnswerMsg, Unfinished
  <1>2. PageInv /\ TailInv /\ [Next]_vars => TailInv'
    <2>1. CASE UNCHANGED vars
      BY <2>1 DEF vars, TailInv
    <2>2. CASE PersistModeMessages
      BY <2>2 DEF PersistModeMessages, TailInv
    <2>. QED
      BY <2>1, <2>2, TailUser, TailNetwork DEF Next
  <1>3. PageInv /\ TailInv => OnlyTailWaits
    <2>. SUFFICES ASSUME PageInv, TailInv, NEW m \in Modes, NEW i \in DOMAIN msgs[m],
                         Waits(msgs[m][i])
                  PROVE  i = Len(msgs[m])
      BY DEF OnlyTailWaits, Waits
    <2>1. msgs[m] \in Seq(Msg) /\ TailWaits(msgs[m])
      BY DEF PageInv, TypeOK, TailInv
    <2>2. DOMAIN msgs[m] = 1..Len(msgs[m]) /\ Len(msgs[m]) \in Nat
      BY <2>1, LenProperties
    <2>3. Len(msgs[m]) \in DOMAIN msgs[m]
      BY <2>2
    <2>4. Len(msgs[m]) <= i
      BY <2>1, <2>3 DEF TailWaits
    <2>. QED
      BY <2>2, <2>4
  <1>. QED
    BY <1>1, <1>2, <1>3, PageAlways, PTL DEF Spec
-----------------------------------------------------------------------------
(* Whose text is in whose answer.                                          *)

MixedIn(s, r, q) == \E i \in Answers(s, q) : r \in s[i].from

\* What is mixed in a saved conversation is mixed in the one of the page, so
\* that a reload mixes nothing: the page takes text out of a conversation only
\* when it saves it at once.
SavedMixes ==
    \A m \in Modes : \A r \in Reqs : \A q \in 0..MaxReq :
        MixedIn(stored[m], r, q) => MixedIn(msgs[m], r, q)

\* t mixes whatever s does, and t mixes nothing s does not.
MixesMore(t, s) ==
    \A r \in Reqs : \A q \in 0..MaxReq : MixedIn(s, r, q) => MixedIn(t, r, q)
MixesNone(t, s) ==
    \A r \in Reqs : \A q \in 0..MaxReq : r # q /\ MixedIn(t, r, q) => MixedIn(s, r, q)

\* What a step has to keep to: a request that newly mixes with another has no
\* unfinished answer.
OwnUnfinished(r) ==
    \E m \in Modes : \E i \in Answers(msgs[m], r) : msgs[m][i].status \in Unfinished
KeepsToOwn ==
    \A r \in Reqs : \A q \in 0..MaxReq :
        /\ r # q
        /\ \E m \in Modes : MixedIn(msgs'[m], r, q)
        /\ \A m \in Modes : ~ MixedIn(msgs[m], r, q)
        => ~ OwnUnfinished(r)

LEMMA SameMessages ==
    ASSUME NEW s, NEW t, DOMAIN t = DOMAIN s,
           \A i \in DOMAIN s : t[i].id = s[i].id /\ t[i].role = s[i].role
    PROVE  /\ (\A i \in DOMAIN s : s[i].from \subseteq t[i].from) => MixesMore(t, s)
           /\ (\A i \in DOMAIN s : t[i].from \subseteq s[i].from \cup {s[i].id})
                  => MixesNone(t, s)
  BY DEF MixesMore, MixesNone, MixedIn, Answers

LEMMA CloseTailMixes ==
    ASSUME NEW s \in Seq(Msg), NEW st \in {"complete", "error"}
    PROVE  /\ DOMAIN CloseTail(s, st) = DOMAIN s
           /\ \A i \in DOMAIN s : /\ CloseTail(s, st)[i].id = s[i].id
                                  /\ CloseTail(s, st)[i].role = s[i].role
                                  /\ CloseTail(s, st)[i].from = s[i].from
  <1>1. \A i \in DOMAIN s : s[i] \in Msg
    BY Element
  <1>. QED
    BY <1>1 DEF CloseTail, Msg

LEMMA PatchMixes ==
    ASSUME NEW s \in Seq(Msg), NEW r, NEW st, NEW task
    PROVE  /\ MixesMore(PatchMessage(s, r, st, task), s)
           /\ MixesNone(PatchMessage(s, r, st, task), s)
           /\ MixesMore(FillLoading(s, r, st, task), s)
           /\ MixesMore(ImageText(s, r), s) /\ MixesNone(ImageText(s, r), s)
           /\ MixesNone(FillLoading(s, r, st, task), s)
  <1>. DEFINE t == PatchMessage(s, r, st, task)
              u == FillLoading(s, r, st, task)
              v == ImageText(s, r)
              Like(x, y) == /\ x.id = y.id /\ x.role = y.role
                            /\ y.from \subseteq x.from /\ x.from \subseteq y.from \cup {y.id}
  <1>1. \A i \in DOMAIN s : s[i] \in Msg
    BY Element
  <1>2. ASSUME NEW i \in DOMAIN s
        PROVE  /\ Like(s[i], s[i])
               /\ i \in Answers(s, r) =>
                     /\ Like([s[i] EXCEPT !.status = st, !.task = task, !.from = @ \cup {r}], s[i])
                     /\ Like([s[i] EXCEPT !.from = @ \cup {r}], s[i])
    BY <1>1 DEF Msg, Answers
  <1>. HIDE DEF Like
  <1>3. /\ DOMAIN t = DOMAIN s /\ DOMAIN u = DOMAIN s /\ DOMAIN v = DOMAIN s
        /\ \A i \in DOMAIN s : Like(t[i], s[i]) /\ Like(u[i], s[i]) /\ Like(v[i], s[i])
    BY <1>2 DEF PatchMessage, FillLoading, ImageText
  <1>. HIDE DEF t, u, v
  <1>4. /\ MixesMore(t, s) /\ MixesMore(u, s) /\ MixesMore(v, s)
        /\ MixesNone(t, s) /\ MixesNone(u, s) /\ MixesNone(v, s)
    BY <1>3, SameMessages DEF Like
  <1>. QED
    BY <1>4 DEF t, u, v

\* A stream mixes with nobody but the one whose answer is the last message.
LEMMA StreamTextMixes ==
    ASSUME NEW s \in Seq(Msg), NEW r
    PROVE  /\ DOMAIN StreamText(s, r) = DOMAIN s
           /\ \A i \in DOMAIN s : /\ StreamText(s, r)[i].id = s[i].id
                                  /\ StreamText(s, r)[i].role = s[i].role
                                  /\ s[i].from \subseteq StreamText(s, r)[i].from
                                  /\ StreamText(s, r)[i].from
                                        \subseteq s[i].from \cup (IF i = Len(s) THEN {r} ELSE {})
  <1>1. \A i \in DOMAIN s : s[i] \in Msg
    BY Element
  <1>. QED
    BY <1>1 DEF StreamText, Msg

LEMMA OwnIsLast ==
    ASSUME PageInv, OnlyTailWaits, NEW r \in Reqs, req[r].kind = "sse",
           NEW m \in Modes, NEW i \in Answers(msgs[m], r), msgs[m][i].status \in Unfinished
    PROVE  m = req[r].mode /\ i = Len(msgs[m])
  <1>1. msgs[m] \in Seq(Good(m)) /\ i \in DOMAIN msgs[m]
    BY DEF PageInv, Conversations, Answers
  <1>2. msgs[m][i] \in Good(m) /\ msgs[m][i].id = r /\ msgs[m][i].role = "assistant"
    BY <1>1, Element DEF Answers
  <1>3. req[r].mode = m /\ msgs[m][i].task = "none"
    BY <1>2 DEF Good, OwnOK, TaskOK, Posted
  <1>. QED
    BY <1>1, <1>3 DEF OnlyTailWaits

-----------------------------------------------------------------------------
(* Writing a conversation.                                                 *)

LEMMA WriteKeepsMixes ==
    ASSUME TypeOK, SavedMixes, NEW m \in Modes, NEW s, NEW save, SetMessageForMode(m, s, save),
           save \/ MixesMore(s, msgs[m])
    PROVE  SavedMixes'
  <1>1. CASE UNCHANGED <<msgs, stored>>
    BY <1>1 DEF SavedMixes
  <1>2. CASE stored' = msgs'
    BY <1>2 DEF SavedMixes
  <1>3. CASE msgs' = [msgs EXCEPT ![m] = s] /\ stored' = stored /\ MixesMore(s, msgs[m])
    <2>1. \A k \in Modes : msgs'[k] = IF k = m THEN s ELSE msgs[k]
      BY <1>3 DEF TypeOK
    <2>. QED
      BY <1>3, <2>1 DEF SavedMixes, MixesMore
  <1>. QED
    BY <1>1, <1>2, <1>3 DEF SetMessageForMode, SavedAtOnce

LEMMA WriteKeepsToOwn ==
    ASSUME TypeOK, NEW m \in Modes, NEW s, NEW save, SetMessageForMode(m, s, save),
           MixesNone(s, msgs[m])
    PROVE  KeepsToOwn
  <1>1. \A k \in Modes : msgs'[k] = msgs[k] \/ (k = m /\ msgs'[k] = s)
    BY DEF SetMessageForMode, TypeOK
  <1>. QED
    BY <1>1 DEF KeepsToOwn, MixesNone

LEMMA NothingMixes == ASSUME UNCHANGED msgs PROVE KeepsToOwn
  BY DEF KeepsToOwn

\* Messages without text, of users, or that were there, mix nothing.
Taken(s) == {x \in Msg : x.role = "user" \/ x.from = {} \/ \E i \in DOMAIN s : s[i] = x}

LEMMA TakenMixesNone ==
    ASSUME NEW s \in Seq(Msg), NEW t \in Seq(Taken(s))
    PROVE  MixesNone(t, s)
  <1>1. \A i \in DOMAIN t : t[i] \in Taken(s)
    BY Element
  <1>2. ASSUME NEW r \in Reqs, NEW q \in 0..MaxReq, MixedIn(t, r, q)
        PROVE  MixedIn(s, r, q)
    <2>1. PICK i \in DOMAIN t : t[i].id = q /\ t[i].role = "assistant" /\ r \in t[i].from
      BY <1>2 DEF MixedIn, Answers
    <2>2. PICK j \in DOMAIN s : s[j] = t[i]
      BY <1>1, <2>1 DEF Taken
    <2>. QED
      BY <2>1, <2>2 DEF MixedIn, Answers
  <1>. QED
    BY <1>2 DEF MixesNone

LEMMA TakenItself == ASSUME NEW s \in Seq(Msg) PROVE s \in Seq(Taken(s))
  <1>1. DOMAIN s = 1..Len(s) /\ Len(s) \in Nat /\ s \in [1..Len(s) -> Msg]
    BY LenProperties
  <1>2. s \in [1..Len(s) -> Taken(s)]
    BY <1>1, Element DEF Taken
  <1>. QED
    BY <1>1, <1>2, SeqDef
-----------------------------------------------------------------------------
(* Every step keeps to both.                                               *)

LEMMA SendMixes ==
    ASSUME TypeOK, SavedMixes, NEW r \in Reqs, NEW k, NEW base \in Seq(Taken(msgs[display])),
           NEW user \in Taken(msgs[display]), SendRequest(r, k, base, user)
    PROVE  SavedMixes' /\ KeepsToOwn
  <1>1. display \in Modes /\ msgs[display] \in Seq(Msg)
    BY DEF TypeOK
  <1>2. LoadingMsg(r) \in Taken(msgs[display])
    BY BoundsAssumption DEF LoadingMsg, AnswerMsg, Taken, Msg, Unfinished, Reqs
  <1>3. base \o <<user, LoadingMsg(r)>> \in Seq(Taken(msgs[display]))
    BY <1>2, AppendTwo
  <1>4. MixesNone(base \o <<user, LoadingMsg(r)>>, msgs[display])
    BY <1>1, <1>3, TakenMixesNone
  <1>. QED
    BY <1>1, <1>4, WriteKeepsMixes, WriteKeepsToOwn DEF SendRequest

LEMMA UserMixes ==
    ASSUME PageInv, SavedMixes, UserStep
    PROVE  SavedMixes' /\ KeepsToOwn
  <1>. PICK s : s = msgs[display]
    OBVIOUS
  <1>1. TypeOK /\ display \in Modes /\ s \in Seq(Msg) /\ s \in Seq(Taken(s))
    BY TakenItself DEF PageInv, TypeOK
  <1>2. ASSUME NEW r \in Reqs, NEW k \in {"sse", "post"}, OnMessageSend(r, k)
        PROVE  SavedMixes' /\ KeepsToOwn
    <2>1. UserMsg(r) \in Taken(s)
      BY BoundsAssumption DEF UserMsg, Taken, Msg, Reqs
    <2>. QED
      BY <1>1, <1>2, <2>1, SendMixes DEF OnMessageSend
  <1>3. ASSUME NEW r \in Reqs, NEW k \in {"sse", "post"}, NEW i \in DOMAIN s,
               OnMessageReset(r, k, i)
        PROVE  SavedMixes' /\ KeepsToOwn
    <2>1. s[i] \in Taken(s) /\ SubSeq(s, 1, i - 1) \in Seq(Taken(s))
      BY <1>1, Element, Without
    <2>. QED
      BY <1>1, <1>3, <2>1, SendMixes DEF OnMessageReset
  <1>4. ASSUME NEW t \in Seq(Taken(s)), SetMessageForMode(display, t, TRUE)
        PROVE  SavedMixes' /\ KeepsToOwn
    BY <1>1, <1>4, TakenMixesNone, WriteKeepsMixes, WriteKeepsToOwn
  <1>5. CASE OnStopGenerator
    <2>1. /\ MixesNone(CloseTail(s, "complete"), s)
          /\ MixesMore(s, s) /\ MixesNone(s, s)
      <3>1. MixesNone(CloseTail(s, "complete"), s)
        BY <1>1, CloseTailMixes, SameMessages
      <3>. QED
        BY <3>1 DEF MixesMore, MixesNone
    <2>2. \/ SetMessageForMode(display, CloseTail(s, "complete"), TRUE)
          \/ SetMessageForMode(display, s, FALSE)
      BY <1>5 DEF OnStopGenerator
    <2>. QED
      BY <1>1, <2>1, <2>2, WriteKeepsMixes, WriteKeepsToOwn
  <1>6. CASE ClearMessages
    <2>1. <<>> \in Seq(Taken(s))
      BY EmptySeq
    <2>. QED
      BY <1>4, <1>6, <2>1 DEF ClearMessages
  <1>7. ASSUME NEW i \in DOMAIN s, DeleteMessage(i)
        PROVE  SavedMixes' /\ KeepsToOwn
    <2>1. SubSeq(s, 1, i - 1) \o SubSeq(s, i + 1, Len(s)) \in Seq(Taken(s))
      BY <1>1, Without
    <2>. QED
      BY <1>4, <1>7, <2>1 DEF DeleteMessage
  <1>8. ASSUME NEW m \in Modes, SwitchMode(m)
        PROVE  SavedMixes' /\ KeepsToOwn
    BY <1>8, NothingMixes DEF SwitchMode, SavedMixes
  <1>9. ASSUME NEW m \in Modes, Reload(m)
        PROVE  SavedMixes' /\ KeepsToOwn
    <2>1. msgs' = stored /\ stored' = stored
      BY <1>9 DEF Reload
    <2>. QED
      BY <2>1 DEF SavedMixes, KeepsToOwn
  <1>. QED
    BY <1>2, <1>3, <1>5, <1>6, <1>7, <1>8, <1>9 DEF UserStep

\* What a stream writes goes to the last message of its conversation: if its
\* own answer is unfinished, that is the one.
LEMMA StreamMixes ==
    ASSUME PageInv, OnlyTailWaits, SavedMixes, NEW r \in Reqs, StreamEvent(r),
           NEW m \in Modes, m = req[r].mode, NEW s \in Seq(Msg), NEW save,
           DOMAIN s = DOMAIN msgs[m],
           \A i \in DOMAIN msgs[m] :
               /\ s[i].id = msgs[m][i].id /\ s[i].role = msgs[m][i].role
               /\ msgs[m][i].from \subseteq s[i].from
               /\ s[i].from \subseteq msgs[m][i].from
                                         \cup (IF i = Len(msgs[m]) THEN {r} ELSE {}),
           SetMessageForMode(m, s, save)
    PROVE  SavedMixes' /\ KeepsToOwn
  <1>1. TypeOK
    BY DEF PageInv
  <1>2. MixesMore(s, msgs[m])
    BY SameMessages
  <1>3. SavedMixes'
    BY <1>1, <1>2, WriteKeepsMixes
  <1>4. KeepsToOwn
    <2>. SUFFICES ASSUME NEW a \in Reqs, NEW q \in 0..MaxReq, a # q,
                         \E k \in Modes : MixedIn(msgs'[k], a, q),
                         \A k \in Modes : ~ MixedIn(msgs[k], a, q),
                         OwnUnfinished(a)
                  PROVE  FALSE
      BY DEF KeepsToOwn
    <2>1. \A k \in Modes : msgs'[k] = msgs[k] \/ (k = m /\ msgs'[k] = s)
      BY <1>1 DEF SetMessageForMode, TypeOK
    <2>2. MixedIn(s, a, q) /\ ~ MixedIn(msgs[m], a, q)
      BY <2>1
    <2>3. PICK i \in DOMAIN msgs[m] : /\ s[i].id = q /\ s[i].role = "assistant"
                                      /\ a \in s[i].from
      BY <2>2 DEF MixedIn, Answers
    <2>4. a \notin msgs[m][i].from
      <3>1. i \in Answers(msgs[m], q)
        BY <2>3 DEF Answers
      <3>. QED
        BY <2>2, <3>1 DEF MixedIn
    <2>5. i = Len(msgs[m]) /\ a = r
      BY <2>3, <2>4
    <2>6. PICK k \in Modes :
                 \E j \in Answers(msgs[k], r) : msgs[k][j].status \in Unfinished
      BY <2>5 DEF OwnUnfinished
    <2>7. PICK j \in Answers(msgs[k], r) : msgs[k][j].status \in Unfinished
      BY <2>6
    <2>8. k = m /\ j = Len(msgs[m])
      BY <2>7, OwnIsLast DEF StreamEvent
    <2>9. msgs[m][i].id = r
      BY <2>5, <2>7, <2>8 DEF Answers
    <2>. QED
      BY <2>3, <2>5, <2>9
  <1>. QED
    BY <1>3, <1>4

LEMMA StreamStepMixes ==
    ASSUME PageInv, OnlyTailWaits, SavedMixes, NEW r \in Reqs,
           StreamChunk(r) \/ StreamDone(r) \/ StreamGarbage(r) \/ StreamError(r)
    PROVE  SavedMixes' /\ KeepsToOwn
  <1>. PICK m : m = ConversationOf(r)
    OBVIOUS
  <1>. DEFINE s == StreamText(msgs[m], r)
  <1>1. /\ StreamEvent(r) /\ TypeOK /\ m \in Modes /\ m = req[r].mode
        /\ msgs[m] \in Seq(Msg) /\ msgs[m] \in Seq(Good(m))
    BY DEF StreamChunk, StreamDone, StreamGarbage, StreamError, StreamEvent, PageInv, TypeOK,
           Conversations, ConversationOf
  <1>2. s \in Seq(Msg)
    <2>1. Sent(r) /\ req[r].kind = "sse" /\ Good(m) \subseteq Msg
      BY <1>1 DEF StreamEvent, Sent, Good
    <2>2. s \in Seq(Good(m))
      BY <1>1, <2>1, StreamTextGood
    <2>. QED
      BY <2>1, <2>2, SeqMonotonic
  <1>. DEFINE Writes(t) ==
                 /\ DOMAIN t = DOMAIN msgs[m]
                 /\ \A i \in DOMAIN msgs[m] :
                       /\ t[i].id = msgs[m][i].id /\ t[i].role = msgs[m][i].role
                       /\ msgs[m][i].from \subseteq t[i].from
                       /\ t[i].from \subseteq msgs[m][i].from
                                       \cup (IF i = Len(msgs[m]) THEN {r} ELSE {})
  <1>3. Writes(msgs[m]) /\ Writes(s)
    BY <1>1, StreamTextMixes
  <1>4. ASSUME NEW t \in Seq(Msg), Writes(t), NEW save, SetMessageForMode(m, t, save)
        PROVE  SavedMixes' /\ KeepsToOwn
    BY <1>1, <1>4, StreamMixes
  <1>5. ASSUME NEW t \in Seq(Msg), t = s \/ t = msgs[m], NEW st \in {"complete", "error"},
               CompleteMessage(m, t, st)
        PROVE  SavedMixes' /\ KeepsToOwn
    <2>1. CASE t = <<>>
      <3>1. UNCHANGED <<msgs, stored>>
        BY <1>5, <2>1 DEF CompleteMessage
      <3>. QED
        BY <3>1, NothingMixes DEF SavedMixes
    <2>2. CASE t # <<>>
      <3>1. CloseTail(t, st) \in Seq(Msg)
        <4>1. t \in Seq(Good(m)) /\ Good(m) \subseteq Msg
          BY <1>1, <1>5, StreamTextGood DEF StreamEvent, Sent, Good
        <4>2. CloseTail(t, st) \in Seq(Good(m))
          BY <1>1, <2>2, <4>1, CloseTailGood
        <4>. QED
          BY <4>1, <4>2, SeqMonotonic
      <3>2. Writes(CloseTail(t, st))
        <4>1. Writes(t)
          BY <1>3, <1>5
        <4>. HIDE DEF s
        <4>. QED
          BY <4>1, CloseTailMixes
      <3>3. \E save : SetMessageForMode(m, CloseTail(t, st), save)
        BY <1>5, <2>2 DEF CompleteMessage
      <3>. HIDE DEF Writes
      <3>. QED
        BY <1>4, <3>1, <3>2, <3>3
    <2>. QED
      BY <2>1, <2>2
  <1>6. CASE StreamChunk(r)
    <2>1. SetMessageForMode(m, s, FALSE)
      BY <1>6 DEF StreamChunk
    <2>. HIDE DEF s, Writes
    <2>. QED
      BY <1>2, <1>3, <1>4, <2>1
  <1>7. CASE StreamDone(r)
    BY <1>1, <1>5, <1>7 DEF StreamDone
  <1>8. CASE StreamGarbage(r) \/ StreamError(r)
    BY <1>2, <1>5, <1>8 DEF StreamGarbage, StreamError
  <1>. QED
    BY <1>6, <1>7, <1>8

LEMMA NetworkMixes ==
    ASSUME PageInv, OnlyTailWaits, SavedMixes, NEW r \in Reqs, NetworkStep(r)
    PROVE  SavedMixes' /\ KeepsToOwn
  <1>1. TypeOK /\ \A m \in Modes : msgs[m] \in Seq(Msg)
    BY DEF PageInv, TypeOK
  <1>2. ASSUME NEW m \in Modes, NEW s, NEW save, SetMessageForMode(m, s, save),
               MixesMore(s, msgs[m]), MixesNone(s, msgs[m])
        PROVE  SavedMixes' /\ KeepsToOwn
    BY <1>1, <1>2, WriteKeepsMixes, WriteKeepsToOwn
  <1>3. CASE StreamChunk(r) \/ StreamDone(r) \/ StreamGarbage(r) \/ StreamError(r)
    BY <1>3, StreamStepMixes
  <1>4. CASE StreamCut(r)
    BY <1>4, NothingMixes DEF StreamCut, SavedMixes
  <1>5. ASSUME NEW st, NEW task, NEW pollImage, Reply(r, st, task, pollImage)
        PROVE  SavedMixes' /\ KeepsToOwn
    <2>1. /\ ConversationOf(r) \in Modes
          /\ SetMessageForMode(ConversationOf(r),
                 FillLoading(msgs[ConversationOf(r)], r, st, task), FALSE)
      BY <1>1, <1>5 DEF Reply, ConversationOf, TypeOK
    <2>. QED
      BY <1>1, <1>2, <2>1, PatchMixes
  <1>6. CASE ImagePoll(r)
    <2>1. "image" \in Modes
      BY <1>1, <1>6 DEF ImagePoll, Polling, TypeOK
    <2>2. \/ UNCHANGED <<msgs, stored>>
          \/ SetMessageForMode("image", ImageText(msgs["image"], r), FALSE)
          \/ \E st \in {"complete", "error"} :
                 SetMessageForMode("image", PatchMessage(msgs["image"], r, st, "none"), FALSE)
      BY <1>6 DEF ImagePoll
    <2>3. CASE UNCHANGED <<msgs, stored>>
      BY <2>3, NothingMixes DEF SavedMixes
    <2>. QED
      BY <1>1, <1>2, <2>1, <2>2, <2>3, PatchMixes
  <1>7. CASE VideoPoll(r)
    <2>1. "video" \in Modes
      BY <1>1, <1>7 DEF VideoPoll, Polling, TypeOK
    <2>2. \E st, task, p : VideoPatch(r, st, task, p)
      BY <1>7 DEF VideoPoll, VideoPollEnds, VideoPollGoesOn, VideoPollFails
    <2>. QED
      BY <1>1, <1>2, <2>1, <2>2, PatchMixes DEF VideoPatch
  <1>. QED
    BY <1>3, <1>4, <1>5, <1>6, <1>7 DEF NetworkStep

LEMMA MixesStep ==
    ASSUME PageInv, OnlyTailWaits, SavedMixes, [Next]_vars
    PROVE  SavedMixes' /\ KeepsToOwn
  <1>1. CASE UNCHANGED vars
    BY <1>1, NothingMixes DEF vars, SavedMixes
  <1>2. CASE PersistModeMessages
    BY <1>2, NothingMixes DEF PersistModeMessages, SavedMixes
  <1>. QED
    BY <1>1, <1>2, UserMixes, NetworkMixes DEF Next

\* While its own answer is unfinished a stream writes into no other, although
\* the code only ever looks at the last message.
THEOREM StreamsKeepToOwn == Spec => StreamKeepsToOwn
  <1>1. Init => SavedMixes
    BY DEF Init, SavedMixes
  <1>2. KeepsToOwn =>
            \A p \in Mixed' \ Mixed :
                ~ \E m \in Modes : \E i \in Answers(msgs[m], p[1]) :
                      msgs[m][i].status \in Unfinished
    <2>. SUFFICES ASSUME KeepsToOwn, NEW p \in Mixed' \ Mixed
                  PROVE  ~ OwnUnfinished(p[1])
      BY DEF OwnUnfinished
    <2>1. /\ p \in Reqs \X (0..MaxReq) /\ p[1] # p[2]
          /\ \E m \in Modes : MixedIn(msgs'[m], p[1], p[2])
          /\ \A m \in Modes : ~ MixedIn(msgs[m], p[1], p[2])
      BY DEF Mixed, MixedIn, Answers
    <2>2. p[1] \in Reqs /\ p[2] \in 0..MaxReq
      BY <2>1
    <2>. QED
      BY <2>1, <2>2 DEF KeepsToOwn
  <1>3. PageInv /\ OnlyTailWaits /\ SavedMixes /\ [Next]_vars => SavedMixes' /\ KeepsToOwn
    BY MixesStep
  <1>. QED
    BY <1>1, <1>2, <1>3, PageAlways, WaitingIsLast, PTL DEF Spec, StreamKeepsToOwn
=============================================================================
