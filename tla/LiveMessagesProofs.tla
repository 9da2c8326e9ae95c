-------------------------- MODULE LiveMessagesProofs --------------------------
(***************************************************************************)
(* Proofs about Messaging, WsFanout and RuntimeSettings, for any requests  *)
(* in flight, size of a page and number of messages, any instances,        *)
(* sockets and restarts, and any processes, lifetime and changes; and      *)
(* about the three side by side (MCLiveMessages).                          *)
(***************************************************************************)
EXTENDS MCLiveMessages, SequenceTheorems, TLAPS

-----------------------------------------------------------------------------
(* Messaging.                                                              *)

\* A request that is reading has loaded no further than the last message.
ReadersLoaded == \A c \in Sessions : calls[c].last <= Len(log)

\* The property, message by message: there is always a party to have read it.
ReadIsAccountedFor ==
    \A k \in DOMAIN log : log[k].read => log[k].shown \/ log[k].early \/ k + PageSize <= Len(log)

ChatInv == ChatTypeOK /\ ReadersLoaded /\ ReadIsAccountedFor

\* A function on the places of a log is a log.
LEMMA LogOf ==
    ASSUME NEW S, NEW n \in Nat, NEW f \in [1..n -> S]
    PROVE  f \in Seq(S) /\ Len(f) = n
<1>1. f \in Seq(S)
  BY SeqDef
<1> QED
  BY <1>1, LenProperties

LEMMA ChatStarts == ChatInit => ChatInv
<1> SUFFICES ASSUME ChatInit PROVE ChatInv
  OBVIOUS
<1>1. NoCall \in Call /\ NoCall.last = 0
  BY MessagingAssumption DEF NoCall, Call, Party
<1>2. log \in Seq(Message) /\ Len(log) = 0 /\ DOMAIN log = {}
  BY EmptySeq DEF ChatInit
<1> QED
  BY <1>1, <1>2, MessagingAssumption DEF ChatInit, ChatInv, ChatTypeOK, ReadersLoaded, ReadIsAccountedFor

\* The steps that leave the log alone: one request moves on.
LEMMA CallMoves ==
    ASSUME ChatInv, NEW c \in Sessions, NEW call \in Call, calls' = [calls EXCEPT ![c] = call],
           call.last <= Len(log), UNCHANGED log, conversations' \in 0..1
    PROVE  ChatInv'
<1>1. \A d \in Sessions : calls'[d] = IF d = c THEN call ELSE calls[d]
  BY DEF ChatInv, ChatTypeOK
<1> QED
  BY <1>1 DEF ChatInv, ChatTypeOK, ReadersLoaded, ReadIsAccountedFor

LEMMA CallSteps ==
    ASSUME ChatInv, NEW c \in Sessions,
           FindConversation(c) \/ InsertConversation(c) \/ \E p \in Party : LoadMessages(c, p)
    PROVE  ChatInv'
<1> USE MessagingAssumption
<1>1. /\ calls \in [Sessions -> Call] /\ calls[c] \in Call /\ conversations \in 0..1
      /\ Len(log) \in 0..MaxMessages /\ calls[c].last <= Len(log)
      /\ NoCall \in Call /\ NoCall.last = 0
  <2>1. NoCall \in Call /\ NoCall.last = 0
    BY DEF NoCall, Call, Party
  <2>2. Len(log) \in Nat
    BY LenProperties DEF ChatInv, ChatTypeOK
  <2> QED
    BY <2>1, <2>2 DEF ChatInv, ChatTypeOK, ReadersLoaded
<1>2. CASE FindConversation(c)
  <2> DEFINE call == [calls[c] EXCEPT !.pc = "opening"]
  <2>1. call \in Call /\ call.last = calls[c].last
    BY <1>1 DEF Call
  <2>2. calls' = [calls EXCEPT ![c] = call] /\ UNCHANGED <<conversations, log>>
    BY <1>1, <1>2 DEF FindConversation
  <2> HIDE DEF call
  <2> QED
    BY <1>1, <2>1, <2>2, CallMoves
<1>3. CASE InsertConversation(c)
  <2>1. calls' = [calls EXCEPT ![c] = NoCall] /\ conversations' \in 0..1 /\ UNCHANGED log
    BY <1>1, <1>3 DEF InsertConversation
  <2> QED
    <3>1. NoCall.last <= Len(log)
      BY <1>1
    <3> QED
      BY <1>1, <2>1, <3>1, CallMoves
<1>4. CASE \E p \in Party : LoadMessages(c, p)
  <2>1. PICK p \in Party : LoadMessages(c, p)
    BY <1>4
  <2> DEFINE call == [pc |-> "reading", by |-> p, last |-> Len(log)]
  <2>2. call \in Call /\ call.last = Len(log)
    BY <1>1 DEF Call
  <2>3. calls' = [calls EXCEPT ![c] = call] /\ UNCHANGED <<conversations, log>>
    BY <2>1 DEF LoadMessages
  <2> HIDE DEF call
  <2> QED
    <3>1. call.last <= Len(log) /\ conversations' \in 0..1 /\ UNCHANGED log
      BY <1>1, <2>2, <2>3
    <3> QED
      BY <2>2, <2>3, <3>1, CallMoves
<1> QED
  BY <1>2, <1>3, <1>4

\* A message is sent: it is unread.
LEMMA MessageSent ==
    ASSUME ChatInv, NEW c \in Sessions, NEW p \in Party, SendMessage(c, p)
    PROVE  ChatInv'
<1> USE MessagingAssumption DEF ChatInv, ChatTypeOK
<1> DEFINE m == [sender |-> p, read |-> FALSE, shown |-> FALSE, early |-> FALSE]
<1>1. m \in Message /\ ~m.read
  BY DEF Message
<1>2. log' = Append(log, m) /\ Len(log) < MaxMessages /\ UNCHANGED <<conversations, calls>>
  BY DEF SendMessage
<1> HIDE DEF m
<1>3. /\ log' \in Seq(Message) /\ Len(log') = Len(log) + 1 /\ Len(log) \in Nat
      /\ DOMAIN log = 1..Len(log) /\ DOMAIN log' = 1..(Len(log) + 1)
      /\ \A k \in 1..(Len(log) + 1) : log'[k] = IF k = Len(log) + 1 THEN m ELSE log[k]
  BY <1>1, <1>2
<1>4. ChatTypeOK'
  BY <1>2, <1>3
<1>5. ReadersLoaded'
  <2>1. \A d \in Sessions : calls[d].last \in Nat /\ calls[d].last <= Len(log)
    BY DEF ReadersLoaded, Call
  <2> QED
    BY <1>2, <1>3, <2>1 DEF ReadersLoaded
<1>6. ReadIsAccountedFor'
  BY <1>1, <1>2, <1>3 DEF ReadIsAccountedFor
<1> QED
  BY <1>4, <1>5, <1>6

\* The other party's messages are marked: those it had loaded within a page are shown,
\* older ones lie beyond the page, newer ones came while it was running.
LEMMA MessagesRead ==
    ASSUME ChatInv, NEW c \in Sessions, MarkRead(c)
    PROVE  ChatInv'
<1> USE MessagingAssumption
<1> DEFINE call == calls[c]
           marked(k) == [log[k] EXCEPT !.read = TRUE, !.shown = log[k].shown \/ k \in Page(call),
                                       !.early = log[k].early \/ (~log[k].read /\ k > call.last)]
           row(k) == IF log[k].sender = call.by THEN log[k] ELSE marked(k)
<1>1. /\ log \in Seq(Message) /\ Len(log) \in Nat /\ Len(log) <= MaxMessages /\ DOMAIN log = 1..Len(log)
      /\ \A k \in 1..Len(log) : log[k] \in Message
      /\ call = calls[c] /\ call \in Call /\ call.last \in Nat /\ call.last <= Len(log)
      /\ calls \in [Sessions -> Call] /\ conversations \in 0..1
      /\ NoCall \in Call /\ NoCall.last = 0
  <2>1. NoCall \in Call /\ NoCall.last = 0
    BY DEF NoCall, Call, Party
  <2>2. Len(log) \in Nat /\ DOMAIN log = 1..Len(log) /\ \A k \in 1..Len(log) : log[k] \in Message
    BY LenProperties DEF ChatInv, ChatTypeOK
  <2> QED
    BY <2>1, <2>2 DEF ChatInv, ChatTypeOK, ReadersLoaded, Call
<1>2. /\ log' = [k \in 1..Len(log) |-> row(k)]
      /\ calls' = [calls EXCEPT ![c] = NoCall] /\ UNCHANGED conversations
  BY <1>1 DEF MarkRead
<1> HIDE DEF call
<1>3. ASSUME NEW k \in 1..Len(log)
      PROVE  /\ marked(k) \in Message
             /\ marked(k).shown = (log[k].shown \/ k \in Page(call))
             /\ marked(k).early = (log[k].early \/ (~log[k].read /\ k > call.last))
  BY <1>1 DEF Message
<1>4. ASSUME NEW k \in 1..Len(log)
      PROVE  row(k) \in Message /\ (row(k).read => row(k).shown \/ row(k).early \/ k + PageSize <= Len(log))
  <2>1. log[k].read => log[k].shown \/ log[k].early \/ k + PageSize <= Len(log)
    BY <1>1 DEF ChatInv, ReadIsAccountedFor
  <2>2. k > call.last \/ k \in Page(call) \/ k + PageSize <= Len(log)
    BY <1>1 DEF Page
  <2> HIDE DEF marked
  <2>3. CASE log[k].sender = call.by
    BY <1>1, <2>1, <2>3
  <2>4. CASE log[k].sender # call.by
    BY <1>3, <2>1, <2>2, <2>4
  <2> QED
    BY <2>3, <2>4
<1> HIDE DEF row
<1>5. log' \in Seq(Message) /\ Len(log') = Len(log) /\ DOMAIN log' = 1..Len(log)
  <2>1. log' \in [1..Len(log) -> Message]
    BY <1>2, <1>4
  <2> QED
    BY <1>1, <2>1, LogOf
<1>6. ChatTypeOK'
  BY <1>1, <1>2, <1>5 DEF ChatTypeOK
<1>7. ReadersLoaded'
  BY <1>1, <1>2, <1>5 DEF ReadersLoaded, ChatInv
<1>8. ReadIsAccountedFor'
  BY <1>2, <1>4, <1>5 DEF ReadIsAccountedFor
<1> QED
  BY <1>6, <1>7, <1>8 DEF ChatInv

LEMMA ChatStep == ChatInv /\ [ChatNext]_chatVars => ChatInv'
<1> SUFFICES ASSUME ChatInv, [ChatNext]_chatVars PROVE ChatInv'
  OBVIOUS
<1>1. CASE UNCHANGED chatVars
  BY <1>1 DEF chatVars, ChatInv, ChatTypeOK, ReadersLoaded, ReadIsAccountedFor
<1>2. CASE ChatNext
  BY <1>2, CallSteps, MessageSent, MessagesRead DEF ChatNext
<1> QED
  BY <1>1, <1>2

LEMMA ChatBounds == ChatInv => ChatTypeOK /\ ReadWasShown
BY DEF ChatInv, ReadIsAccountedFor, ReadWasShown, Unread

LEMMA ChatAlways == ChatSpec => []ChatInv
BY ChatStarts, ChatStep, PTL DEF ChatSpec

\* One conversation at most, a log of messages, and requests that hold what they loaded.
THEOREM ChatTypeCorrect == ChatSpec => []ChatTypeOK
BY ChatAlways, ChatBounds, PTL

\* messaging/service.py:158: for any size of a page and any number of readers, what is
\* no longer unread was served to its reader, with the two exceptions the property names.
THEOREM ReadMeansShown == ChatSpec => []ReadWasShown
BY ChatAlways, ChatBounds, PTL

-----------------------------------------------------------------------------
(* Live delivery: the inductive invariant.                                 *)

\* A run by a sending request has yet to give m to s.
Own(m, s) == \E t \in tasks : ~t.listener /\ t.msg = m /\ s \in t.todo

\* A frame with m waits for the listener of the instance s is at, or a run of one has
\* yet to give m to s.
Heard(m, s) ==
    \/ sockets[s].at \in Instances /\ m \in channel[sockets[s].at]
    \/ \E t \in tasks : t.listener /\ t.msg = m /\ s \in t.todo

\* How often a socket may get m: each of the two routes brings it once, and m takes
\* both only if its publish raised.
Allowance(m) == IF sends[m].raised THEN 2 ELSE 1

CopiesLeft ==
    \A m \in Messages, s \in Sockets :
        /\ got[m][s] <= Allowance(m)
        /\ Own(m, s) \/ Heard(m, s) => got[m][s] + 1 <= Allowance(m)
        /\ Own(m, s) /\ Heard(m, s) => got[m][s] + 2 <= Allowance(m)

\* What has not been sent is nowhere; a send under way is at an instance.
UnsentIsNowhere ==
    \A m \in Messages :
        /\ sends[m].state # "done" => /\ \A i \in Instances : m \notin channel[i]
                                      /\ \A t \in tasks : t.msg # m
                                      /\ \A s \in Sockets : got[m][s] = 0
        /\ sends[m].state \in {"starting", "stored"} => sends[m].at \in Instances

\* One run of a listener at an instance, of a frame it has taken; one run of a request.
OneRun ==
    /\ \A t, u \in tasks : t.listener /\ u.listener /\ t.at = u.at => t = u
    /\ \A t, u \in tasks : ~t.listener /\ ~u.listener /\ t.msg = u.msg => t = u
    /\ \A t \in tasks : t.listener => t.msg \notin channel[t.at]

FanoutInv == TypeOK /\ CopiesLeft /\ UnsentIsNowhere /\ OneRun

LEMMA FanoutStarts == Init => FanoutInv
<1> SUFFICES ASSUME Init PROVE FanoutInv
  OBVIOUS
<1> DEFINE unsent == [state |-> "none", at |-> None, raised |-> FALSE]
<1>1. unsent \in Send /\ unsent.state = "none" /\ NoSocket \in Socket /\ NoSocket.at = None
  BY DEF Send, Socket, NoSocket
<1>2. sends = [m \in Messages |-> unsent]
  BY DEF Init
<1> HIDE DEF unsent
<1>3. TypeOK
  <2>1. link \in [Instances -> Link] /\ restarts \in 0..MaxRestarts
    BY FanoutAssumption DEF Init, Link
  <2>2. channel \in [Instances -> SUBSET Messages] /\ tasks = {}
    BY DEF Init
  <2>3. got \in [Messages -> [Sockets -> 0..2]]
    BY DEF Init
  <2>4. sends \in [Messages -> Send] /\ sockets \in [Sockets -> Socket]
    BY <1>1, <1>2 DEF Init
  <2> QED
    BY <2>1, <2>2, <2>3, <2>4 DEF Init, TypeOK
<1>4. UnsentIsNowhere /\ OneRun
  BY <1>1, <1>2 DEF Init, UnsentIsNowhere, OneRun
<1>5. CopiesLeft
  BY <1>1, <1>2, FanoutAssumption DEF Init, CopiesLeft, Own, Heard, Allowance
<1> QED
  BY <1>3, <1>4, <1>5 DEF FanoutInv

-----------------------------------------------------------------------------
(* Live delivery: steps.                                                   *)

\* A run that no longer has the sockets gone to serve.
Cut(t, gone) == [t EXCEPT !.todo = t.todo \ gone]

LEMMA CutTask ==
    ASSUME NEW t \in Task, NEW gone
    PROVE  /\ Cut(t, gone) \in Task /\ Cut(t, gone).at = t.at /\ Cut(t, gone).msg = t.msg
           /\ Cut(t, gone).listener = t.listener /\ Cut(t, gone).todo = t.todo \ gone
           /\ Cut(t, {}) = t
BY DEF Cut, Task

\* A step in which no socket gets anything: frames, runs and sockets may only vanish,
\* and sends go on or end.
LEMMA FramesVanish ==
    ASSUME FanoutInv, NEW gone \in SUBSET Sockets,
           redis' \in {"up", "down"}, link' \in [Instances -> Link], sockets' \in [Sockets -> Socket],
           channel' \in [Instances -> SUBSET Messages], sends' \in [Messages -> Send],
           restarts' \in 0..MaxRestarts, got' = got,
           tasks' \subseteq {Cut(t, gone) : t \in tasks},
           \A u \in tasks' : \A s \in u.todo : Registered(s, u.at)',
           \A i \in Instances : channel'[i] \subseteq channel[i],
           \A s \in Sockets : sockets'[s].at \in {sockets[s].at, None},
           \A m \in Messages :
              /\ sends'[m].state # "done" => sends[m].state # "done"
              /\ sends'[m].state = "done" => sends'[m].raised = sends[m].raised
              /\ sends'[m].state \in {"starting", "stored"} => sends'[m].at \in Instances
    PROVE  FanoutInv'
<1>1. \A t \in tasks : t \in Task
  BY DEF FanoutInv, TypeOK
<1>2. ASSUME NEW u \in tasks'
      PROVE  \E t \in tasks : /\ t \in Task /\ u = Cut(t, gone) /\ u \in Task
                              /\ u.at = t.at /\ u.msg = t.msg /\ u.listener = t.listener /\ u.todo \subseteq t.todo
  BY <1>1, CutTask
<1>3. TypeOK'
  BY <1>2 DEF FanoutInv, TypeOK
<1>4. UnsentIsNowhere'
  BY <1>2 DEF FanoutInv, UnsentIsNowhere
<1>5. OneRun'
  <2>1. ASSUME NEW u \in tasks', NEW v \in tasks', u.listener /\ v.listener /\ u.at = v.at
        PROVE  u = v
    BY <1>2, <2>1 DEF FanoutInv, OneRun
  <2>2. ASSUME NEW u \in tasks', NEW v \in tasks', ~u.listener /\ ~v.listener /\ u.msg = v.msg
        PROVE  u = v
    BY <1>2, <2>2 DEF FanoutInv, OneRun
  <2>3. ASSUME NEW u \in tasks', u.listener
        PROVE  u.msg \notin channel'[u.at]
    <3>1. PICK t \in tasks : t \in Task /\ u.at = t.at /\ u.msg = t.msg /\ t.listener
      BY <1>2, <2>3
    <3>2. t.at \in Instances /\ t.msg \notin channel[t.at]
      BY <3>1 DEF FanoutInv, OneRun, Task
    <3> QED
      BY <3>1, <3>2
  <2> QED
    BY <2>1, <2>2, <2>3 DEF OneRun
<1>6. CopiesLeft'
  <2> SUFFICES ASSUME NEW m \in Messages, NEW s \in Sockets
               PROVE  /\ got[m][s] <= Allowance(m)'
                      /\ Own(m, s)' \/ Heard(m, s)' => got[m][s] + 1 <= Allowance(m)'
                      /\ Own(m, s)' /\ Heard(m, s)' => got[m][s] + 2 <= Allowance(m)'
    BY DEF CopiesLeft
  <2>1. Own(m, s)' => Own(m, s)
    BY <1>2 DEF Own
  <2>2. Heard(m, s)' => Heard(m, s)
    BY <1>2, FanoutAssumption DEF Heard
  <2>3. CASE sends'[m].state = "done"
    <3>1. Allowance(m)' = Allowance(m)
      BY <2>3 DEF Allowance
    <3> QED
      BY <2>1, <2>2, <3>1 DEF FanoutInv, CopiesLeft
  <2>4. CASE sends'[m].state # "done"
    <3>1. got[m][s] = 0 /\ ~Own(m, s) /\ ~Heard(m, s)
      BY <2>4 DEF FanoutInv, UnsentIsNowhere, Own, Heard
    <3> QED
      BY <2>1, <2>2, <3>1 DEF Allowance
  <2> QED
    BY <2>3, <2>4
<1> QED
  BY <1>3, <1>4, <1>5, <1>6 DEF FanoutInv

\* A step that leaves the runs alone: a case of the last.
LEMMA RunsUnchanged ==
    ASSUME FanoutInv,
           redis' \in {"up", "down"}, link' \in [Instances -> Link], sockets' \in [Sockets -> Socket],
           channel' \in [Instances -> SUBSET Messages], sends' \in [Messages -> Send],
           UNCHANGED <<tasks, got, restarts>>,
           \A i \in Instances : channel'[i] \subseteq channel[i],
           \A s \in Sockets : /\ sockets'[s].at \in {sockets[s].at, None}
                              /\ \A i \in Instances : Registered(s, i) => Registered(s, i)',
           \A m \in Messages :
              /\ sends'[m].state # "done" => sends[m].state # "done"
              /\ sends'[m].state = "done" => sends'[m].raised = sends[m].raised
              /\ sends'[m].state \in {"starting", "stored"} => sends'[m].at \in Instances
    PROVE  FanoutInv'
<1>1. \A t \in tasks : t \in Task /\ t = Cut(t, {}) /\ t.at \in Instances
  BY CutTask DEF FanoutInv, TypeOK, Task
<1>2. tasks' \subseteq {Cut(t, {}) : t \in tasks}
  BY <1>1
<1>3. \A u \in tasks' : \A s \in u.todo : Registered(s, u.at)'
  BY <1>1 DEF FanoutInv, TypeOK, Task
<1>4. restarts' \in 0..MaxRestarts
  BY DEF FanoutInv, TypeOK
<1>5. got' = got /\ \A s \in Sockets : sockets'[s].at \in {sockets[s].at, None}
  OBVIOUS
<1> DEFINE gone == {}
<1>6. tasks' \subseteq {Cut(t, gone) : t \in tasks} /\ gone \in SUBSET Sockets
  BY <1>2
<1> HIDE DEF gone
<1> QED
  BY <1>3, <1>4, <1>5, <1>6, FramesVanish

\* What the state's parts are, for the steps that change one of them.
LEMMA FanoutParts ==
    ASSUME FanoutInv
    PROVE  /\ redis \in {"up", "down"} /\ link \in [Instances -> Link] /\ sockets \in [Sockets -> Socket]
           /\ channel \in [Instances -> SUBSET Messages] /\ sends \in [Messages -> Send]
           /\ tasks \subseteq Task /\ restarts \in 0..MaxRestarts /\ got \in [Messages -> [Sockets -> 0..2]]
           /\ \A m \in Messages : sends[m].state \in {"starting", "stored"} => sends[m].at \in Instances
           /\ \A t \in tasks : \A s \in t.todo : Registered(s, t.at)
BY DEF FanoutInv, TypeOK, UnsentIsNowhere

\* The steps of the link that change nothing but it, and the frames it holds.
LEMMA LinkMoves ==
    ASSUME FanoutInv,
           \/ RedisFails \/ RedisReturns
           \/ \E i \in Instances : IntervalPasses(i) \/ Subscribed(i) \/ ListenerDies(i)
    PROVE  FanoutInv'
<1>1. UNCHANGED <<sockets, tasks, sends, got, restarts>>
  BY DEF RedisFails, RedisReturns, IntervalPasses, Subscribed, ListenerDies
<1>2. /\ redis' \in {"up", "down"} /\ link' \in [Instances -> Link]
      /\ channel' \in [Instances -> SUBSET Messages]
      /\ \A i \in Instances : channel'[i] \subseteq channel[i]
  BY FanoutParts DEF Link, RedisFails, RedisReturns, IntervalPasses, Subscribed, ListenerDies
<1>3. \A s \in Sockets, i \in Instances : Registered(s, i)' = Registered(s, i)
  BY <1>1 DEF Registered
<1> QED
  BY <1>1, <1>2, <1>3, FanoutParts, RunsUnchanged

\* The ping returns: the connects that awaited it register, the sends go on.
LEMMA PingEnds ==
    ASSUME FanoutInv, NEW i \in Instances, PingReturns(i)
    PROVE  FanoutInv'
<1> DEFINE opened(s) == [sockets[s] EXCEPT !.state = "open"]
           stored(m) == [sends[m] EXCEPT !.state = "stored"]
<1>1. ASSUME NEW s \in Sockets
      PROVE  sockets[s] \in Socket /\ opened(s) \in Socket /\ opened(s).state = "open" /\ opened(s).at = sockets[s].at
  BY FanoutParts DEF Socket
<1>2. ASSUME NEW m \in Messages
      PROVE  /\ sends[m] \in Send /\ stored(m) \in Send /\ stored(m).state = "stored"
             /\ stored(m).at = sends[m].at
  BY FanoutParts DEF Send
<1>3. /\ sockets' = [s \in Sockets |-> IF sockets[s].state = "connecting" /\ sockets[s].at = i
                                       THEN opened(s) ELSE sockets[s]]
      /\ sends' = [m \in Messages |-> IF sends[m].state = "starting" /\ sends[m].at = i
                                      THEN stored(m) ELSE sends[m]]
      /\ UNCHANGED <<redis, channel, tasks, got, restarts>>
  BY DEF PingReturns, Resume
<1>4. link' \in [Instances -> Link]
  BY FanoutParts DEF PingReturns, Link
<1> HIDE DEF opened, stored
<1>5. sockets' \in [Sockets -> Socket] /\ sends' \in [Messages -> Send]
  BY <1>1, <1>2, <1>3
<1>6. \A s \in Sockets : /\ sockets'[s].at \in {sockets[s].at, None}
                         /\ \A j \in Instances : Registered(s, j) => Registered(s, j)'
  BY <1>1, <1>3 DEF Registered
<1>7. \A m \in Messages :
         /\ sends'[m].state # "done" => sends[m].state # "done"
         /\ sends'[m].state = "done" => sends'[m].raised = sends[m].raised
         /\ sends'[m].state \in {"starting", "stored"} => sends'[m].at \in Instances
  BY <1>2, <1>3, FanoutParts
<1> QED
  BY <1>3, <1>4, <1>5, <1>6, <1>7, FanoutParts, RunsUnchanged

\* A send begins at an instance.
LEMMA SendBegins ==
    ASSUME FanoutInv, NEW m \in Messages, NEW i \in Instances, Store(m, i)
    PROVE  FanoutInv'
<1> DEFINE st == IF link[i] = "due" THEN "starting" ELSE "stored"
           send == [state |-> st, at |-> i, raised |-> FALSE]
<1>1. st \in {"starting", "stored"}
  OBVIOUS
<1>2. /\ sends' = [sends EXCEPT ![m] = send] /\ sends[m].state = "none"
      /\ UNCHANGED <<redis, sockets, channel, tasks, got, restarts>>
  BY DEF Store
<1> HIDE DEF st
<1>3. send \in Send /\ send.state = st /\ send.at = i
  BY <1>1 DEF Send
<1>4. link' \in [Instances -> Link]
  BY FanoutParts DEF Store, Link
<1> HIDE DEF send
<1>5. sends' \in [Messages -> Send] /\ \A n \in Messages : sends'[n] = IF n = m THEN send ELSE sends[n]
  BY <1>2, <1>3, FanoutParts
<1>6. \A n \in Messages :
         /\ sends'[n].state # "done" => sends[n].state # "done"
         /\ sends'[n].state = "done" => sends'[n].raised = sends[n].raised
         /\ sends'[n].state \in {"starting", "stored"} => sends'[n].at \in Instances
  BY <1>1, <1>2, <1>3, <1>5, FanoutParts
<1>7. \A s \in Sockets, j \in Instances : Registered(s, j)' = Registered(s, j)
  BY <1>2 DEF Registered
<1> QED
  BY <1>2, <1>4, <1>5, <1>6, <1>7, FanoutParts, RunsUnchanged

\* Tickets, expiry and closing: one socket changes, where it is registered it stays.
LEMMA SocketMoves ==
    ASSUME FanoutInv, NEW s \in Sockets,
           CreateWsTicket(s) \/ TokenExpires(s) \/ CloseOnExpiry(s) \/ PeerCloses(s)
    PROVE  FanoutInv'
<1>1. UNCHANGED <<redis, link, channel, tasks, sends, got, restarts>>
  BY DEF CreateWsTicket, TokenExpires, CloseOnExpiry, PeerCloses
<1>2. sockets[s] \in Socket /\ NoSocket \in Socket /\ NoSocket.at = None
  BY FanoutParts DEF Socket, NoSocket
<1>3. PICK row \in Socket :
         /\ sockets' = [sockets EXCEPT ![s] = row] /\ row.at \in {sockets[s].at, None}
         /\ sockets[s].state \in {"open", "closed"} =>
               row.at = sockets[s].at /\ row.state \in {"open", "closed"}
  <2> DEFINE ticket == [sockets[s] EXCEPT !.state = "ticket", !.token = TRUE]
             expired == [sockets[s] EXCEPT !.token = FALSE]
             closed == [sockets[s] EXCEPT !.state = "closed"]
  <2>1. /\ ticket \in Socket /\ ticket.at = sockets[s].at
        /\ expired \in Socket /\ expired.at = sockets[s].at /\ expired.state = sockets[s].state
        /\ closed \in Socket /\ closed.at = sockets[s].at /\ closed.state = "closed"
    BY <1>2 DEF Socket
  <2>2. CASE CreateWsTicket(s)
    <3>1. sockets' = [sockets EXCEPT ![s] = ticket] /\ sockets[s].state = "none"
      BY <2>2, FanoutParts DEF CreateWsTicket, NoSocket
    <3> HIDE DEF ticket
    <3> QED
      BY <2>1, <3>1
  <2>3. CASE TokenExpires(s)
    <3>1. sockets' = [sockets EXCEPT ![s] = IF sockets[s].state = "ticket" THEN NoSocket ELSE expired]
      BY <2>3 DEF TokenExpires
    <3> HIDE DEF expired
    <3> QED
      BY <1>2, <2>1, <3>1
  <2>4. CASE CloseOnExpiry(s) \/ PeerCloses(s)
    <3>1. sockets' = [sockets EXCEPT ![s] = closed]
      BY <2>4, FanoutParts DEF CloseOnExpiry, PeerCloses
    <3> HIDE DEF closed
    <3> QED
      BY <2>1, <3>1
  <2> QED
    BY <2>2, <2>3, <2>4
<1>4. sockets' \in [Sockets -> Socket] /\ \A r \in Sockets : sockets'[r] = IF r = s THEN row ELSE sockets[r]
  BY <1>3, FanoutParts
<1>5. \A r \in Sockets : /\ sockets'[r].at \in {sockets[r].at, None}
                         /\ \A i \in Instances : Registered(r, i) => Registered(r, i)'
  BY <1>3, <1>4 DEF Registered
<1> QED
  BY <1>1, <1>4, <1>5, FanoutParts, RunsUnchanged

\* A socket leaves the registry, and with it the runs that had yet to serve it.
LEMMA SocketLeaves ==
    ASSUME FanoutInv, NEW s \in Sockets, Leave(s), UNCHANGED <<redis, link, channel, sends, got, restarts>>
    PROVE  FanoutInv'
<1>1. NoSocket \in Socket /\ NoSocket.at = None
  BY DEF Socket, NoSocket
<1> DEFINE gone == {s}
<1>2. tasks' = {Cut(t, gone) : t \in tasks}
  BY DEF Leave, Cut
<1>3. /\ sockets' \in [Sockets -> Socket]
      /\ \A r \in Sockets : sockets'[r] = IF r = s THEN NoSocket ELSE sockets[r]
  BY <1>1, FanoutParts DEF Leave
<1>4. \A u \in tasks' : \A r \in u.todo : Registered(r, u.at)'
  <2> SUFFICES ASSUME NEW t \in tasks, NEW r \in Cut(t, gone).todo PROVE Registered(r, Cut(t, gone).at)'
    BY <1>2
  <2>1. t \in Task /\ t.todo \subseteq Sockets
    BY FanoutParts DEF Task
  <2>2. r \in t.todo /\ r # s /\ Cut(t, gone).at = t.at /\ r \in Sockets
    BY <2>1, CutTask
  <2>3. Registered(r, t.at)
    BY <2>2, FanoutParts
  <2> QED
    BY <1>3, <2>2, <2>3 DEF Registered
<1>5. \A r \in Sockets : sockets'[r].at \in {sockets[r].at, None}
  BY <1>1, <1>3
<1>6. tasks' \subseteq {Cut(t, gone) : t \in tasks} /\ got' = got /\ gone \in SUBSET Sockets
  BY <1>2
<1> HIDE DEF gone
<1>7. /\ \A i \in Instances : channel'[i] \subseteq channel[i]
      /\ \A m \in Messages :
            /\ sends'[m].state # "done" => sends[m].state # "done"
            /\ sends'[m].state = "done" => sends'[m].raised = sends[m].raised
            /\ sends'[m].state \in {"starting", "stored"} => sends'[m].at \in Instances
  BY FanoutParts
<1>8. /\ redis' \in {"up", "down"} /\ link' \in [Instances -> Link] /\ restarts' \in 0..MaxRestarts
      /\ channel' \in [Instances -> SUBSET Messages] /\ sends' \in [Messages -> Send]
  BY FanoutParts
<1> QED
  BY <1>3, <1>4, <1>5, <1>6, <1>7, <1>8, FramesVanish

\* A run ends, or a process stops with all it has.
LEMMA RunsEnd ==
    ASSUME FanoutInv, (\E t \in tasks : Delivered(t)) \/ \E i \in Instances : Restart(i)
    PROVE  FanoutInv'
<1> DEFINE gone == {}
<1>1. gone \in SUBSET Sockets /\ \A t \in tasks : t \in Task /\ t = Cut(t, gone)
  BY FanoutParts, CutTask
<1>2. NoSocket \in Socket /\ NoSocket.at = None
  BY DEF Socket, NoSocket
<1>3. CASE \E t \in tasks : Delivered(t)
  <2>1. tasks' \subseteq tasks /\ UNCHANGED <<redis, link, sockets, channel, sends, got, restarts>>
    BY <1>3 DEF Delivered
  <2>2. tasks' \subseteq {Cut(t, gone) : t \in tasks}
    BY <1>1, <2>1
  <2>3. \A u \in tasks' : \A s \in u.todo : Registered(s, u.at)'
    BY <2>1, FanoutParts DEF Registered
  <2> HIDE DEF gone
  <2> QED
    <3>1. /\ \A i \in Instances : channel'[i] \subseteq channel[i]
          /\ \A s \in Sockets : sockets'[s].at \in {sockets[s].at, None}
          /\ \A m \in Messages :
                /\ sends'[m].state # "done" => sends[m].state # "done"
                /\ sends'[m].state = "done" => sends'[m].raised = sends[m].raised
                /\ sends'[m].state \in {"starting", "stored"} => sends'[m].at \in Instances
      BY <2>1, FanoutParts
    <3>2. /\ redis' \in {"up", "down"} /\ link' \in [Instances -> Link] /\ restarts' \in 0..MaxRestarts
          /\ channel' \in [Instances -> SUBSET Messages] /\ sends' \in [Messages -> Send]
          /\ sockets' \in [Sockets -> Socket] /\ got' = got
      BY <2>1, FanoutParts
    <3> QED
      BY <1>1, <2>2, <2>3, <3>1, <3>2, FramesVanish
<1>4. CASE \E i \in Instances : Restart(i)
  <2>1. PICK i \in Instances : Restart(i)
    BY <1>4
  <2> DEFINE ended(m) == [sends[m] EXCEPT !.state = "done"]
  <2>2. ASSUME NEW m \in Messages
        PROVE  ended(m) \in Send /\ ended(m).state = "done" /\ ended(m).raised = sends[m].raised
    BY FanoutParts DEF Send
  <2>3. /\ link' = [link EXCEPT ![i] = "pinging"] /\ channel' = [channel EXCEPT ![i] = {}]
        /\ sockets' = [s \in Sockets |-> IF sockets[s].at = i THEN NoSocket ELSE sockets[s]]
        /\ tasks' = {t \in tasks : t.at # i}
        /\ sends' = [m \in Messages |-> IF sends[m].at = i THEN ended(m) ELSE sends[m]]
        /\ redis' = redis /\ got' = got /\ restarts' = restarts + 1 /\ restarts < MaxRestarts
    BY <2>1 DEF Restart
  <2> HIDE DEF ended
  <2>4. /\ sends' \in [Messages -> Send]
        /\ \A m \in Messages :
              /\ sends'[m].state # "done" => sends[m].state # "done"
              /\ sends'[m].state = "done" => sends'[m].raised = sends[m].raised
              /\ sends'[m].state \in {"starting", "stored"} => sends'[m].at \in Instances
    BY <2>2, <2>3, FanoutParts
  <2>5. /\ sockets' \in [Sockets -> Socket]
        /\ \A s \in Sockets : sockets'[s].at \in {sockets[s].at, None}
    BY <1>2, <2>3, FanoutParts
  <2>6. /\ link' \in [Instances -> Link] /\ channel' \in [Instances -> SUBSET Messages]
        /\ \A j \in Instances : channel'[j] \subseteq channel[j]
        /\ redis' \in {"up", "down"} /\ restarts' \in 0..MaxRestarts
    BY <2>3, FanoutParts, FanoutAssumption DEF Link
  <2>7. \A u \in tasks' : \A s \in u.todo : Registered(s, u.at)'
    <3> SUFFICES ASSUME NEW u \in tasks, u.at # i, NEW s \in u.todo PROVE Registered(s, u.at)'
      BY <2>3
    <3>1. Registered(s, u.at) /\ s \in Sockets
      BY FanoutParts DEF Task
    <3> QED
      BY <2>3, <3>1 DEF Registered
  <2>8. tasks' \subseteq {Cut(t, gone) : t \in tasks}
    BY <1>1, <2>3
  <2> HIDE DEF gone
  <2> QED
    BY <1>1, <2>3, <2>4, <2>5, <2>6, <2>7, <2>8, FramesVanish
<1> QED
  BY <1>3, <1>4

\* A socket connects: it has had nothing, and no run knows it.
LEMMA SocketConnects ==
    ASSUME FanoutInv, NEW s \in Sockets, NEW i \in Instances, Connect(s, i)
    PROVE  FanoutInv'
<1> DEFINE st == IF link[i] = "due" THEN "connecting" ELSE "open"
           row == [sockets[s] EXCEPT !.state = st, !.at = i]
<1>1. st \in {"connecting", "open"} /\ sockets[s] \in Socket
  BY FanoutParts
<1> HIDE DEF st
<1>2. row \in Socket /\ row.state = st /\ row.at = i
  BY <1>1 DEF Socket
<1>3. sockets' = [sockets EXCEPT ![s] = row]
  BY FanoutParts DEF Connect, st
<1>4. /\ got' = [m \in Messages |-> [got[m] EXCEPT ![s] = 0]] /\ sockets[s].state = "ticket"
      /\ UNCHANGED <<redis, channel, tasks, sends, restarts>>
  BY DEF Connect
<1>5. link' \in [Instances -> Link]
  BY FanoutParts DEF Connect, Link
<1> HIDE DEF row
<1>6. \A r \in Sockets : /\ sockets'[r] = IF r = s THEN row ELSE sockets[r]
                         /\ \A m \in Messages : got'[m][r] = IF r = s THEN 0 ELSE got[m][r]
  BY <1>3, <1>4, FanoutParts
<1>7. \A t \in tasks : s \notin t.todo /\ t.todo \subseteq Sockets
  BY <1>4, FanoutParts DEF Registered, Task
<1>8. TypeOK'
  <2>1. got' \in [Messages -> [Sockets -> 0..2]]
    <3>1. \A m \in Messages : got[m] \in [Sockets -> 0..2]
      BY FanoutParts
    <3>2. \A m \in Messages : [got[m] EXCEPT ![s] = 0] \in [Sockets -> 0..2]
      BY <3>1
    <3> QED
      BY <1>4, <3>2
  <2>2. sockets' \in [Sockets -> Socket]
    BY <1>2, <1>3, FanoutParts
  <2>3. \A t \in tasks : \A r \in t.todo : Registered(r, t.at)'
    BY <1>6, <1>7, FanoutParts DEF Registered
  <2> QED
    BY <1>4, <1>5, <2>1, <2>2, <2>3, FanoutParts DEF TypeOK
<1>9. UnsentIsNowhere'
  BY <1>4, <1>6 DEF FanoutInv, UnsentIsNowhere
<1>10. OneRun'
  BY <1>4 DEF FanoutInv, OneRun
<1>11. CopiesLeft'
  <2> SUFFICES ASSUME NEW m \in Messages, NEW r \in Sockets
               PROVE  /\ got'[m][r] <= Allowance(m)'
                      /\ Own(m, r)' \/ Heard(m, r)' => got'[m][r] + 1 <= Allowance(m)'
                      /\ Own(m, r)' /\ Heard(m, r)' => got'[m][r] + 2 <= Allowance(m)'
    BY DEF CopiesLeft
  <2>1. Allowance(m)' = Allowance(m) /\ Allowance(m) \in {1, 2} /\ Own(m, r)' = Own(m, r)
    BY <1>4 DEF Allowance, Own
  <2>2. CASE r = s
    <3>1. ~Own(m, r)'
      BY <1>4, <1>7, <2>2 DEF Own
    <3> QED
      BY <1>6, <2>1, <2>2, <3>1
  <2>3. CASE r # s
    <3>1. Heard(m, r)' = Heard(m, r)
      BY <1>4, <1>6, <2>3 DEF Heard
    <3> QED
      BY <1>6, <2>1, <2>3, <3>1 DEF FanoutInv, CopiesLeft
  <2> QED
    BY <2>2, <2>3
<1> QED
  BY <1>8, <1>9, <1>10, <1>11 DEF FanoutInv

\* A listener takes a frame: what waited for it becomes its run.
LEMMA FrameReceived ==
    ASSUME FanoutInv, NEW i \in Instances, NEW m \in Messages, Receive(i, m)
    PROVE  FanoutInv'
<1> DEFINE run == Local(m, i, TRUE)
<1>1. /\ run \in Task /\ run.at = i /\ run.msg = m /\ run.listener = TRUE
      /\ \A s \in run.todo : s \in Sockets /\ Registered(s, i) /\ sockets[s].at = i
  BY DEF Local, Task, Registered
<1>2. /\ m \in channel[i] /\ \A t \in tasks : ~(t.listener /\ t.at = i)
      /\ channel' = [channel EXCEPT ![i] = channel[i] \ {m}] /\ tasks' = tasks \cup {run}
      /\ UNCHANGED <<redis, link, sockets, sends, got, restarts>>
  BY DEF Receive
<1> HIDE DEF run
<1>3. /\ channel' \in [Instances -> SUBSET Messages]
      /\ \A j \in Instances : channel'[j] = IF j = i THEN channel[i] \ {m} ELSE channel[j]
  BY <1>2, FanoutParts
<1>4. sends[m].state = "done"
  BY <1>2 DEF FanoutInv, UnsentIsNowhere
<1>5. TypeOK'
  <2>1. tasks' \subseteq Task
    BY <1>1, <1>2, FanoutParts
  <2>2. \A t \in tasks' : \A s \in t.todo : Registered(s, t.at)'
    BY <1>1, <1>2, FanoutParts DEF Registered
  <2> QED
    BY <1>2, <1>3, <2>1, <2>2, FanoutParts DEF TypeOK
<1>6. UnsentIsNowhere'
  BY <1>1, <1>2, <1>3, <1>4 DEF FanoutInv, UnsentIsNowhere
<1>7. OneRun'
  <2>1. \A t \in tasks : t.listener => t.at \in Instances /\ t.msg \notin channel[t.at]
    BY FanoutParts DEF FanoutInv, OneRun, Task
  <2>2. \A t \in tasks' : t.listener => t.msg \notin channel'[t.at]
    BY <1>1, <1>2, <1>3, <2>1
  <2>3. /\ \A t, u \in tasks' : t.listener /\ u.listener /\ t.at = u.at => t = u
        /\ \A t, u \in tasks' : ~t.listener /\ ~u.listener /\ t.msg = u.msg => t = u
    BY <1>1, <1>2 DEF FanoutInv, OneRun
  <2> QED
    BY <2>2, <2>3 DEF OneRun
<1>8. CopiesLeft'
  <2> SUFFICES ASSUME NEW n \in Messages, NEW s \in Sockets
               PROVE  /\ got[n][s] <= Allowance(n)
                      /\ Own(n, s)' \/ Heard(n, s)' => got[n][s] + 1 <= Allowance(n)
                      /\ Own(n, s)' /\ Heard(n, s)' => got[n][s] + 2 <= Allowance(n)
    BY <1>2 DEF CopiesLeft, Allowance
  <2>1. Own(n, s)' => Own(n, s)
    BY <1>1, <1>2 DEF Own
  <2>2. Heard(n, s)' => Heard(n, s)
    <3>1. s \in run.todo => sockets[s].at = i /\ m \in channel[i]
      BY <1>1, <1>2
    <3> QED
      BY <1>1, <1>2, <1>3, <3>1 DEF Heard
  <2> QED
    BY <2>1, <2>2 DEF FanoutInv, CopiesLeft
<1> QED
  BY <1>5, <1>6, <1>7, <1>8 DEF FanoutInv

\* A run gives a copy to a socket, and has it no longer to serve.
LEMMA SocketServed ==
    ASSUME FanoutInv, NEW t \in tasks, NEW s \in Sockets, s \in t.todo, sockets[s].state = "open", DeliverTo(t, s)
    PROVE  FanoutInv'
<1> DEFINE cut == Cut(t, {s})
           m == t.msg
<1>1. t \in Task /\ m \in Messages /\ t.at \in Instances /\ Registered(s, t.at)
  BY FanoutParts DEF Task
<1>2. cut \in Task /\ cut.at = t.at /\ cut.msg = m /\ cut.listener = t.listener /\ cut.todo = t.todo \ {s}
  BY <1>1, CutTask
<1>3. /\ got' = [got EXCEPT ![m][s] = got[m][s] + 1] /\ tasks' = (tasks \ {t}) \cup {cut}
      /\ UNCHANGED <<redis, link, sockets, channel, sends, restarts>>
  BY DEF DeliverTo, Cut
<1> HIDE DEF cut
<1>4. \A n \in Messages, r \in Sockets :
         /\ got[n][r] \in 0..2
         /\ got'[n][r] = IF n = m /\ r = s THEN got[m][s] + 1 ELSE got[n][r]
  BY <1>1, <1>3, FanoutParts
<1>5. \A n \in Messages, r \in Sockets : (Own(n, r)' => Own(n, r)) /\ (Heard(n, r)' => Heard(n, r))
  BY <1>2, <1>3 DEF Own, Heard
<1>6. /\ t.listener => Heard(m, s) /\ ~Heard(m, s)'
      /\ ~t.listener => Own(m, s) /\ ~Own(m, s)'
  <2>1. CASE t.listener
    <3>1. sockets[s].at = t.at /\ m \notin channel[t.at]
      BY <1>1, <2>1 DEF Registered, FanoutInv, OneRun
    <3>2. \A u \in tasks : u.listener /\ s \in u.todo => u = t
      BY <1>1, <2>1, <3>1, FanoutParts DEF Registered, FanoutInv, OneRun, Task
    <3> QED
      BY <1>2, <1>3, <2>1, <3>1, <3>2 DEF Heard
  <2>2. CASE ~t.listener
    BY <1>2, <1>3, <2>2 DEF Own, FanoutInv, OneRun
  <2> QED
    BY <2>1, <2>2
<1>7. CopiesLeft'
  <2> SUFFICES ASSUME NEW n \in Messages, NEW r \in Sockets
               PROVE  /\ got'[n][r] <= Allowance(n)
                      /\ Own(n, r)' \/ Heard(n, r)' => got'[n][r] + 1 <= Allowance(n)
                      /\ Own(n, r)' /\ Heard(n, r)' => got'[n][r] + 2 <= Allowance(n)
    BY <1>3 DEF CopiesLeft, Allowance
  <2>1. /\ got[n][r] <= Allowance(n)
        /\ Own(n, r) \/ Heard(n, r) => got[n][r] + 1 <= Allowance(n)
        /\ Own(n, r) /\ Heard(n, r) => got[n][r] + 2 <= Allowance(n)
        /\ Allowance(n) \in {1, 2}
    BY DEF FanoutInv, CopiesLeft, Allowance
  <2>2. CASE n = m /\ r = s
    <3>1. got'[n][r] = got[n][r] + 1 /\ got[n][r] \in 0..2
      BY <1>4, <2>2
    <3> QED
      BY <1>5, <1>6, <2>1, <2>2, <3>1
  <2>3. CASE ~(n = m /\ r = s)
    BY <1>4, <1>5, <2>1, <2>3
  <2> QED
    BY <2>2, <2>3
<1>8. TypeOK'
  <2>1. \A n \in Messages, r \in Sockets : got'[n][r] \in 0..2
    BY <1>3, <1>4, <1>7 DEF CopiesLeft, Allowance
  <2>2. got' \in [Messages -> [Sockets -> 0..2]]
    <3>1. got[m] \in [Sockets -> 0..2] /\ got'[m] = [got[m] EXCEPT ![s] = got[m][s] + 1]
      BY <1>1, <1>3, FanoutParts
    <3>2. got'[m] \in [Sockets -> 0..2]
      BY <1>1, <2>1, <3>1
    <3>3. got' = [got EXCEPT ![m] = got'[m]]
      BY <1>1, <1>3, <3>1, FanoutParts
    <3> QED
      BY <3>2, <3>3, FanoutParts
  <2>3. tasks' \subseteq Task
    BY <1>2, <1>3, FanoutParts
  <2>4. \A u \in tasks' : \A r \in u.todo : Registered(r, u.at)'
    BY <1>2, <1>3, FanoutParts DEF Registered
  <2> QED
    BY <1>3, <2>2, <2>3, <2>4, FanoutParts DEF TypeOK
<1>9. UnsentIsNowhere'
  <2>1. sends[m].state = "done"
    BY <1>1 DEF FanoutInv, UnsentIsNowhere
  <2> QED
    BY <1>2, <1>3, <1>4, <2>1 DEF FanoutInv, UnsentIsNowhere
<1>10. OneRun'
  BY <1>2, <1>3 DEF FanoutInv, OneRun
<1> QED
  BY <1>7, <1>8, <1>9, <1>10 DEF FanoutInv

\* The publish: the frame goes out by Redis, by the sender's own run, or, if Redis had
\* it but the call raised, by both.
LEMMA FramePublished ==
    ASSUME FanoutInv, NEW m \in Messages, Publish(m)
    PROVE  FanoutInv'
<1> DEFINE i == sends[m].at
           run == Local(m, i, FALSE)
           done == [sends[m] EXCEPT !.state = "done"]
           raised == [sends[m] EXCEPT !.state = "done", !.raised = TRUE]
<1>1. /\ sends[m].state = "stored" /\ i \in Instances /\ sends[m] \in Send
      /\ UNCHANGED <<redis, link, sockets, got, restarts>>
  BY FanoutParts DEF Publish
<1>2. /\ run \in Task /\ run.msg = m /\ run.at = i /\ ~run.listener
      /\ \A s \in run.todo : Registered(s, i)
  BY <1>1 DEF Local, Task
<1>3. /\ done \in Send /\ done.state = "done" /\ done.raised = sends[m].raised
      /\ raised \in Send /\ raised.state = "done" /\ raised.raised = TRUE
  BY <1>1 DEF Send
<1>4. /\ channel' \in {channel, Fanned(m)} /\ tasks' \in {tasks, tasks \cup {run}}
      /\ sends' \in {[sends EXCEPT ![m] = done], [sends EXCEPT ![m] = raised]}
      /\ channel' # channel /\ tasks' # tasks => sends' = [sends EXCEPT ![m] = raised]
  <2>1. [sends EXCEPT ![m].state = "done"] = [sends EXCEPT ![m] = done]
    BY <1>1, FanoutParts
  <2>2. [sends EXCEPT ![m].state = "done", ![m].raised = TRUE] = [sends EXCEPT ![m] = raised]
    BY <1>1, FanoutParts
  <2> HIDE DEF run, done, raised
  <2> QED
    BY <2>1, <2>2 DEF Publish, run
<1> HIDE DEF i, run, done, raised
<1>5. PICK sent \in Send : /\ sends' = [sends EXCEPT ![m] = sent] /\ sent.state = "done"
                           /\ channel' # channel /\ tasks' # tasks => sent.raised = TRUE
  BY <1>3, <1>4
<1>6. \A n \in Messages : sends'[n] = IF n = m THEN sent ELSE sends[n]
  BY <1>5, FanoutParts
<1>7. /\ channel' \in [Instances -> SUBSET Messages]
      /\ \A j \in Instances : channel[j] \subseteq channel'[j] /\ channel'[j] \subseteq channel[j] \cup {m}
  <2>1. channel \in [Instances -> SUBSET Messages]
    BY FanoutParts
  <2>2. Fanned(m) \in [Instances -> SUBSET Messages]
    BY <2>1 DEF Fanned
  <2>3. \A j \in Instances : channel[j] \subseteq Fanned(m)[j] /\ Fanned(m)[j] \subseteq channel[j] \cup {m}
    BY <2>1 DEF Fanned
  <2> QED
    BY <1>4, <2>1, <2>2, <2>3
<1>8. /\ \A j \in Instances : m \notin channel[j]
      /\ \A t \in tasks : t.msg # m
      /\ \A s \in Sockets : got[m][s] = 0
  BY <1>1 DEF FanoutInv, UnsentIsNowhere
<1>9. TypeOK'
  <2>1. tasks' \subseteq Task
    BY <1>2, <1>4, FanoutParts
  <2>2. \A t \in tasks' : \A s \in t.todo : Registered(s, t.at)'
    BY <1>1, <1>2, <1>4, FanoutParts DEF Registered
  <2>3. sends' \in [Messages -> Send]
    BY <1>5, FanoutParts
  <2> QED
    BY <1>1, <1>7, <2>1, <2>2, <2>3, FanoutParts DEF TypeOK
<1>10. UnsentIsNowhere'
  BY <1>1, <1>2, <1>4, <1>5, <1>6, <1>7 DEF FanoutInv, UnsentIsNowhere
<1>11. OneRun'
  <2>1. \A t \in tasks' : t.listener => t.msg \notin channel'[t.at]
    <3> SUFFICES ASSUME NEW t \in tasks, t.listener PROVE t.msg \notin channel'[t.at]
      BY <1>2, <1>4
    <3>1. t.at \in Instances /\ t.msg # m /\ t.msg \notin channel[t.at]
      BY <1>8, FanoutParts DEF FanoutInv, OneRun, Task
    <3> QED
      BY <1>7, <3>1
  <2>2. \A t, u \in tasks' : t.listener /\ u.listener /\ t.at = u.at => t = u
    BY <1>2, <1>4 DEF FanoutInv, OneRun
  <2>3. \A t, u \in tasks' : ~t.listener /\ ~u.listener /\ t.msg = u.msg => t = u
    BY <1>2, <1>4, <1>8 DEF FanoutInv, OneRun
  <2> QED
    BY <2>1, <2>2, <2>3 DEF OneRun
<1>12. CopiesLeft'
  <2> SUFFICES ASSUME NEW n \in Messages, NEW s \in Sockets
               PROVE  /\ got[n][s] <= Allowance(n)'
                      /\ Own(n, s)' \/ Heard(n, s)' => got[n][s] + 1 <= Allowance(n)'
                      /\ Own(n, s)' /\ Heard(n, s)' => got[n][s] + 2 <= Allowance(n)'
    BY <1>1 DEF CopiesLeft
  <2>1. CASE n = m
    <3>1. Own(m, s)' => tasks' # tasks
      BY <1>8 DEF Own
    <3>2. Heard(m, s)' => channel' # channel
      BY <1>1, <1>2, <1>4, <1>8 DEF Heard
    <3>3. Allowance(m)' \in {1, 2} /\ (channel' # channel /\ tasks' # tasks => Allowance(m)' = 2)
      BY <1>5, <1>6 DEF Allowance
    <3> QED
      BY <1>8, <2>1, <3>1, <3>2, <3>3
  <2>2. CASE n # m
    <3>1. Own(n, s)' => Own(n, s)
      BY <1>2, <1>4, <2>2 DEF Own
    <3>2. Heard(n, s)' => Heard(n, s)
      BY <1>1, <1>2, <1>4, <1>7, <2>2 DEF Heard
    <3>3. Allowance(n)' = Allowance(n)
      BY <1>6, <2>2 DEF Allowance
    <3> QED
      BY <3>1, <3>2, <3>3 DEF FanoutInv, CopiesLeft
  <2> QED
    BY <2>1, <2>2
<1> QED
  BY <1>9, <1>10, <1>11, <1>12 DEF FanoutInv

-----------------------------------------------------------------------------
(* Live delivery: theorems.                                                *)

LEMMA FanoutStep == FanoutInv /\ [Next]_vars => FanoutInv'
<1> SUFFICES ASSUME FanoutInv, [Next]_vars PROVE FanoutInv'
  OBVIOUS
<1>1. CASE RedisFails \/ RedisReturns \/ \E i \in Instances : IntervalPasses(i) \/ Subscribed(i) \/ ListenerDies(i)
  BY <1>1, LinkMoves
<1>2. CASE \E i \in Instances : PingReturns(i) \/ \E m \in Messages : Receive(i, m)
  BY <1>2, PingEnds, FrameReceived
<1>3. CASE (\E t \in tasks : Delivered(t)) \/ \E i \in Instances : Restart(i)
  BY <1>3, RunsEnd
<1>4. CASE \E s \in Sockets : CreateWsTicket(s) \/ TokenExpires(s) \/ CloseOnExpiry(s) \/ PeerCloses(s)
  BY <1>4, SocketMoves
<1>5. CASE \E s \in Sockets : EndpointEnds(s)
  BY <1>5, SocketLeaves DEF EndpointEnds
<1>6. CASE \E s \in Sockets, i \in Instances : Connect(s, i)
  BY <1>6, SocketConnects
<1>7. CASE \E m \in Messages : Publish(m) \/ \E i \in Instances : PushMessage(m, i) \/ NotifyParty(m, i)
  BY <1>7, FramePublished, SendBegins DEF PushMessage, NotifyParty
<1>8. CASE \E t \in tasks, s \in Sockets : DeliverTo(t, s)
  <2>1. PICK t \in tasks, s \in Sockets : DeliverTo(t, s)
    BY <1>8
  <2>2. CASE sockets[s].state = "open"
    BY <2>1, <2>2, SocketServed DEF DeliverTo
  <2>3. CASE sockets[s].state # "open"
    BY <2>1, <2>3, SocketLeaves DEF DeliverTo
  <2> QED
    BY <2>2, <2>3
<1>9. CASE UNCHANGED vars
  BY <1>9 DEF vars, FanoutInv, TypeOK, CopiesLeft, UnsentIsNowhere, OneRun, Own, Heard, Allowance, Registered
<1> QED
  BY <1>1, <1>2, <1>3, <1>4, <1>5, <1>6, <1>7, <1>8, <1>9 DEF Next, Loop

LEMMA FanoutBounds == FanoutInv => TypeOK /\ OneCopy
BY DEF FanoutInv, CopiesLeft, Allowance, OneCopy

LEMMA FanoutAlways == Spec => []FanoutInv
BY FanoutStarts, FanoutStep, PTL DEF Spec

\* The registries, frames, runs and sends have their types; no run serves a socket that
\* is not registered where it runs.
THEOREM FanoutTypeCorrect == Spec => []TypeOK
BY FanoutAlways, FanoutBounds, PTL

\* ws_manager.py:128-132: whatever connects, drops, restarts and outages come between,
\* no socket gets a frame twice, unless its publish raised after Redis had it.
THEOREM FramesComeOnce == Spec => []OneCopy
BY FanoutAlways, FanoutBounds, PTL

-----------------------------------------------------------------------------
(* Settings and their copies.                                              *)

\* Neither a copy nor a load has a value from the future, and one that differs from
\* the table was read before the latest change: its clock reading is older still.
CopiesAreDated ==
    \A p \in Processes :
        /\ caches[p].value <= setting /\ caches[p].read <= setting
        /\ caches[p].value \notin {Empty, setting} => sinceChange <= caches[p].age
        /\ caches[p].read # Empty => caches[p].load = "read"
        /\ caches[p].read \notin {Empty, setting} => sinceChange <= caches[p].now

\* The setting changed after the host started, if it did.
ChangesSinceStart == setting > 0 => sinceChange <= uptime

\* The process that made the latest change has dropped its copy: what it holds
\* that is not the setting was loaded by one that missed the change.
WriterDropped ==
    \A p \in Processes :
        lastWriter = p /\ writer # p /\ caches[p].value \notin {Empty, setting} =>
            caches[p].missed \/ uptime <= caches[p].age

SettingsInv == SettingsTypeOK /\ CopiesAreDated /\ ChangesSinceStart /\ WriterDropped

\* The saturating clock.
LEMMA OlderGrows ==
    /\ \A t \in 0..Old : Older(t) \in 0..Old
    /\ \A t, u \in 0..Old : t <= u => Older(t) <= Older(u)
BY SettingsAssumption DEF Older, Old

LEMMA SettingsStart == SettingsInit => SettingsInv
<1> SUFFICES ASSUME SettingsInit PROVE SettingsInv
  OBVIOUS
<1> DEFINE blank == [value |-> Empty, age |-> uptime, load |-> "no", now |-> 0, read |-> Empty, missed |-> FALSE]
<1>1. 0 \in 0..Old /\ Old \in 0..Old /\ uptime \in 0..Old /\ 0 \in Values
  BY SettingsAssumption DEF SettingsInit, Old, Values
<1>2. blank \in Cache /\ blank.value = Empty /\ blank.read = Empty
  BY <1>1 DEF Cache
<1>3. caches = [p \in Processes |-> blank] /\ setting = 0
  BY DEF SettingsInit
<1> HIDE DEF blank
<1>4. SettingsTypeOK
  BY <1>1, <1>2, <1>3 DEF SettingsInit, SettingsTypeOK
<1>5. CopiesAreDated /\ ChangesSinceStart /\ WriterDropped
  <2>1. Empty <= 0
    BY DEF Empty
  <2> QED
    BY <1>2, <1>3, <2>1 DEF CopiesAreDated, ChangesSinceStart, WriterDropped
<1> QED
  BY <1>4, <1>5 DEF SettingsInv

\* Time passes for every copy, every load, and the host.
LEMMA SettingsAge ==
    ASSUME SettingsInv, SettingsTick
    PROVE  SettingsInv'
<1> USE SettingsAssumption DEF SettingsInv, SettingsTypeOK
<1> DEFINE now(p) == IF caches[p].load = "no" THEN 0 ELSE Older(caches[p].now)
           aged(p) == [caches[p] EXCEPT !.age = Older(caches[p].age), !.now = now(p)]
<1>1. \A p \in Processes : caches[p].age \in 0..Old /\ caches[p].now \in 0..Old
  BY DEF Cache
<1>2. \A p \in Processes : now(p) \in 0..Old /\ Older(caches[p].age) \in 0..Old
  <2>1. 0 \in 0..Old
    BY DEF Old
  <2> QED
    BY <1>1, <2>1, OlderGrows
<1>3. ASSUME NEW p \in Processes
      PROVE  /\ aged(p) \in Cache /\ aged(p).value = caches[p].value /\ aged(p).read = caches[p].read
             /\ aged(p).age = Older(caches[p].age) /\ aged(p).now = now(p)
             /\ aged(p).load = caches[p].load /\ aged(p).missed = caches[p].missed
  <2>1. now(p) \in 0..Old /\ Older(caches[p].age) \in 0..Old
    BY <1>2
  <2> HIDE DEF now
  <2> QED
    BY <2>1 DEF Cache
<1>4. /\ caches' = [p \in Processes |-> aged(p)]
      /\ uptime' = Older(uptime) /\ sinceChange' = Older(sinceChange)
      /\ UNCHANGED <<setting, writer, lastWriter>>
  BY DEF SettingsTick
<1> HIDE DEF aged
<1>5. SettingsTypeOK'
  BY <1>3, <1>4, OlderGrows
<1>6. CopiesAreDated'
  <2> SUFFICES ASSUME NEW p \in Processes
               PROVE  /\ caches[p].value <= setting /\ caches[p].read <= setting
                      /\ caches[p].value \notin {Empty, setting} => Older(sinceChange) <= Older(caches[p].age)
                      /\ caches[p].read # Empty => caches[p].load = "read"
                      /\ caches[p].read \notin {Empty, setting} => Older(sinceChange) <= now(p)
    BY <1>3, <1>4 DEF CopiesAreDated
  <2> QED
    BY <1>1, OlderGrows DEF CopiesAreDated
<1>7. ChangesSinceStart'
  BY <1>4, OlderGrows DEF ChangesSinceStart
<1>8. WriterDropped'
  <2> SUFFICES ASSUME NEW p \in Processes, lastWriter = p, writer # p, caches[p].value \notin {Empty, setting}
               PROVE  caches[p].missed \/ Older(uptime) <= Older(caches[p].age)
    BY <1>3, <1>4 DEF WriterDropped
  <2> QED
    BY <1>1, OlderGrows DEF WriterDropped
<1> QED
  BY <1>5, <1>6, <1>7, <1>8

\* A step of one process that moves no clock: it begins a load, ends one, or forgets
\* its copy.  What is proved of the copy it comes to have is what the invariant asks.
LEMMA CopyMoves ==
    ASSUME SettingsInv, NEW p \in Processes, NEW copy \in Cache, NEW w \in Processes \cup {Nobody},
           caches' = [caches EXCEPT ![p] = copy], writer' = w,
           \A q \in Processes \ {p} : writer = q => w = q,
           UNCHANGED <<setting, lastWriter, sinceChange, uptime>>,
           copy.value <= setting, copy.read <= setting,
           copy.value \notin {Empty, setting} => sinceChange <= copy.age,
           copy.read # Empty => copy.load = "read",
           copy.read \notin {Empty, setting} => sinceChange <= copy.now,
           lastWriter = p /\ w # p /\ copy.value \notin {Empty, setting} => copy.missed \/ uptime <= copy.age
    PROVE  SettingsInv'
<1> USE DEF SettingsInv, SettingsTypeOK
<1>1. \A q \in Processes : caches'[q] = IF q = p THEN copy ELSE caches[q]
  OBVIOUS
<1>2. SettingsTypeOK'
  OBVIOUS
<1>3. CopiesAreDated'
  BY <1>1 DEF CopiesAreDated
<1>4. ChangesSinceStart'
  BY DEF ChangesSinceStart
<1>5. WriterDropped'
  BY <1>1 DEF WriterDropped
<1> QED
  BY <1>2, <1>3, <1>4, <1>5

\* The four steps of a load, and the drop after a write.
LEMMA LoadsAndDrops ==
    ASSUME SettingsInv, NEW p \in Processes,
           BeginLoad(p) \/ LoadRows(p) \/ LoadFails(p) \/ StoreRows(p) \/ Invalidate(p)
    PROVE  SettingsInv'
<1> USE SettingsAssumption
<1> DEFINE old == caches[p]
<1>1. /\ old \in Cache /\ old = caches[p] /\ setting \in Values /\ sinceChange \in 0..Old /\ uptime \in 0..Old
      /\ old.value <= setting /\ old.read <= setting
      /\ old.value \notin {Empty, setting} => sinceChange <= old.age
      /\ old.read # Empty => old.load = "read"
      /\ old.read \notin {Empty, setting} => sinceChange <= old.now
      /\ lastWriter = p /\ writer # p /\ old.value \notin {Empty, setting} => old.missed \/ uptime <= old.age
      /\ writer \in Processes \cup {Nobody} /\ caches \in [Processes -> Cache]
  BY DEF SettingsInv, SettingsTypeOK, CopiesAreDated, WriterDropped
<1>2. Empty <= setting /\ setting <= setting /\ 0 \in 0..Old
  BY <1>1 DEF Empty, Values, Old
<1> HIDE DEF old
<1>3. CASE BeginLoad(p)
  <2> DEFINE copy == [old EXCEPT !.load = "begun", !.now = 0]
  <2>1. /\ copy \in Cache /\ copy.value = old.value /\ copy.read = old.read /\ copy.age = old.age
        /\ copy.missed = old.missed
    BY <1>1, <1>2 DEF Cache
  <2>2. old.read = Empty
    BY <1>1, <1>3 DEF BeginLoad
  <2>3. caches' = [caches EXCEPT ![p] = copy] /\ UNCHANGED <<setting, writer, lastWriter, sinceChange, uptime>>
    BY <1>1, <1>3 DEF BeginLoad
  <2> HIDE DEF copy
  <2> QED
    BY <1>1, <2>1, <2>2, <2>3, CopyMoves
<1>4. CASE LoadRows(p) \/ LoadFails(p)
  <2>1. PICK r \in {setting, Empty} :
           /\ caches' = [caches EXCEPT ![p].load = "read", ![p].read = r]
           /\ UNCHANGED <<setting, writer, lastWriter, sinceChange, uptime>>
    BY <1>4 DEF LoadRows, LoadFails
  <2> DEFINE copy == [old EXCEPT !.load = "read", !.read = r]
  <2>2. /\ copy \in Cache /\ copy.value = old.value /\ copy.read = r /\ copy.age = old.age
        /\ copy.missed = old.missed
    BY <1>1 DEF Cache
  <2>3. caches' = [caches EXCEPT ![p] = copy]
    BY <1>1, <2>1
  <2>4. copy.load = "read" /\ copy.value <= setting /\ copy.read <= setting
    BY <1>1, <1>2, <2>2
  <2>5. writer' = writer
    BY <2>1
  <2> HIDE DEF copy
  <2>6. /\ copy.value \notin {Empty, setting} => sinceChange <= copy.age
        /\ copy.read \in {Empty, setting}
        /\ lastWriter = p /\ writer # p /\ copy.value \notin {Empty, setting} => copy.missed \/ uptime <= copy.age
    BY <1>1, <2>2
  <2> QED
    <3>1. /\ copy \in Cache /\ writer \in Processes \cup {Nobody}
          /\ UNCHANGED <<setting, lastWriter, sinceChange, uptime>>
      BY <1>1, <2>1, <2>2
    <3>2. \A q \in Processes \ {p} : writer = q => writer = q
      OBVIOUS
    <3> QED
      BY <2>3, <2>4, <2>5, <2>6, <3>1, <3>2, CopyMoves
<1>5. CASE StoreRows(p)
  <2> DEFINE copy == [value |-> old.read, age |-> old.now, load |-> "no", now |-> 0, read |-> Empty,
                      missed |-> lastWriter = p /\ old.read # setting]
  <2>1. /\ copy \in Cache /\ copy.value = old.read /\ copy.read = Empty /\ copy.age = old.now
        /\ copy.missed = (lastWriter = p /\ old.read # setting)
    BY <1>1, <1>2 DEF Cache
  <2>2. caches' = [caches EXCEPT ![p] = copy] /\ UNCHANGED <<setting, writer, lastWriter, sinceChange, uptime>>
    BY <1>1, <1>5 DEF StoreRows
  <2> HIDE DEF copy
  <2> QED
    BY <1>1, <1>2, <2>1, <2>2, CopyMoves
<1>6. CASE Invalidate(p)
  <2> DEFINE copy == [old EXCEPT !.age = uptime]
  <2>1. /\ copy \in Cache /\ copy.value = old.value /\ copy.read = old.read /\ copy.age = uptime
        /\ copy.load = old.load /\ copy.now = old.now
    BY <1>1 DEF Cache
  <2>2. /\ caches' = [caches EXCEPT ![p] = copy] /\ writer = p /\ writer' = Nobody
        /\ UNCHANGED <<setting, lastWriter, sinceChange, uptime>>
    BY <1>1, <1>6 DEF Invalidate
  <2>3. old.value \notin {Empty, setting} => sinceChange <= uptime
    BY <1>1 DEF SettingsInv, ChangesSinceStart, Cache, Values, Empty
  <2>4. uptime <= uptime
    BY <1>1 DEF Old
  <2> HIDE DEF copy
  <2> QED
    BY <1>1, <2>1, <2>2, <2>3, <2>4, CopyMoves
<1> QED
  BY <1>3, <1>4, <1>5, <1>6

\* A change is newer than every copy and every load in progress.
LEMMA SettingChanges ==
    ASSUME SettingsInv, NEW p \in Processes, Update(p)
    PROVE  SettingsInv'
<1> USE SettingsAssumption DEF SettingsInv, SettingsTypeOK
<1> DEFINE told(q) == [caches[q] EXCEPT !.missed = FALSE]
<1>1. ASSUME NEW q \in Processes
      PROVE  /\ told(q) \in Cache /\ told(q).value = caches[q].value /\ told(q).read = caches[q].read
             /\ told(q).age = caches[q].age /\ told(q).now = caches[q].now /\ told(q).load = caches[q].load
             /\ caches[q].age \in 0..Old /\ caches[q].now \in 0..Old
             /\ caches[q].read \in Values \cup {Empty} /\ caches[q].value \in Values \cup {Empty}
  BY DEF Cache
<1>2. /\ caches' = [q \in Processes |-> told(q)] /\ setting' = setting + 1 /\ setting < MaxUpdates
      /\ writer' = p /\ lastWriter' = p /\ sinceChange' = 0 /\ uptime' = uptime
  BY DEF Update
<1> HIDE DEF told
<1>3. setting \in Nat /\ setting + 1 \in Values /\ 0 \in 0..Old
  BY <1>2 DEF Values, Old
<1>4. SettingsTypeOK'
  BY <1>1, <1>2, <1>3
<1>5. CopiesAreDated'
  <2> SUFFICES ASSUME NEW q \in Processes
               PROVE  /\ caches[q].value <= setting + 1 /\ caches[q].read <= setting + 1
                      /\ 0 <= caches[q].age
                      /\ caches[q].read # Empty => caches[q].load = "read"
                      /\ 0 <= caches[q].now
    BY <1>1, <1>2 DEF CopiesAreDated
  <2>1. caches[q].value \in Int /\ caches[q].read \in Int
    BY <1>1 DEF Values, Empty
  <2>2. caches[q].value <= setting + 1 /\ caches[q].read <= setting + 1 /\ 0 <= caches[q].age /\ 0 <= caches[q].now
    BY <1>1, <1>3, <2>1 DEF CopiesAreDated
  <2> QED
    BY <2>2 DEF CopiesAreDated
<1>6. ChangesSinceStart' /\ WriterDropped'
  BY <1>2, <1>3 DEF ChangesSinceStart, WriterDropped, Old
<1> QED
  BY <1>4, <1>5, <1>6

LEMMA SettingsStep == SettingsInv /\ [SettingsNext]_settingVars => SettingsInv'
<1> SUFFICES ASSUME SettingsInv, [SettingsNext]_settingVars PROVE SettingsInv'
  OBVIOUS
<1>1. CASE SettingsTick
  BY <1>1, SettingsAge
<1>2. CASE \E p \in Processes : BeginLoad(p) \/ LoadRows(p) \/ LoadFails(p) \/ StoreRows(p) \/ Invalidate(p)
  BY <1>2, LoadsAndDrops
<1>3. CASE \E p \in Processes : UpdateSettings(p) \/ DisconnectAi(p)
  BY <1>3, SettingChanges DEF UpdateSettings, DisconnectAi
<1>4. CASE UNCHANGED settingVars
  BY <1>4 DEF settingVars, SettingsInv, SettingsTypeOK, CopiesAreDated, ChangesSinceStart, WriterDropped
<1> QED
  BY <1>1, <1>2, <1>3, <1>4 DEF SettingsNext

\* What the invariant says of the answers.
LEMMA DatedIsFresh == SettingsInv => CacheIsFresh
<1> SUFFICES ASSUME SettingsInv, NEW p \in Processes, Fresh(p), Get(p) \notin {setting, Environment}
             PROVE  /\ sinceChange <= Ttl
                    /\ lastWriter = p /\ writer # p => caches[p].missed \/ uptime <= Ttl
  BY DEF CacheIsFresh
<1>1. caches[p].value \notin {Empty, setting}
  BY DEF Get
<1>2. caches[p].age \in 0..Old /\ sinceChange \in 0..Old /\ uptime \in 0..Old
  BY DEF SettingsInv, SettingsTypeOK, Cache
<1>3. caches[p].age <= Ttl
  BY DEF Fresh
<1>4. sinceChange <= caches[p].age
  BY <1>1 DEF SettingsInv, CopiesAreDated
<1>5. lastWriter = p /\ writer # p => caches[p].missed \/ uptime <= caches[p].age
  BY <1>1 DEF SettingsInv, WriterDropped
<1> QED
  BY <1>2, <1>3, <1>4, <1>5, SettingsAssumption DEF Old

LEMMA SettingsAlways == SettingsSpec => []SettingsInv
BY SettingsStart, SettingsStep, PTL DEF SettingsSpec

\* The table, the copies and the clocks keep to their ranges.
THEOREM SettingsTypeCorrect == SettingsSpec => []SettingsTypeOK
<1>1. SettingsInv => SettingsTypeOK
  BY DEF SettingsInv
<1> QED
  BY <1>1, SettingsAlways, PTL

\* runtime_settings.py:4-5: for any lifetime, any number of processes and changes, what
\* get() answers has been the setting within the lifetime; and the writer's own process
\* answers with the change, with the exceptions the property names.
THEOREM AnswersAreFresh == SettingsSpec => []CacheIsFresh
BY SettingsAlways, DatedIsFresh, PTL

-----------------------------------------------------------------------------
(* Side by side, as the run checks them.                                   *)

LEMMA LiveStep ==
    ASSUME FanoutInv, ChatInv, SettingsInv, [MCNext]_liveVars
    PROVE  FanoutInv' /\ ChatInv' /\ SettingsInv'
<1>1. [Next]_vars /\ [ChatNext]_chatVars /\ [SettingsNext]_settingVars
  BY DEF MCNext, liveVars, vars, chatVars, settingVars
<1> QED
  BY <1>1, FanoutStep, ChatStep, SettingsStep

\* Every state the run reaches, and every state of any other instance, has its type.
THEOREM LiveTypeCorrect == MCSpec => []MCTypeOK
<1>1. MCInit => FanoutInv /\ ChatInv /\ SettingsInv
  BY FanoutStarts, ChatStarts, SettingsStart DEF MCInit
<1>2. FanoutInv /\ ChatInv /\ SettingsInv => MCTypeOK
  BY FanoutBounds, ChatBounds DEF MCTypeOK, SettingsInv
<1> QED
  BY <1>1, <1>2, LiveStep, PTL DEF MCSpec
=============================================================================
