---------------------------- MODULE ClientProofs ----------------------------
(***************************************************************************)
(* What TLAPS proves of RpcClient and of CircuitBreaker, the two objects   *)
(* an agent calls the hub with.                                            *)
(*                                                                         *)
(* RpcClient: for any bound on the registrations and on the retries.  What *)
(* the application's thread has still to do is part of the state, so the   *)
(* invariant has to say which sequences of steps there are (Shape), and    *)
(* what a step may rely on because of those before it: that the heartbeat  *)
(* and the real-time thread have been joined.                              *)
(*                                                                         *)
(* CircuitBreaker: for any number of threads and any configuration.  The   *)
(* increment of a counter is a load and a store, and the unlocked          *)
(* transition to half-open may clear the counter in between: the invariant *)
(* has to say what a thread holds in its register.                         *)
(***************************************************************************)
EXTENDS RpcClient, CircuitBreaker, SequenceTheorems, TLAPS

SH == <<"stop heartbeat">>
JH == <<"join heartbeat">>
SR == <<"stop real time">>
WD == <<"writes done">>
JR == <<"join real time">>
RS == <<"reset stub">>
DC == <<"disconnected">>
DS == <<"destroyed">>
RG == <<"register">>

Lone           == {<<"connected">>, <<"call">>, <<"register">>}
Unregistering  == {"unregister"} \X (1..MaxIds)
Stopping       == {SH, JH, SR, WD, JR, RS, DC}

\* The order of the steps that are left: whatever stops a thread is followed
\* by the join, and a join comes only after it.
Shape(p) ==
  /\ p \in Seq(Steps)
  /\ \A i \in 1..Len(p) :
       /\ i < Len(p) => p[i] \in Stopping
       /\ p[i] \in Lone => i = 1
       /\ p[i] \in Unregistering => \A j \in 1..i-1 : p[j] \in {SH, JH}
       /\ p[i] = SH => i < Len(p) /\ p[i+1] = JH
       /\ p[i] = SR => i + 1 < Len(p) /\ p[i+1] = WD /\ p[i+2] = JR
       /\ p[i] = WD => i < Len(p) /\ p[i+1] = JR
       /\ p[i] = RS => i < Len(p) /\ p[i+1] = DC
       /\ i > 1 /\ p[i] = JH => p[i-1] = SH
       /\ i > 1 /\ p[i] = WD => p[i-1] = SR
       /\ i > 1 /\ p[i] = JR => p[i-1] = WD
       /\ i > 1 /\ p[i] = DC => p[i-1] = RS

\* A step that relies on a stub; on a heartbeat that was joined; on a real-time
\* thread that was joined.
NeedsStub(p) == \E i \in 1..Len(p) : p[i] \in Lone \cup Unregistering

PastHeartbeat(p) ==
  \E i \in 1..Len(p) : p[i] \in {RS, DC, DS} \cup Unregistering /\ \A j \in 1..i-1 : p[j] # JH

PastRealTime(p) ==
  \E i \in 1..Len(p) : p[i] \in {RS, DC, DS} /\ \A j \in 1..i-1 : p[j] # JR

First(p, s) == p # <<>> /\ Head(p) = s

HeartbeatStopped == ~heartbeat_running /\ hb = "none"
RealTimeStopped  == ~real_time_running_ /\ rt = "none"

\* A thread object outlives its flag only until the join that is next.
Joined ==
  /\ hb # "none" /\ ~heartbeat_running => First(todo, JH)
  /\ First(todo, JH) => ~heartbeat_running
  /\ rt # "none" /\ ~real_time_running_ => First(todo, WD) \/ First(todo, JR)
  /\ First(todo, WD) \/ First(todo, JR) => ~real_time_running_
  /\ PastHeartbeat(todo) => HeartbeatStopped
  /\ PastRealTime(todo) => RealTimeStopped

StubInv ==
  /\ NeedsStub(todo) => stub_
  /\ connected_ /\ ~First(todo, DC) => stub_
  /\ hb \in {"beating", "restoring"} => stub_
  /\ rt = "opening" => stub_

\* The heartbeat's thread is joined when the server takes an id back.
FreshHeartbeat == hb # "none" => current_agent_id_ \notin unregistered

\* A registration is asked for within the bound.
Bounded == First(todo, RG) => ids < MaxIds

IInv == TypeOK /\ Shape(todo) /\ Joined /\ StubInv /\ FreshHeartbeat /\ Bounded

\* While it runs, the client has not been terminated either.
Inv == IInv /\ fate # "terminated"

-----------------------------------------------------------------------------
(* The steps, and sequences of them                                        *)

LEMMA StepsDiffer ==
  /\ SH # JH /\ SH # SR /\ SH # WD /\ SH # JR /\ SH # RS /\ SH # DC /\ SH # DS
  /\ JH # SR /\ JH # WD /\ JH # JR /\ JH # RS /\ JH # DC /\ JH # DS
  /\ SR # WD /\ SR # JR /\ SR # RS /\ SR # DC /\ SR # DS
  /\ WD # JR /\ WD # RS /\ WD # DC /\ WD # DS
  /\ JR # RS /\ JR # DC /\ JR # DS
  /\ RS # DC /\ RS # DS
  /\ DC # DS
BY DEF SH, JH, SR, WD, JR, RS, DC, DS

LEMMA StepKindsDiffer ==
  /\ \A s \in Lone : s \notin Unregistering /\ s \notin Stopping /\ s # DS
  /\ \A s \in Unregistering : s \notin Stopping /\ s # DS
  /\ DS \notin Stopping
  /\ Steps = Lone \cup Unregistering \cup Stopping \cup {DS}
<1> DEFINE Calls1 == {"connected", "call", "register"}
<1>a. /\ SH[1] = "stop heartbeat" /\ JH[1] = "join heartbeat" /\ SR[1] = "stop real time"
      /\ WD[1] = "writes done" /\ JR[1] = "join real time" /\ RS[1] = "reset stub"
      /\ DC[1] = "disconnected" /\ DS[1] = "destroyed"
  BY DEF SH, JH, SR, WD, JR, RS, DC, DS
<1>b. \A s \in Stopping \cup {DS} : s[1] # "unregister" /\ s[1] \notin Calls1
  BY <1>a DEF Stopping
<1>c. \A s \in Lone : s[1] \in Calls1
  BY DEF Lone
<1>d. \A s \in Unregistering : s[1] = "unregister"
  BY DEF Unregistering
<1>1. \A s \in Lone : s \notin Unregistering /\ s \notin Stopping /\ s # DS
  BY <1>b, <1>c, <1>d
<1>2. \A s \in Unregistering : s \notin Stopping /\ s # DS
  BY <1>b, <1>d
<1>3. DS \notin Stopping
  BY StepsDiffer DEF Stopping
<1>4. Steps = Lone \cup Unregistering \cup Stopping \cup {DS}
  BY DEF Steps, Lone, Unregistering, Stopping, SH, JH, SR, WD, JR, RS, DC, DS
<1> QED BY <1>1, <1>2, <1>3, <1>4

\* q is what p leaves after its first n steps.
Drops(p, q, n) ==
  /\ p \in Seq(Steps) /\ q \in Seq(Steps)
  /\ n \in 0..Len(p) /\ Len(q) = Len(p) - n
  /\ \A i \in 1..Len(q) : q[i] = p[i + n]

LEMMA DropsSteps ==
  ASSUME NEW p \in Seq(Steps), NEW n \in 1..Len(p)
  PROVE  Drops(p, SubSeq(p, n + 1, Len(p)), n)
<1>1. Len(p) \in Nat
  BY LenProperties
<1>2. n + 1 \in 1..Len(p)+1
  BY <1>1
<1>3. Len(SubSeq(p, n + 1, Len(p))) = Len(p) - n
  BY <1>1, SubSeqProperties
<1>4. SubSeq(p, n + 1, Len(p)) \in Seq(Steps)
  BY <1>1, SubSeqProperties
<1>5. \A i \in 1..Len(p)-n : SubSeq(p, n + 1, Len(p))[i] = p[i + n]
  BY <1>1, SubSeqProperties
<1> QED BY <1>1, <1>3, <1>4, <1>5 DEF Drops

LEMMA TailDrops ==
  ASSUME NEW p \in Seq(Steps), p # <<>>
  PROVE  Drops(p, Tail(p), 1)
BY LenProperties, HeadTailProperties, EmptySeq DEF Drops

LEMMA DropKeepsShape ==
  ASSUME NEW p, NEW q, NEW n, Drops(p, q, n), Shape(p)
  PROVE  Shape(q)
<1>1. Len(p) \in Nat /\ Len(q) \in Nat /\ n \in Nat /\ Len(q) = Len(p) - n
  BY LenProperties DEF Drops
<1>2. \A i \in 1..Len(q) : i + n \in 1..Len(p) /\ q[i] = p[i + n]
  BY <1>1 DEF Drops
<1> SUFFICES ASSUME NEW i \in 1..Len(q)
             PROVE  /\ i < Len(q) => q[i] \in Stopping
                    /\ q[i] \in Lone => i = 1
                    /\ q[i] \in Unregistering => \A j \in 1..i-1 : q[j] \in {SH, JH}
                    /\ q[i] = SH => i < Len(q) /\ q[i+1] = JH
                    /\ q[i] = SR => i + 1 < Len(q) /\ q[i+1] = WD /\ q[i+2] = JR
                    /\ q[i] = WD => i < Len(q) /\ q[i+1] = JR
                    /\ q[i] = RS => i < Len(q) /\ q[i+1] = DC
                    /\ i > 1 /\ q[i] = JH => q[i-1] = SH
                    /\ i > 1 /\ q[i] = WD => q[i-1] = SR
                    /\ i > 1 /\ q[i] = JR => q[i-1] = WD
                    /\ i > 1 /\ q[i] = DC => q[i-1] = RS
  BY DEF Shape, Drops
<1>3. q[i] = p[i + n] /\ i + n \in 1..Len(p)
  BY <1>2
<1>4. i + 1 <= Len(q) => q[i + 1] = p[i + n + 1]
  BY <1>1, <1>2
<1>5. i + 2 <= Len(q) => q[i + 2] = p[i + n + 2]
  BY <1>1, <1>2
<1>6. i > 1 => q[i - 1] = p[i + n - 1]
  BY <1>1, <1>2
<1>7. q[i] \in Lone => i = 1
  BY <1>1, <1>3 DEF Shape
<1>8. q[i] \in Unregistering => \A j \in 1..i-1 : q[j] \in {SH, JH}
  BY <1>1, <1>2, <1>3 DEF Shape
<1> QED BY <1>1, <1>3, <1>4, <1>5, <1>6, <1>7, <1>8 DEF Shape

LEMMA DropKeepsPast ==
  ASSUME NEW p, NEW q, NEW n, Drops(p, q, n)
  PROVE  /\ NeedsStub(q) => NeedsStub(p)
         /\ PastHeartbeat(q) /\ (\A i \in 1..n : p[i] # JH) => PastHeartbeat(p)
         /\ PastRealTime(q) /\ (\A i \in 1..n : p[i] # JR) => PastRealTime(p)
<1>1. Len(p) \in Nat /\ Len(q) \in Nat /\ n \in Nat /\ Len(q) = Len(p) - n
  BY LenProperties DEF Drops
<1>2. \A i \in 1..Len(q) : i + n \in 1..Len(p) /\ q[i] = p[i + n]
  BY <1>1 DEF Drops
<1>3. NeedsStub(q) => NeedsStub(p)
  BY <1>2 DEF NeedsStub
<1>4. ASSUME PastHeartbeat(q), \A i \in 1..n : p[i] # JH PROVE PastHeartbeat(p)
  <2>1. PICK i \in 1..Len(q) : /\ q[i] \in {RS, DC, DS} \cup Unregistering
                               /\ \A j \in 1..i-1 : q[j] # JH
    BY <1>4 DEF PastHeartbeat
  <2>2. \A j \in 1..(i+n)-1 : p[j] # JH
    <3> SUFFICES ASSUME NEW j \in 1..(i+n)-1 PROVE p[j] # JH
      OBVIOUS
    <3>1. CASE j <= n
      BY <1>1, <1>4, <3>1
    <3>2. CASE j > n
      <4>1. j - n \in 1..i-1 /\ j - n \in 1..Len(q) /\ (j - n) + n = j
        BY <1>1, <3>2
      <4> QED BY <1>2, <2>1, <4>1
    <3> QED BY <1>1, <3>1, <3>2
  <2> QED BY <1>2, <2>1, <2>2 DEF PastHeartbeat
<1>5. ASSUME PastRealTime(q), \A i \in 1..n : p[i] # JR PROVE PastRealTime(p)
  <2>1. PICK i \in 1..Len(q) : /\ q[i] \in {RS, DC, DS}
                               /\ \A j \in 1..i-1 : q[j] # JR
    BY <1>5 DEF PastRealTime
  <2>2. \A j \in 1..(i+n)-1 : p[j] # JR
    <3> SUFFICES ASSUME NEW j \in 1..(i+n)-1 PROVE p[j] # JR
      OBVIOUS
    <3>1. CASE j <= n
      BY <1>1, <1>5, <3>1
    <3>2. CASE j > n
      <4>1. j - n \in 1..i-1 /\ j - n \in 1..Len(q) /\ (j - n) + n = j
        BY <1>1, <3>2
      <4> QED BY <1>2, <2>1, <4>1
    <3> QED BY <1>1, <3>1, <3>2
  <2> QED BY <1>2, <2>1, <2>2 DEF PastRealTime
<1> QED BY <1>3, <1>4, <1>5

-----------------------------------------------------------------------------
(* The sequences a method starts with                                      *)

\* Steps that stop threads or reset the stubs, each with those that go with it.
Closed(p) ==
  /\ Shape(p)
  /\ \A i \in 1..Len(p) : p[i] \in Stopping
  /\ p # <<>> => p[1] \in {SH, SR, RS} /\ p[Len(p)] \in {JH, JR, DC}

LEMMA ClosedFollowedBy ==
  ASSUME NEW p, NEW q, Closed(p), Shape(q), q # <<>> => q[1] \in {SH, SR, RS, DS},
         \A i \in 1..Len(q) : q[i] \notin Lone /\ q[i] \notin Unregistering
  PROVE  Shape(p \o q)
<1> DEFINE r == p \o q
<1>1. p \in Seq(Steps) /\ q \in Seq(Steps) /\ Len(p) \in Nat /\ Len(q) \in Nat
  BY LenProperties DEF Closed, Shape
<1>2. /\ r \in Seq(Steps) /\ Len(r) = Len(p) + Len(q)
      /\ \A i \in 1..Len(r) : r[i] = IF i <= Len(p) THEN p[i] ELSE q[i - Len(p)]
  BY <1>1, ConcatProperties
<1>3. /\ \A i \in 1..Len(p) : i \in 1..Len(r) /\ r[i] = p[i]
      /\ \A i \in 1..Len(q) : i + Len(p) \in 1..Len(r) /\ r[i + Len(p)] = q[i]
  BY <1>1, <1>2
<1> HIDE DEF r
<1> SUFFICES ASSUME NEW i \in 1..Len(r)
             PROVE  /\ i < Len(r) => r[i] \in Stopping
                    /\ r[i] \in Lone => i = 1
                    /\ r[i] \in Unregistering => \A j \in 1..i-1 : r[j] \in {SH, JH}
                    /\ r[i] = SH => i < Len(r) /\ r[i+1] = JH
                    /\ r[i] = SR => i + 1 < Len(r) /\ r[i+1] = WD /\ r[i+2] = JR
                    /\ r[i] = WD => i < Len(r) /\ r[i+1] = JR
                    /\ r[i] = RS => i < Len(r) /\ r[i+1] = DC
                    /\ i > 1 /\ r[i] = JH => r[i-1] = SH
                    /\ i > 1 /\ r[i] = WD => r[i-1] = SR
                    /\ i > 1 /\ r[i] = JR => r[i-1] = WD
                    /\ i > 1 /\ r[i] = DC => r[i-1] = RS
  BY <1>2 DEF Shape, r
<1>4. CASE i <= Len(p)
  <2>1. i \in 1..Len(p) /\ p # <<>> /\ r[i] = p[i] /\ p[i] \in Stopping
    BY <1>1, <1>3, <1>4, EmptySeq DEF Closed
  <2>2. r[i] \notin Lone /\ r[i] \notin Unregistering
    BY <2>1, StepKindsDiffer
  <2>3. i > 1 => r[i-1] = p[i-1]
    BY <1>1, <1>3, <2>1
  <2>4. i + 1 <= Len(p) => r[i+1] = p[i+1]
    BY <1>1, <1>3, <2>1
  <2>5. i + 2 <= Len(p) => r[i+2] = p[i+2]
    BY <1>1, <1>3, <2>1
  <2>6. Len(r) = Len(p) + Len(q)
    BY <1>2
  <2>7. /\ r[i] = SH => i < Len(p) /\ p[i+1] = JH
        /\ r[i] = SR => i + 1 < Len(p) /\ p[i+1] = WD /\ p[i+2] = JR
        /\ r[i] = WD => i < Len(p) /\ p[i+1] = JR
        /\ r[i] = RS => i < Len(p) /\ p[i+1] = DC
    BY <2>1 DEF Closed, Shape
  <2>8. i > 1 => /\ r[i] = JH => p[i-1] = SH
                 /\ r[i] = WD => p[i-1] = SR
                 /\ r[i] = JR => p[i-1] = WD
                 /\ r[i] = DC => p[i-1] = RS
    BY <2>1 DEF Closed, Shape
  <2> QED BY <1>1, <2>1, <2>2, <2>3, <2>4, <2>5, <2>6, <2>7, <2>8
<1>5. CASE i > Len(p)
  <2> DEFINE k == i - Len(p)
  <2>1. k \in 1..Len(q) /\ r[i] = q[k] /\ q # <<>>
    BY <1>1, <1>2, <1>3, <1>5, EmptySeq
  <2>2. r[i] \notin Lone /\ r[i] \notin Unregistering
    BY <2>1
  <2>a. k \in Int /\ i = k + Len(p)
    BY <1>1
  <2> HIDE DEF k
  <2>3. k + 1 <= Len(q) => r[i+1] = q[k+1]
    BY <1>1, <1>2, <2>1, <2>a
  <2>4. k + 2 <= Len(q) => r[i+2] = q[k+2]
    BY <1>1, <1>2, <2>1, <2>a
  <2>5. k > 1 => r[i-1] = q[k-1]
    BY <1>1, <1>2, <2>1, <2>a
  <2>6. k = 1 => r[i] \in {SH, SR, RS, DS}
    BY <2>1
  <2>7. Len(r) = Len(p) + Len(q)
    BY <1>2
  <2>8. i < Len(r) => r[i] \in Stopping
    BY <1>1, <2>1, <2>a, <2>7 DEF Shape
  <2>9. /\ r[i] = SH => k < Len(q) /\ q[k+1] = JH
        /\ r[i] = SR => k + 1 < Len(q) /\ q[k+1] = WD /\ q[k+2] = JR
        /\ r[i] = WD => k < Len(q) /\ q[k+1] = JR
        /\ r[i] = RS => k < Len(q) /\ q[k+1] = DC
    BY <1>1, <2>1, <2>a DEF Shape
  <2>10. k > 1 => /\ r[i] = JH => q[k-1] = SH
                  /\ r[i] = WD => q[k-1] = SR
                  /\ r[i] = JR => q[k-1] = WD
                  /\ r[i] = DC => q[k-1] = RS
    BY <1>1, <2>1, <2>a DEF Shape
  <2>11. k = 1 => r[i] # JH /\ r[i] # WD /\ r[i] # JR /\ r[i] # DC
    BY <2>6, StepsDiffer
  <2>12. /\ r[i] = SH => i < Len(r) /\ r[i+1] = JH
         /\ r[i] = SR => i + 1 < Len(r) /\ r[i+1] = WD /\ r[i+2] = JR
         /\ r[i] = WD => i < Len(r) /\ r[i+1] = JR
         /\ r[i] = RS => i < Len(r) /\ r[i+1] = DC
    BY <1>1, <2>1, <2>3, <2>4, <2>7, <2>9, <2>a
  <2>13. /\ r[i] = JH => r[i-1] = SH
         /\ r[i] = WD => r[i-1] = SR
         /\ r[i] = JR => r[i-1] = WD
         /\ r[i] = DC => r[i-1] = RS
    BY <1>1, <2>1, <2>5, <2>10, <2>11, <2>a
  <2> QED BY <2>2, <2>8, <2>12, <2>13
<1> QED BY <1>1, <1>2, <1>4, <1>5

LEMMA ClosedTogether ==
  ASSUME NEW p, NEW q, Closed(p), Closed(q)
  PROVE  Closed(p \o q)
<1>1. p \in Seq(Steps) /\ q \in Seq(Steps) /\ Len(p) \in Nat /\ Len(q) \in Nat
  BY LenProperties DEF Closed, Shape
<1>2. /\ p \o q \in Seq(Steps) /\ Len(p \o q) = Len(p) + Len(q)
      /\ \A i \in 1..Len(p) + Len(q) :
           (p \o q)[i] = IF i <= Len(p) THEN p[i] ELSE q[i - Len(p)]
  BY <1>1, ConcatProperties
<1>3. Shape(p \o q)
  BY ClosedFollowedBy, StepKindsDiffer DEF Closed
<1>4. \A i \in 1..Len(p \o q) : (p \o q)[i] \in Stopping
  BY <1>1, <1>2 DEF Closed
<1>5. ASSUME p \o q # <<>>
      PROVE (p \o q)[1] \in {SH, SR, RS} /\ (p \o q)[Len(p \o q)] \in {JH, JR, DC}
  <2>1. Len(p) + Len(q) > 0 /\ (p # <<>> <=> Len(p) > 0) /\ (q # <<>> <=> Len(q) > 0)
    BY <1>1, <1>2, <1>5, EmptySeq
  <2> QED BY <1>1, <1>2, <2>1 DEF Closed
<1> QED BY <1>3, <1>4, <1>5 DEF Closed

LEMMA Together ==
  ASSUME NEW p \in Seq(Steps), NEW q \in Seq(Steps)
  PROVE  p \o q \in Seq(Steps) /\ Len(p \o q) = Len(p) + Len(q)
BY ConcatProperties

\* What relies on a join in p \o q relies on it in p, unless p has none.
LEMMA PastTogether ==
  ASSUME NEW p \in Seq(Steps), NEW q \in Seq(Steps)
  PROVE  /\ NeedsStub(p \o q) => NeedsStub(p) \/ NeedsStub(q)
         /\ PastHeartbeat(p \o q) /\ (\E i \in 1..Len(p) : p[i] = JH) => PastHeartbeat(p)
         /\ PastHeartbeat(p \o q) => PastHeartbeat(p) \/ PastHeartbeat(q)
         /\ PastRealTime(p \o q) /\ (\E i \in 1..Len(p) : p[i] = JR) => PastRealTime(p)
         /\ PastRealTime(p \o q) => PastRealTime(p) \/ PastRealTime(q)
<1>1. Len(p) \in Nat /\ Len(q) \in Nat /\ Len(p \o q) = Len(p) + Len(q)
  BY LenProperties, ConcatProperties
<1>2. /\ \A i \in 1..Len(p \o q) : i <= Len(p) => i \in 1..Len(p) /\ (p \o q)[i] = p[i]
      /\ \A i \in 1..Len(p \o q) : i > Len(p) =>
           i - Len(p) \in 1..Len(q) /\ (p \o q)[i] = q[i - Len(p)]
  BY <1>1, ConcatProperties
<1>3. NeedsStub(p \o q) => NeedsStub(p) \/ NeedsStub(q)
  BY <1>1, <1>2 DEF NeedsStub
<1>4. ASSUME PastHeartbeat(p \o q)
      PROVE  /\ (\E i \in 1..Len(p) : p[i] = JH) => PastHeartbeat(p)
             /\ PastHeartbeat(p) \/ PastHeartbeat(q)
  <2>1. PICK i \in 1..Len(p \o q) : /\ (p \o q)[i] \in {RS, DC, DS} \cup Unregistering
                                    /\ \A j \in 1..i-1 : (p \o q)[j] # JH
    BY <1>4 DEF PastHeartbeat
  <2>2. CASE i <= Len(p)
    <3>1. i \in 1..Len(p) /\ p[i] \in {RS, DC, DS} \cup Unregistering
      BY <1>2, <2>1, <2>2
    <3>2. \A j \in 1..i-1 : p[j] # JH
      BY <1>1, <1>2, <2>1, <2>2
    <3> QED BY <3>1, <3>2 DEF PastHeartbeat
  <2>3. CASE i > Len(p)
    <3>1. i - Len(p) \in 1..Len(q) /\ q[i - Len(p)] \in {RS, DC, DS} \cup Unregistering
      BY <1>2, <2>1, <2>3
    <3>2. \A j \in 1..(i - Len(p))-1 : q[j] # JH
      <4> SUFFICES ASSUME NEW j \in 1..(i - Len(p))-1 PROVE q[j] # JH
        OBVIOUS
      <4>1. j + Len(p) \in 1..i-1 /\ j + Len(p) \in 1..Len(p \o q) /\ j + Len(p) > Len(p)
            /\ (j + Len(p)) - Len(p) = j
        BY <1>1
      <4> QED BY <1>2, <2>1, <4>1
    <3>3. \A j \in 1..Len(p) : p[j] # JH
      BY <1>1, <1>2, <2>1, <2>3
    <3> QED BY <3>1, <3>2, <3>3 DEF PastHeartbeat
  <2> QED BY <1>1, <2>2, <2>3
<1>5. ASSUME PastRealTime(p \o q)
      PROVE  /\ (\E i \in 1..Len(p) : p[i] = JR) => PastRealTime(p)
             /\ PastRealTime(p) \/ PastRealTime(q)
  <2>1. PICK i \in 1..Len(p \o q) : /\ (p \o q)[i] \in {RS, DC, DS}
                                    /\ \A j \in 1..i-1 : (p \o q)[j] # JR
    BY <1>5 DEF PastRealTime
  <2>2. CASE i <= Len(p)
    <3>1. i \in 1..Len(p) /\ p[i] \in {RS, DC, DS}
      BY <1>2, <2>1, <2>2
    <3>2. \A j \in 1..i-1 : p[j] # JR
      BY <1>1, <1>2, <2>1, <2>2
    <3> QED BY <3>1, <3>2 DEF PastRealTime
  <2>3. CASE i > Len(p)
    <3>1. i - Len(p) \in 1..Len(q) /\ q[i - Len(p)] \in {RS, DC, DS}
      BY <1>2, <2>1, <2>3
    <3>2. \A j \in 1..(i - Len(p))-1 : q[j] # JR
      <4> SUFFICES ASSUME NEW j \in 1..(i - Len(p))-1 PROVE q[j] # JR
        OBVIOUS
      <4>1. j + Len(p) \in 1..i-1 /\ j + Len(p) \in 1..Len(p \o q) /\ j + Len(p) > Len(p)
            /\ (j + Len(p)) - Len(p) = j
        BY <1>1
      <4> QED BY <1>2, <2>1, <4>1
    <3>3. \A j \in 1..Len(p) : p[j] # JR
      BY <1>1, <1>2, <2>1, <2>3
    <3> QED BY <3>1, <3>2, <3>3 DEF PastRealTime
  <2> QED BY <1>1, <2>2, <2>3
<1> QED BY <1>3, <1>4, <1>5

LEMMA StopHeartbeatShape ==
  /\ StopHeartbeat = <<SH, JH>> /\ Closed(StopHeartbeat)
  /\ ~NeedsStub(StopHeartbeat) /\ ~PastHeartbeat(StopHeartbeat) /\ ~PastRealTime(StopHeartbeat)
<1>1. StopHeartbeat = <<SH, JH>>
  BY DEF StopHeartbeat, SH, JH
<1> DEFINE p == <<SH, JH>>
<1>2. Len(p) = 2 /\ p[1] = SH /\ p[2] = JH /\ p # <<>>
  OBVIOUS
<1>3. p \in Seq(Steps)
  BY StepKindsDiffer DEF Stopping
<1> HIDE DEF p
<1>4. SH \in Stopping /\ JH \in Stopping
  BY DEF Stopping
<1>5. \A i \in 1..2 : i = 1 \/ i = 2
  OBVIOUS
<1>6. \A i \in 1..Len(p) : p[i] \in {SH, JH}
  BY <1>2, <1>5
<1>7. \A i \in 1..Len(p) : p[i] \notin Lone /\ p[i] \notin Unregistering /\ p[i] \notin {RS, DC, DS}
  BY <1>4, <1>6, StepKindsDiffer, StepsDiffer
<1>8. Shape(p)
  BY <1>2, <1>3, <1>4, <1>5, <1>7, StepsDiffer DEF Shape
<1>9. Closed(p)
  BY <1>2, <1>4, <1>5, <1>8 DEF Closed
<1> QED BY <1>1, <1>7, <1>9 DEF p, NeedsStub, PastHeartbeat, PastRealTime

LEMMA StopRealTimeShape ==
  /\ StopRealTime = <<SR, WD, JR>> /\ Closed(StopRealTime)
  /\ ~NeedsStub(StopRealTime) /\ ~PastHeartbeat(StopRealTime) /\ ~PastRealTime(StopRealTime)
<1>1. StopRealTime = <<SR, WD, JR>>
  BY DEF StopRealTime, SR, WD, JR
<1> DEFINE p == <<SR, WD, JR>>
<1>2. Len(p) = 3 /\ p[1] = SR /\ p[2] = WD /\ p[3] = JR /\ p # <<>>
  OBVIOUS
<1>3. p \in Seq(Steps)
  BY StepKindsDiffer DEF Stopping
<1> HIDE DEF p
<1>4. SR \in Stopping /\ WD \in Stopping /\ JR \in Stopping
  BY DEF Stopping
<1>5. \A i \in 1..3 : i = 1 \/ i = 2 \/ i = 3
  OBVIOUS
<1>6. \A i \in 1..Len(p) : p[i] \in {SR, WD, JR}
  BY <1>2, <1>5
<1>7. \A i \in 1..Len(p) : p[i] \notin Lone /\ p[i] \notin Unregistering /\ p[i] \notin {RS, DC, DS}
  BY <1>4, <1>6, StepKindsDiffer, StepsDiffer
<1>8. Shape(p)
  BY <1>2, <1>3, <1>4, <1>5, <1>7, StepsDiffer DEF Shape
<1>9. Closed(p)
  BY <1>2, <1>4, <1>5, <1>8 DEF Closed
<1> QED BY <1>1, <1>7, <1>9 DEF p, NeedsStub, PastHeartbeat, PastRealTime

LEMMA ResetShape ==
  Closed(<<RS, DC>>) /\ ~NeedsStub(<<RS, DC>>)
<1> DEFINE p == <<RS, DC>>
<1>2. Len(p) = 2 /\ p[1] = RS /\ p[2] = DC /\ p # <<>>
  OBVIOUS
<1>3. p \in Seq(Steps)
  BY StepKindsDiffer DEF Stopping
<1> HIDE DEF p
<1>4. RS \in Stopping /\ DC \in Stopping
  BY DEF Stopping
<1>5. \A i \in 1..2 : i = 1 \/ i = 2
  OBVIOUS
<1>7. \A i \in 1..Len(p) : p[i] \notin Lone /\ p[i] \notin Unregistering
  BY <1>2, <1>4, <1>5, StepKindsDiffer
<1>8. Shape(p)
  BY <1>2, <1>3, <1>4, <1>5, <1>7, StepsDiffer DEF Shape
<1>9. Closed(p)
  BY <1>2, <1>4, <1>5, <1>8 DEF Closed
<1> QED BY <1>7, <1>9 DEF p, NeedsStub

\* A method whose one step calls or connects, and the destructor's last step.
LEMMA SingleShape ==
  ASSUME NEW s \in Lone \cup {DS}
  PROVE  /\ Shape(<<s>>) /\ (s \in Lone => ~PastHeartbeat(<<s>>) /\ ~PastRealTime(<<s>>))
         /\ s = DS => ~NeedsStub(<<s>>)
<1> DEFINE p == <<s>>
<1>1. Len(p) = 1 /\ p[1] = s
  OBVIOUS
<1>2. p \in Seq(Steps)
  BY StepKindsDiffer
<1> HIDE DEF p
<1>3. s \notin Unregistering /\ s \notin Stopping
  BY StepKindsDiffer
<1>4. s # SH /\ s # SR /\ s # WD /\ s # RS /\ s # DC
  BY <1>3 DEF Stopping
<1>5. Shape(p)
  BY <1>1, <1>2, <1>3, <1>4 DEF Shape
<1>6. s \in Lone => s # DS
  BY StepKindsDiffer
<1>7. \A i \in 1..Len(p) : p[i] = s
  BY <1>1
<1>8. ASSUME s \in Lone PROVE ~PastHeartbeat(p) /\ ~PastRealTime(p)
  BY <1>3, <1>4, <1>6, <1>7, <1>8 DEF PastHeartbeat, PastRealTime
<1>9. ASSUME s = DS PROVE ~NeedsStub(p)
  BY <1>3, <1>6, <1>7, <1>9 DEF NeedsStub
<1> QED BY <1>5, <1>8, <1>9 DEF p

LEMMA UnregisterShape ==
  ASSUME NEW u \in Unregistering
  PROVE  LET p == StopHeartbeat \o <<u>>
         IN  Shape(p) /\ ~PastHeartbeat(p) /\ ~PastRealTime(p) /\ p[1] = SH /\ p # <<>>
<1> DEFINE p == <<SH, JH>> \o <<u>>
<1>1. u \in Steps /\ SH \in Steps /\ JH \in Steps
  BY StepKindsDiffer DEF Stopping
<1>2. <<SH, JH>> \in Seq(Steps) /\ <<u>> \in Seq(Steps) /\ Len(<<SH, JH>>) = 2 /\ Len(<<u>>) = 1
  BY <1>1
<1>3. p \in Seq(Steps) /\ Len(p) = 3 /\ p[1] = SH /\ p[2] = JH /\ p[3] = u
  BY <1>2, ConcatProperties
<1> HIDE DEF p
<1>4. u \notin Lone /\ u \notin Stopping /\ u # DS
  BY StepKindsDiffer
<1>5. SH \in Stopping /\ JH \in Stopping
  BY DEF Stopping
<1>6. \A i \in 1..3 : i = 1 \/ i = 2 \/ i = 3
  OBVIOUS
<1>7. \A i \in 1..2 : p[i] \in {SH, JH} /\ p[i] \notin Lone /\ p[i] \notin Unregistering
                      /\ p[i] \notin {RS, DC, DS}
  BY <1>3, <1>5, StepKindsDiffer, StepsDiffer
<1>8. u \notin {SH, JH, SR, WD, JR, RS, DC, DS}
  BY <1>4 DEF Stopping
<1>9. Shape(p)
  BY <1>3, <1>4, <1>5, <1>6, <1>7, <1>8, StepsDiffer DEF Shape
<1>10. ~PastHeartbeat(p)
  BY <1>3, <1>6, <1>7 DEF PastHeartbeat
<1>11. ~PastRealTime(p)
  BY <1>3, <1>6, <1>7, <1>8 DEF PastRealTime
<1> QED BY <1>3, <1>9, <1>10, <1>11, StopHeartbeatShape, EmptySeq DEF p

LEMMA DisconnectingShape ==
  /\ Closed(Disconnecting) /\ ~NeedsStub(Disconnecting)
  /\ ~PastHeartbeat(Disconnecting) /\ ~PastRealTime(Disconnecting)
  /\ Disconnecting # <<>> /\ Disconnecting[1] = SH
<1> DEFINE a == StopHeartbeat
           b == StopRealTime
           c == <<RS, DC>>
<1>1. Disconnecting = (a \o b) \o c
  BY DEF Disconnecting, RS, DC
<1>2. /\ a \in Seq(Steps) /\ b \in Seq(Steps) /\ c \in Seq(Steps) /\ a \o b \in Seq(Steps)
      /\ Len(a) = 2 /\ Len(b) = 3 /\ Len(a \o b) = 5
      /\ a[1] = SH /\ a[2] = JH /\ b[3] = JR
  BY StopHeartbeatShape, StopRealTimeShape, ResetShape, ConcatProperties DEF Closed, Shape
<1>3. (a \o b)[1] = SH /\ (a \o b)[5] = JR
  BY <1>2, ConcatProperties
<1>4. Closed((a \o b) \o c)
  BY StopHeartbeatShape, StopRealTimeShape, ResetShape, ClosedTogether
<1>5. ~NeedsStub((a \o b) \o c)
  BY <1>2, StopHeartbeatShape, StopRealTimeShape, ResetShape, PastTogether
<1>6. ~PastHeartbeat(a \o b) /\ ~PastRealTime(a \o b)
  BY <1>2, StopHeartbeatShape, StopRealTimeShape, PastTogether
<1>7. ~PastHeartbeat((a \o b) \o c)
  <2>1. (a \o b)[2] = JH
    BY <1>2, ConcatProperties
  <2>2. \E i \in 1..Len(a \o b) : (a \o b)[i] = JH
    BY <1>2, <2>1
  <2> QED BY <1>2, <1>6, <2>2, PastTogether
<1>8. ~PastRealTime((a \o b) \o c)
  <2>1. \E i \in 1..Len(a \o b) : (a \o b)[i] = JR
    BY <1>2, <1>3
  <2> QED BY <1>2, <1>6, <2>1, PastTogether
<1>9. ((a \o b) \o c)[1] = SH /\ Len((a \o b) \o c) = 7
  BY <1>2, <1>3, ConcatProperties
<1> QED BY <1>1, <1>4, <1>5, <1>7, <1>8, <1>9, EmptySeq

Destroying(p) == p \o StopHeartbeat \o StopRealTime \o <<DS>>

LEMMA DestroyingShape ==
  ASSUME NEW p \in {Disconnecting, <<>>}
  PROVE  LET q == Destroying(p)
         IN  /\ Shape(q) /\ ~NeedsStub(q) /\ ~PastHeartbeat(q) /\ ~PastRealTime(q)
             /\ q # <<>> /\ q[1] = SH
<1> DEFINE a == StopHeartbeat
           b == StopRealTime
           d == <<DS>>
<1>1. /\ Closed(p) /\ p \in Seq(Steps) /\ ~NeedsStub(p) /\ ~PastHeartbeat(p) /\ ~PastRealTime(p)
      /\ p # <<>> => p[1] = SH
  <2>1. CASE p = <<>>
    <3>1. p \in Seq(Steps) /\ Len(p) = 0
      BY <2>1
    <3> QED BY <2>1, <3>1 DEF Closed, Shape, NeedsStub, PastHeartbeat, PastRealTime
  <2>2. CASE p = Disconnecting
    BY <2>2, DisconnectingShape DEF Closed, Shape
  <2> QED BY <2>1, <2>2
<1>a. /\ a \in Seq(Steps) /\ b \in Seq(Steps) /\ d \in Seq(Steps)
      /\ Len(p) \in Nat /\ Len(a) = 2 /\ Len(b) = 3 /\ Len(d) = 1
      /\ a[1] = SH /\ a[2] = JH /\ b[3] = JR
  <2>1. a \in Seq(Steps) /\ b \in Seq(Steps)
    BY StopHeartbeatShape, StopRealTimeShape DEF Closed, Shape
  <2>2. d \in Seq(Steps) /\ Len(d) = 1
    BY StepKindsDiffer
  <2>3. Len(a) = 2 /\ Len(b) = 3 /\ a[1] = SH /\ a[2] = JH /\ b[3] = JR
    BY StopHeartbeatShape, StopRealTimeShape
  <2>4. Len(p) \in Nat
    BY <1>1, LenProperties
  <2> QED BY <2>1, <2>2, <2>3, <2>4
<1>2. /\ a \in Seq(Steps) /\ b \in Seq(Steps) /\ d \in Seq(Steps)
      /\ p \o a \in Seq(Steps) /\ (p \o a) \o b \in Seq(Steps)
      /\ Len(p) \in Nat /\ Len(a) = 2 /\ Len(b) = 3 /\ Len(d) = 1
      /\ Len(p \o a) = Len(p) + 2 /\ Len((p \o a) \o b) = Len(p) + 5
      /\ a[1] = SH /\ a[2] = JH /\ b[3] = JR
  <2>1. p \o a \in Seq(Steps) /\ Len(p \o a) = Len(p) + 2
    BY <1>1, <1>a, Together
  <2>2. (p \o a) \o b \in Seq(Steps) /\ Len((p \o a) \o b) = Len(p \o a) + 3
    BY <1>a, <2>1, Together
  <2>3. Len((p \o a) \o b) = Len(p) + 5
    BY <1>a, <2>1, <2>2
  <2> QED BY <1>a, <2>1, <2>2, <2>3
<1>3. Closed((p \o a) \o b)
  BY <1>1, StopHeartbeatShape, StopRealTimeShape, ClosedTogether
<1>4. Shape(d) /\ ~NeedsStub(d)
  BY SingleShape
<1>5. Shape(((p \o a) \o b) \o d)
  <2>1. d # <<>> => d[1] \in {SH, SR, RS, DS}
    OBVIOUS
  <2>2. \A i \in 1..Len(d) : d[i] \notin Lone /\ d[i] \notin Unregistering
    BY StepKindsDiffer
  <2> QED BY <1>3, <1>4, <2>1, <2>2, ClosedFollowedBy
<1>6. ~NeedsStub(((p \o a) \o b) \o d)
  BY <1>1, <1>2, <1>4, StopHeartbeatShape, StopRealTimeShape, PastTogether
<1>7. /\ ~PastHeartbeat((p \o a) \o b) /\ ~PastRealTime((p \o a) \o b)
  BY <1>1, <1>2, StopHeartbeatShape, StopRealTimeShape, PastTogether
<1>8. ((p \o a) \o b)[Len(p) + 2] = JH
  <2>1. (p \o a)[Len(p) + 2] = JH
    BY <1>2, ConcatProperties
  <2> QED BY <1>2, <2>1, ConcatProperties
<1>9. ((p \o a) \o b)[Len(p) + 5] = JR
  BY <1>2, ConcatProperties
<1>10. ~PastHeartbeat(((p \o a) \o b) \o d)
  <2>1. \E i \in 1..Len((p \o a) \o b) : ((p \o a) \o b)[i] = JH
    BY <1>2, <1>8
  <2> QED BY <1>2, <1>7, <2>1, PastTogether
<1>11. ~PastRealTime(((p \o a) \o b) \o d)
  <2>1. \E i \in 1..Len((p \o a) \o b) : ((p \o a) \o b)[i] = JR
    BY <1>2, <1>9
  <2> QED BY <1>2, <1>7, <2>1, PastTogether
<1>12. (((p \o a) \o b) \o d)[1] = SH /\ Len(((p \o a) \o b) \o d) = Len(p) + 6
  <2>1. (p \o a)[1] = SH
    BY <1>1, <1>2, EmptySeq, ConcatProperties
  <2>2. ((p \o a) \o b)[1] = SH
    BY <1>2, <2>1, ConcatProperties
  <2> QED BY <1>2, <2>2, ConcatProperties
<1> QED BY <1>2, <1>5, <1>6, <1>10, <1>11, <1>12, EmptySeq DEF Destroying

-----------------------------------------------------------------------------
(* What is left after a step                                               *)

\* The application's thread goes on with the step after its first one.
LEMMA AfterStep ==
  ASSUME NEW p, Shape(p), p # <<>>, NEW q, q = Tail(p)
  PROVE  /\ Head(p) = p[1] /\ Shape(q)
         /\ NeedsStub(q) => NeedsStub(p)
         /\ PastHeartbeat(q) /\ p[1] # JH => PastHeartbeat(p)
         /\ PastRealTime(q) /\ p[1] # JR => PastRealTime(p)
         /\ First(q, JH) <=> p[1] = SH
         /\ First(q, WD) <=> p[1] = SR
         /\ First(q, JR) <=> p[1] = WD
         /\ First(q, DC) <=> p[1] = RS
         /\ p[1] \notin Stopping => q = <<>>
         /\ ~First(q, RG)
<1>1. p \in Seq(Steps) /\ Len(p) \in Nat /\ Len(p) > 0 /\ Head(p) = p[1]
  BY LenProperties, EmptySeq, HeadTailProperties DEF Shape
<1>2. Drops(p, q, 1)
  BY <1>1, TailDrops
<1>3. Shape(q) /\ (NeedsStub(q) => NeedsStub(p))
  BY <1>2, DropKeepsShape, DropKeepsPast
<1>4. /\ PastHeartbeat(q) /\ p[1] # JH => PastHeartbeat(p)
      /\ PastRealTime(q) /\ p[1] # JR => PastRealTime(p)
  <2>1. \A i \in 1..1 : i = 1
    OBVIOUS
  <2> QED BY <1>2, <2>1, DropKeepsPast
<1>5. q # <<>> => Len(p) > 1 /\ Head(q) = p[2]
  <2> SUFFICES ASSUME q # <<>> PROVE Len(p) > 1 /\ Head(q) = p[2]
    OBVIOUS
  <2>1. q \in Seq(Steps) /\ Len(q) = Len(p) - 1 /\ \A i \in 1..Len(q) : q[i] = p[i + 1]
    BY <1>2 DEF Drops
  <2>2. Len(q) \in Nat /\ Len(q) > 0 /\ Head(q) = q[1]
    BY <2>1, LenProperties, EmptySeq, HeadTailProperties
  <2> QED BY <1>1, <2>1, <2>2
<1>6. Len(p) > 1 => q # <<>>
  <2>1. q \in Seq(Steps) /\ Len(q) = Len(p) - 1
    BY <1>2 DEF Drops
  <2>2. q = <<>> => Len(q) = 0
    OBVIOUS
  <2> QED BY <1>1, <2>1, <2>2
<1>7. 1 \in 1..Len(p) /\ (Len(p) > 1 => 2 \in 1..Len(p))
  BY <1>1
<1>8. /\ p[1] = SH => Len(p) > 1 /\ p[2] = JH
      /\ p[1] = SR => Len(p) > 1 /\ p[2] = WD
      /\ p[1] = WD => Len(p) > 1 /\ p[2] = JR
      /\ p[1] = RS => Len(p) > 1 /\ p[2] = DC
      /\ Len(p) > 1 => /\ p[1] \in Stopping
                       /\ p[2] = JH => p[1] = SH
                       /\ p[2] = WD => p[1] = SR
                       /\ p[2] = JR => p[1] = WD
                       /\ p[2] = DC => p[1] = RS
  BY <1>1, <1>7 DEF Shape
<1>9. Len(p) > 1 => p[2] # RG
  <2>1. RG \in Lone
    BY DEF Lone, RG
  <2> QED BY <1>7, <2>1 DEF Shape
<1> QED BY <1>1, <1>3, <1>4, <1>5, <1>6, <1>8, <1>9 DEF First

\* A thread whose flag is clear already is not joined.
LEMMA AfterSkip ==
  ASSUME NEW p, Shape(p), p # <<>>, NEW n \in 1..3,
         (p[1] = SH /\ n = 2) \/ (p[1] = SR /\ n = 3),
         NEW q, q = SubSeq(p, n + 1, Len(p))
  PROVE  /\ Shape(q)
         /\ NeedsStub(q) => NeedsStub(p)
         /\ PastHeartbeat(q) /\ p[1] # SH => PastHeartbeat(p)
         /\ PastRealTime(q) /\ p[1] # SR => PastRealTime(p)
         /\ ~First(q, JH) /\ ~First(q, WD) /\ ~First(q, JR) /\ ~First(q, DC) /\ ~First(q, RG)
<1>1. p \in Seq(Steps) /\ Len(p) \in Nat /\ Len(p) > 0 /\ 1 \in 1..Len(p)
  BY LenProperties, EmptySeq DEF Shape
<1>2. /\ n <= Len(p)
      /\ p[1] = SH => p[2] = JH
      /\ p[1] = SR => p[2] = WD /\ p[3] = JR
  BY <1>1, StepsDiffer DEF Shape
<1>3. Drops(p, q, n)
  BY <1>1, <1>2, DropsSteps
<1>4. Shape(q) /\ (NeedsStub(q) => NeedsStub(p))
  BY <1>3, DropKeepsShape, DropKeepsPast
<1>5. PastHeartbeat(q) /\ p[1] # SH => PastHeartbeat(p)
  <2>1. p[1] # SH => \A i \in 1..n : p[i] # JH
    BY <1>2, StepsDiffer
  <2> QED BY <1>3, <2>1, DropKeepsPast
<1>6. PastRealTime(q) /\ p[1] # SR => PastRealTime(p)
  <2>1. p[1] # SR => \A i \in 1..n : p[i] # JR
    BY <1>2, StepsDiffer
  <2> QED BY <1>3, <2>1, DropKeepsPast
<1>7. ASSUME q # <<>> PROVE Head(q) \notin {JH, WD, JR, DC, RG}
  <2>1. q \in Seq(Steps) /\ Len(q) = Len(p) - n /\ \A i \in 1..Len(q) : q[i] = p[i + n]
    BY <1>3 DEF Drops
  <2>2. Len(q) \in Nat /\ Len(q) > 0 /\ Head(q) = q[1]
    BY <1>7, <2>1, LenProperties, EmptySeq, HeadTailProperties
  <2>3. Head(q) = p[n + 1] /\ n + 1 \in 1..Len(p) /\ (n + 1) - 1 = n /\ n + 1 > 1
    BY <1>1, <2>1, <2>2
  <2>4. /\ p[n + 1] = JH => p[n] = SH
        /\ p[n + 1] = WD => p[n] = SR
        /\ p[n + 1] = JR => p[n] = WD
        /\ p[n + 1] = DC => p[n] = RS
    BY <2>3 DEF Shape
  <2>5. p[n] = JH \/ p[n] = JR
    BY <1>2, StepsDiffer
  <2>6. p[n + 1] # RG
    <3>1. RG \in Lone
      BY DEF Lone, RG
    <3> QED BY <2>3, <3>1 DEF Shape
  <2> QED BY <2>3, <2>4, <2>5, <2>6, StepsDiffer
<1> QED BY <1>4, <1>5, <1>6, <1>7 DEF First

LEMMA SkipHeartbeat ==
  ASSUME NEW p, Shape(p), p # <<>>, p[1] = SH,
         NEW q, q = SubSeq(p, 2 + 1, Len(p))
  PROVE  /\ Shape(q)
         /\ NeedsStub(q) => NeedsStub(p)
         /\ PastRealTime(q) => PastRealTime(p)
         /\ ~First(q, JH) /\ ~First(q, WD) /\ ~First(q, JR) /\ ~First(q, DC) /\ ~First(q, RG)
<1> DEFINE n == 2
<1>1. n \in 1..3 /\ p[1] # SR /\ (p[1] = SH /\ n = 2) /\ q = SubSeq(p, n + 1, Len(p))
  BY StepsDiffer
<1> HIDE DEF n
<1>2. (p[1] = SH /\ n = 2) \/ (p[1] = SR /\ n = 3)
  BY <1>1
<1> QED BY <1>1, <1>2, AfterSkip, Zenon

\* The first step itself may rely on what came before it.
LEMMA FirstRelies ==
  ASSUME NEW p, Shape(p), p # <<>>
  PROVE  /\ p[1] \in Lone \cup Unregistering => NeedsStub(p)
         /\ p[1] \in {RS, DC, DS} \cup Unregistering => PastHeartbeat(p)
         /\ p[1] \in {RS, DC, DS} => PastRealTime(p)
         /\ p[1] \in {RS, DC, DS} => ~NeedsStub(p)
<1>1. Len(p) \in Nat /\ Len(p) > 0 /\ 1 \in 1..Len(p) /\ \A j \in 1..1-1 : FALSE
  BY LenProperties, EmptySeq DEF Shape
<1>2. ASSUME p[1] \in {RS, DC, DS}, NeedsStub(p) PROVE FALSE
  <2>1. PICK i \in 1..Len(p) : p[i] \in Lone \cup Unregistering
    BY <1>2 DEF NeedsStub
  <2>2. i # 1
    BY <1>2, <2>1, StepKindsDiffer DEF Stopping
  <2>3. p[i] \in Unregistering
    BY <2>1, <2>2 DEF Shape
  <2>4. p[1] \in {SH, JH}
    BY <1>1, <2>2, <2>3 DEF Shape
  <2> QED BY <1>2, <2>4, StepsDiffer
<1> QED BY <1>1, <1>2 DEF NeedsStub, PastHeartbeat, PastRealTime

-----------------------------------------------------------------------------
(* Every step preserves the invariant                                      *)

LEMMA NowAt ==
  ASSUME Shape(todo), NEW s, At(s)
  PROVE  todo # <<>> /\ todo[1] = s /\ First(todo, s) /\ \A r : First(todo, r) => r = s
<1>1. todo \in Seq(Steps)
  BY DEF Shape
<1> QED BY <1>1, HeadTailProperties DEF At, First

LEMMA NothingLeft ==
  /\ Shape(<<>>) /\ ~NeedsStub(<<>>) /\ ~PastHeartbeat(<<>>) /\ ~PastRealTime(<<>>)
  /\ \A s : ~First(<<>>, s)
<1>1. Len(<<>>) = 0 /\ <<>> \in Seq(Steps)
  OBVIOUS
<1> QED BY <1>1 DEF Shape, NeedsStub, PastHeartbeat, PastRealTime, First

\* What a method that is called leaves to do: nothing in it relies on a join
\* that is not in it.
LEMMA NewSteps ==
  ASSUME NEW p, Shape(p), p # <<>>, p[1] \in Lone \cup {SH, SR}
  PROVE  /\ ~First(p, JH) /\ ~First(p, WD) /\ ~First(p, JR) /\ ~First(p, DC)
         /\ First(p, RG) => p[1] = RG
<1>1. Head(p) = p[1]
  BY HeadTailProperties DEF Shape
<1> QED BY <1>1, StepsDiffer, StepKindsDiffer DEF First, Stopping

LEMMA RegisterDiffers == RG \notin {SH, SR, <<"connected">>, <<"call">>}
BY DEF RG, SH, SR

LEMMA JoinFirst ==
  ASSUME NEW p \in Seq(Steps), First(p, JH)
  PROVE  ~PastHeartbeat(p)
<1>1. p # <<>> /\ p[1] = JH /\ Len(p) \in Nat
  BY HeadTailProperties, LenProperties DEF First
<1>2. ASSUME PastHeartbeat(p) PROVE FALSE
  <2>1. PICK i \in 1..Len(p) : /\ p[i] \in {RS, DC, DS} \cup Unregistering
                              /\ \A j \in 1..i-1 : p[j] # JH
    BY <1>2 DEF PastHeartbeat
  <2>2. i = 1
    BY <1>1, <2>1
  <2>3. JH \in Stopping
    BY DEF Stopping
  <2> QED BY <1>1, <2>1, <2>2, <2>3, StepsDiffer, StepKindsDiffer
<1> QED BY <1>2

LEMMA CallersTyped == Callers \subseteq {"app", "hb", "rt"}
BY DEF Callers

LEMMA ConnectionStep ==
  ASSUME IInv, fate = "alive", Connection
  PROVE  Inv'
<1> USE DEF Inv, IInv, TypeOK, Joined, StubInv, FreshHeartbeat, Bounded, HeartbeatStopped, RealTimeStopped,
            flags, objects
<1>1. CASE connect
  <2>1. Idle /\ todo = <<>>
    BY <1>1 DEF connect, Idle
  <2>2. CASE setupChannel /\ todo' = <<<<"connected">>>> /\ UNCHANGED connected_
    <3>1. <<"connected">> \in Lone
      BY DEF Lone
    <3>2. Shape(todo') /\ ~PastHeartbeat(todo') /\ ~PastRealTime(todo')
          /\ todo' # <<>> /\ todo'[1] \in Lone /\ todo'[1] = <<"connected">>
      BY <2>2, <3>1, SingleShape
    <3>3. /\ ~First(todo', JH) /\ ~First(todo', WD) /\ ~First(todo', JR) /\ ~First(todo', DC)
          /\ ~First(todo', RG)
      BY <3>2, NewSteps, RegisterDiffers
    <3>4. ~First(todo, JH) /\ ~First(todo, WD) /\ ~First(todo, JR)
      BY <2>1, NothingLeft
    <3>5. todo' \in Seq(Steps)
      BY <3>2 DEF Shape
    <3>6. stub_' = TRUE /\ torn' \subseteq {"app", "hb", "rt"}
      BY <2>2, CallersTyped DEF setupChannel
    <3>7. UNCHANGED <<connected_, heartbeat_running, real_time_running_, connection_retry_count_,
                      current_agent_id_, objects, hb, rt, ids, fate, unregistered>>
      BY <1>1, <2>2 DEF connect
    <3> QED BY <3>2, <3>3, <3>4, <3>5, <3>6, <3>7
  <2>3. CASE connected_' = FALSE /\ UNCHANGED <<stub_, torn, todo>>
    BY <1>1, <2>3 DEF connect
  <2> QED BY <1>1, <2>2, <2>3 DEF connect
<1>2. CASE SetConnected
  <2>1. /\ todo # <<>> /\ todo[1] = <<"connected">> /\ todo[1] \in Lone /\ todo' = Tail(todo)
    BY <1>2, NowAt DEF SetConnected, Done, Lone
  <2>2. todo' = <<>> /\ NeedsStub(todo)
    BY <2>1, AfterStep, FirstRelies, StepKindsDiffer
  <2>3. ~First(todo, JH) /\ ~First(todo, WD) /\ ~First(todo, JR)
    BY <2>1, NewSteps
  <2> QED BY <1>2, <2>2, <2>3, NothingLeft, ClientAssumption DEF SetConnected
<1>3. CASE disconnect
  <2>1. todo = <<>> /\ todo' = Disconnecting
    BY <1>3 DEF disconnect, Idle
  <2>2. Shape(todo') /\ ~NeedsStub(todo') /\ ~PastHeartbeat(todo') /\ ~PastRealTime(todo')
        /\ todo' # <<>> /\ todo'[1] = SH
    BY <2>1, DisconnectingShape DEF Closed
  <2>3. /\ ~First(todo', JH) /\ ~First(todo', WD) /\ ~First(todo', JR) /\ ~First(todo', DC)
        /\ ~First(todo', RG)
    BY <2>2, NewSteps, RegisterDiffers
  <2>4. todo' \in Seq(Steps)
    BY <2>2 DEF Shape
  <2> QED BY <1>3, <2>1, <2>2, <2>3, <2>4, NothingLeft DEF disconnect
<1>4. CASE ResetStub
  <2>1. /\ todo # <<>> /\ todo[1] = RS /\ todo' = Tail(todo)
    BY <1>4, NowAt DEF ResetStub, Done, RS
  <2>2. HeartbeatStopped /\ RealTimeStopped /\ ~NeedsStub(todo)
    BY <2>1, FirstRelies
  <2>3. /\ Shape(todo') /\ ~NeedsStub(todo') /\ First(todo', DC)
        /\ ~First(todo', JH) /\ ~First(todo', WD) /\ ~First(todo', JR) /\ ~First(todo', RG)
    BY <2>1, <2>2, AfterStep, StepsDiffer
  <2>4. todo' \in Seq(Steps)
    BY <2>3 DEF Shape
  <2>5. torn' \subseteq {"app", "hb", "rt"}
    BY <1>4, CallersTyped DEF ResetStub
  <2> QED BY <1>4, <2>2, <2>3, <2>4, <2>5 DEF ResetStub
<1>5. CASE SetDisconnected
  <2>1. /\ todo # <<>> /\ todo[1] = DC /\ todo' = Tail(todo)
    BY <1>5, NowAt DEF SetDisconnected, Done, DC
  <2>2. HeartbeatStopped /\ RealTimeStopped /\ ~NeedsStub(todo)
    BY <2>1, FirstRelies
  <2>3. /\ Shape(todo') /\ ~NeedsStub(todo')
        /\ ~First(todo', JH) /\ ~First(todo', WD) /\ ~First(todo', JR) /\ ~First(todo', RG)
    BY <2>1, <2>2, AfterStep, StepsDiffer
  <2>4. todo' \in Seq(Steps)
    BY <2>3 DEF Shape
  <2> QED BY <1>5, <2>2, <2>3, <2>4 DEF SetDisconnected
<1>6. CASE Destroy
  <2>1. todo = <<>>
    BY <1>6 DEF Destroy, Idle
  <2>2. \E p \in {Disconnecting, <<>>} : todo' = Destroying(p)
    <3>1. todo' = Destroying(IF connected_ THEN Disconnecting ELSE <<>>)
      BY <1>6 DEF Destroy, Destroying, DS
    <3>2. CASE connected_
      BY <3>1, <3>2
    <3>3. CASE ~connected_
      BY <3>1, <3>3
    <3> QED BY <3>2, <3>3
  <2>3. Shape(todo') /\ ~NeedsStub(todo') /\ ~PastHeartbeat(todo') /\ ~PastRealTime(todo')
        /\ todo' # <<>> /\ todo'[1] = SH
    BY <2>2, DestroyingShape
  <2>4. /\ ~First(todo', JH) /\ ~First(todo', WD) /\ ~First(todo', JR) /\ ~First(todo', DC)
        /\ ~First(todo', RG)
    BY <2>3, NewSteps, RegisterDiffers
  <2>5. todo' \in Seq(Steps)
    BY <2>3 DEF Shape
  <2> QED BY <1>6, <2>1, <2>3, <2>4, <2>5, NothingLeft DEF Destroy
<1>7. CASE Destroyed
  <2>1. /\ todo # <<>> /\ todo[1] = DS
    BY <1>7, NowAt DEF Destroyed, DS
  <2>2. HeartbeatStopped /\ RealTimeStopped
    BY <2>1, FirstRelies
  <2>3. fate' = "destroyed"
    BY <1>7, <2>2 DEF Destroyed
  <2> QED BY <1>7, <2>3 DEF Destroyed
<1> QED BY <1>1, <1>2, <1>3, <1>4, <1>5, <1>6, <1>7 DEF Connection

LEMMA CallsStep ==
  ASSUME IInv, fate = "alive", Calls
  PROVE  Inv'
<1> USE DEF Inv, IInv, TypeOK, Joined, StubInv, FreshHeartbeat, Bounded, HeartbeatStopped, RealTimeStopped,
            flags, objects, HeartbeatLocations
<1>1. CASE Call
  <2>1. todo = <<>> /\ connected_ /\ stub_
    BY <1>1, NothingLeft DEF Call, Idle
  <2>2. Shape(todo') /\ ~PastHeartbeat(todo') /\ ~PastRealTime(todo')
        /\ todo' # <<>> /\ todo'[1] \in Lone \cup {SH} /\ (todo'[1] = RG => ids < MaxIds)
    <3>1. CASE todo' = <<<<"call">>>>
      BY <3>1, SingleShape, RegisterDiffers DEF Lone
    <3>2. CASE ids < MaxIds /\ todo' = <<<<"register">>>>
      BY <3>2, SingleShape DEF Lone
    <3>3. ASSUME NEW id \in 1..ids, todo' = StopHeartbeat \o <<<<"unregister", id>>>>
          PROVE Shape(todo') /\ ~PastHeartbeat(todo') /\ ~PastRealTime(todo')
                /\ todo' # <<>> /\ todo'[1] = SH
      <4>1. <<"unregister", id>> \in Unregistering
        BY ClientAssumption DEF Unregistering
      <4> QED BY <3>3, <4>1, UnregisterShape
    <3> QED BY <1>1, <3>1, <3>2, <3>3, RegisterDiffers DEF Call
  <2>3. /\ ~First(todo', JH) /\ ~First(todo', WD) /\ ~First(todo', JR) /\ ~First(todo', DC)
        /\ First(todo', RG) => ids < MaxIds
    BY <2>2, NewSteps
  <2>4. todo' \in Seq(Steps)
    BY <2>2 DEF Shape
  <2> QED BY <1>1, <2>1, <2>2, <2>3, <2>4, NothingLeft DEF Call
<1>2. CASE CallReturns
  <2>1. /\ todo # <<>> /\ todo[1] \in Lone /\ todo' = Tail(todo)
    BY <1>2, NowAt DEF CallReturns, Done, Lone
  <2>2. todo' = <<>> /\ NeedsStub(todo)
    BY <2>1, AfterStep, FirstRelies, StepKindsDiffer
  <2>3. ~First(todo, JH) /\ ~First(todo, WD) /\ ~First(todo, JR)
    BY <2>1, NewSteps
  <2> QED BY <1>2, <2>2, <2>3, NothingLeft DEF CallReturns
<1>3. CASE Registered
  <2>1. /\ todo # <<>> /\ todo[1] \in Lone /\ todo' = Tail(todo) /\ ids < MaxIds
    BY <1>3, NowAt DEF Registered, Done, Lone, RG
  <2>2. todo' = <<>> /\ stub_
    BY <2>1, AfterStep, FirstRelies, StepKindsDiffer
  <2>3. ~First(todo, JH) /\ ~First(todo, WD) /\ ~First(todo, JR)
    BY <2>1, NewSteps
  <2>4. UNCHANGED <<connected_, real_time_running_, connection_retry_count_, stub_,
                    real_time_thread_, real_time_stream_, rt, unregistered>>
    BY <1>3 DEF Registered
  <2>5. CASE /\ ids' \in {ids, ids + 1}
             /\ torn' = torn \ {"app"}
             /\ UNCHANGED <<current_agent_id_, heartbeat_running, heartbeat_thread_, hb, fate>>
    <3>1. ids' \in 0..MaxIds /\ current_agent_id_' \in 0..ids' /\ unregistered' \subseteq 1..ids'
      BY <2>1, <2>4, <2>5, ClientAssumption
    <3>2. torn' \subseteq {"app", "hb", "rt"}
      BY <2>5
    <3>3. todo' \in Seq(Steps)
      BY <2>2
    <3>4. /\ First(todo', DC) <=> FALSE
          /\ ~First(todo', JH) /\ ~First(todo', WD) /\ ~First(todo', JR) /\ ~First(todo', RG)
      BY <2>2, NothingLeft
    <3>5. Shape(todo') /\ ~NeedsStub(todo') /\ ~PastHeartbeat(todo') /\ ~PastRealTime(todo')
      BY <2>2, NothingLeft
    <3> QED BY <2>2, <2>3, <2>4, <2>5, <3>1, <3>2, <3>3, <3>4, <3>5
  <2>6. CASE /\ ids' = ids + 1
             /\ current_agent_id_' = ids + 1
             /\ torn' = (torn \ {"app"}) \cup {t \in {"hb"} : hb \in {"checking", "beating"}}
             /\ startHeartbeat
    <3>1. ids' \in 0..MaxIds /\ current_agent_id_' \in 0..ids' /\ unregistered' \subseteq 1..ids'
          /\ current_agent_id_' \notin unregistered'
      BY <2>1, <2>4, <2>6, ClientAssumption
    <3>2. torn' \subseteq {"app", "hb", "rt"}
      BY <2>6
    <3>3. todo' \in Seq(Steps)
      BY <2>2
    <3>4. /\ ~First(todo', JH) /\ ~First(todo', WD) /\ ~First(todo', JR) /\ ~First(todo', RG)
          /\ ~First(todo', DC)
      BY <2>2, NothingLeft
    <3>5. Shape(todo') /\ ~NeedsStub(todo') /\ ~PastHeartbeat(todo') /\ ~PastRealTime(todo')
      BY <2>2, NothingLeft
    <3>6. ~heartbeat_running => hb = "none" /\ ~heartbeat_thread_
      BY <2>3
    <3>7. CASE heartbeat_running
      BY <2>2, <2>3, <2>4, <2>6, <3>1, <3>2, <3>3, <3>4, <3>5, <3>7 DEF startHeartbeat
    <3>8. CASE ~heartbeat_running
      <4>1. heartbeat_running' = TRUE /\ heartbeat_thread_' = TRUE /\ hb' = "testing" /\ fate' = fate
        BY <2>6, <3>6, <3>8 DEF startHeartbeat
      <4> QED BY <2>2, <2>3, <2>4, <3>1, <3>2, <3>3, <3>4, <3>5, <4>1
    <3> QED BY <3>7, <3>8
  <2> QED BY <1>3, <2>5, <2>6 DEF Registered
<1>4. CASE Unregistered
  <2>1. PICK id \in 1..ids : /\ At(<<"unregister", id>>)
                             /\ unregistered' \in {unregistered, unregistered \cup {id}}
    BY <1>4 DEF Unregistered
  <2>2. /\ todo # <<>> /\ todo[1] = <<"unregister", id>> /\ todo' = Tail(todo)
    BY <1>4, <2>1, NowAt DEF Unregistered, Done
  <2>3. todo[1] \in Unregistering
    BY <2>2, ClientAssumption DEF Unregistering
  <2>4. todo' = <<>> /\ HeartbeatStopped
    BY <2>2, <2>3, AfterStep, FirstRelies, StepKindsDiffer
  <2>5. ~First(todo, JH) /\ ~First(todo, WD) /\ ~First(todo, JR) /\ ~First(todo, DC)
    BY <2>1, <2>3, NowAt, StepKindsDiffer DEF Stopping
  <2>6. unregistered' \subseteq 1..ids
    BY <2>1
  <2> QED BY <1>4, <2>4, <2>5, <2>6, NothingLeft DEF Unregistered
<1>5. CASE ClearHeartbeatRunning
  <2>1. /\ todo # <<>> /\ todo[1] = SH /\ First(todo, SH)
    BY <1>5, NowAt DEF ClearHeartbeatRunning, SH
  <2>2. ~First(todo, JH) /\ ~First(todo, WD) /\ ~First(todo, JR) /\ ~First(todo, DC)
    BY <2>1, NewSteps
  <2>3. CASE heartbeat_running
    <3>1. todo' = Tail(todo) /\ heartbeat_running' = FALSE
      BY <1>5, <2>3 DEF ClearHeartbeatRunning, Done
    <3>2. Shape(todo') /\ (NeedsStub(todo') => NeedsStub(todo)) /\ First(todo', JH)
          /\ (PastRealTime(todo') => PastRealTime(todo))
          /\ ~First(todo', WD) /\ ~First(todo', JR) /\ ~First(todo', DC) /\ ~First(todo', RG)
      BY <2>1, <3>1, AfterStep, StepsDiffer
    <3>3. ~PastHeartbeat(todo')
      BY <2>1, <2>3, <3>1, AfterStep, StepsDiffer, JoinFirst
    <3>4. todo' \in Seq(Steps)
      BY <3>2 DEF Shape
    <3> QED BY <1>5, <2>2, <3>1, <3>2, <3>3, <3>4 DEF ClearHeartbeatRunning
  <2>4. CASE ~heartbeat_running
    <3>1. todo' = SubSeq(todo, 2 + 1, Len(todo)) /\ heartbeat_running' = FALSE
      BY <1>5, <2>4 DEF ClearHeartbeatRunning, Skip
    <3>2. hb = "none"
      BY <2>2, <2>4
    <3>4. Shape(todo') /\ (NeedsStub(todo') => NeedsStub(todo))
          /\ (PastRealTime(todo') => PastRealTime(todo))
          /\ ~First(todo', JH) /\ ~First(todo', WD) /\ ~First(todo', JR) /\ ~First(todo', DC) /\ ~First(todo', RG)
      BY <2>1, <3>1, SkipHeartbeat
    <3>5. todo' \in Seq(Steps)
      BY <3>4 DEF Shape
    <3> QED BY <1>5, <2>2, <3>1, <3>2, <3>4, <3>5 DEF ClearHeartbeatRunning
  <2> QED BY <2>3, <2>4
<1>6. CASE JoinHeartbeat
  <2>1. /\ todo # <<>> /\ todo[1] = JH /\ First(todo, JH) /\ todo' = Tail(todo)
    BY <1>6, NowAt DEF JoinHeartbeat, JH, Done
  <2>2. ~First(todo, WD) /\ ~First(todo, JR) /\ ~First(todo, DC) /\ ~heartbeat_running
    BY <1>6, <2>1, NowAt, StepsDiffer DEF First
  <2>3. Shape(todo') /\ (NeedsStub(todo') => NeedsStub(todo))
        /\ (PastRealTime(todo') => PastRealTime(todo))
        /\ ~First(todo', JH) /\ ~First(todo', WD) /\ ~First(todo', JR) /\ ~First(todo', DC) /\ ~First(todo', RG)
    BY <2>1, AfterStep, StepsDiffer
  <2>4. todo' \in Seq(Steps)
    BY <2>3 DEF Shape
  <2> QED BY <1>6, <2>1, <2>2, <2>3, <2>4 DEF JoinHeartbeat
<1> QED BY <1>1, <1>2, <1>3, <1>4, <1>5, <1>6 DEF Calls

LEMMA RealTimeStep ==
  ASSUME IInv, fate = "alive", RealTime
  PROVE  Inv'
<1> USE DEF Inv, IInv, TypeOK, Joined, StubInv, FreshHeartbeat, Bounded, HeartbeatStopped, RealTimeStopped,
            flags, objects, RealTimeLocations
<1>1. CASE startRealTimeCommunication
  <2>1. todo = <<>> /\ rt = "none"
    BY <1>1, NothingLeft DEF startRealTimeCommunication, Idle
  <2>2. todo' = <<>>
    BY <1>1, <2>1 DEF startRealTimeCommunication
  <2>3. rt' \in {"unready", "opening"} /\ (rt' = "opening" => stub_)
    BY <1>1, <2>1 DEF startRealTimeCommunication
  <2> QED BY <1>1, <2>1, <2>2, <2>3, NothingLeft DEF startRealTimeCommunication
<1>2. CASE stopRealTimeCommunication
  <2>1. todo = <<>> /\ todo' = StopRealTime
    BY <1>2 DEF stopRealTimeCommunication, Idle
  <2>2. Shape(todo') /\ ~NeedsStub(todo') /\ ~PastHeartbeat(todo') /\ ~PastRealTime(todo')
        /\ todo' # <<>> /\ todo'[1] = SR
    BY <2>1, StopRealTimeShape DEF Closed
  <2>3. /\ ~First(todo', JH) /\ ~First(todo', WD) /\ ~First(todo', JR) /\ ~First(todo', DC)
        /\ ~First(todo', RG)
    BY <2>2, NewSteps, RegisterDiffers
  <2>4. todo' \in Seq(Steps)
    BY <2>2 DEF Shape
  <2> QED BY <1>2, <2>1, <2>2, <2>3, <2>4, NothingLeft DEF stopRealTimeCommunication
<1>3. CASE ClearRealTimeRunning
  <2>1. /\ todo # <<>> /\ todo[1] = SR /\ First(todo, SR)
    BY <1>3, NowAt DEF ClearRealTimeRunning, SR
  <2>2. ~First(todo, JH) /\ ~First(todo, WD) /\ ~First(todo, JR) /\ ~First(todo, DC)
    BY <2>1, NewSteps
  <2>3. CASE real_time_running_
    <3>1. todo' = Tail(todo) /\ real_time_running_' = FALSE
      BY <1>3, <2>3 DEF ClearRealTimeRunning, Done
    <3>2. Shape(todo') /\ (NeedsStub(todo') => NeedsStub(todo)) /\ First(todo', WD)
          /\ (PastHeartbeat(todo') => PastHeartbeat(todo))
          /\ (PastRealTime(todo') => PastRealTime(todo))
          /\ ~First(todo', JH) /\ ~First(todo', JR) /\ ~First(todo', DC) /\ ~First(todo', RG)
      BY <2>1, <3>1, AfterStep, StepsDiffer
    <3>4. todo' \in Seq(Steps)
      BY <3>2 DEF Shape
    <3> QED BY <1>3, <2>2, <2>3, <3>1, <3>2, <3>4 DEF ClearRealTimeRunning
  <2>4. CASE ~real_time_running_
    <3>1. todo' = SubSeq(todo, 3 + 1, Len(todo)) /\ real_time_running_' = FALSE
      BY <1>3, <2>4 DEF ClearRealTimeRunning, Skip
    <3>2. rt = "none"
      BY <2>2, <2>4
    <3>3. 3 \in 1..3
      OBVIOUS
    <3>4. Shape(todo') /\ (NeedsStub(todo') => NeedsStub(todo))
          /\ (PastHeartbeat(todo') => PastHeartbeat(todo))
          /\ ~First(todo', JH) /\ ~First(todo', WD) /\ ~First(todo', JR) /\ ~First(todo', DC) /\ ~First(todo', RG)
      BY <2>1, <3>1, <3>3, AfterSkip, StepsDiffer
    <3>5. todo' \in Seq(Steps)
      BY <3>4 DEF Shape
    <3> QED BY <1>3, <2>2, <3>1, <3>2, <3>4, <3>5 DEF ClearRealTimeRunning
  <2> QED BY <2>3, <2>4
<1>4. CASE WritesDone
  <2>1. /\ todo # <<>> /\ todo[1] = WD /\ First(todo, WD) /\ todo' = Tail(todo)
    BY <1>4, NowAt DEF WritesDone, WD, Done
  <2>2. ~First(todo, JH) /\ ~First(todo, JR) /\ ~First(todo, DC) /\ ~real_time_running_
    BY <1>4, <2>1, NowAt, StepsDiffer DEF First
  <2>3. Shape(todo') /\ (NeedsStub(todo') => NeedsStub(todo)) /\ First(todo', JR)
        /\ (PastHeartbeat(todo') => PastHeartbeat(todo))
        /\ (PastRealTime(todo') => PastRealTime(todo))
        /\ ~First(todo', JH) /\ ~First(todo', WD) /\ ~First(todo', DC) /\ ~First(todo', RG)
    BY <2>1, AfterStep, StepsDiffer
  <2>4. todo' \in Seq(Steps)
    BY <2>3 DEF Shape
  <2> QED BY <1>4, <2>2, <2>3, <2>4 DEF WritesDone
<1>5. CASE JoinRealTime
  <2>1. /\ todo # <<>> /\ todo[1] = JR /\ First(todo, JR) /\ todo' = Tail(todo)
    BY <1>5, NowAt DEF JoinRealTime, JR, Done
  <2>2. ~First(todo, JH) /\ ~First(todo, WD) /\ ~First(todo, DC) /\ ~real_time_running_
    BY <1>5, <2>1, NowAt, StepsDiffer DEF First
  <2>3. Shape(todo') /\ (NeedsStub(todo') => NeedsStub(todo))
        /\ (PastHeartbeat(todo') => PastHeartbeat(todo))
        /\ ~First(todo', JH) /\ ~First(todo', WD) /\ ~First(todo', JR) /\ ~First(todo', DC) /\ ~First(todo', RG)
    BY <2>1, AfterStep, StepsDiffer
  <2>4. todo' \in Seq(Steps)
    BY <2>3 DEF Shape
  <2> QED BY <1>5, <2>2, <2>3, <2>4 DEF JoinRealTime
<1>6. CASE OpenStream
  BY <1>6 DEF OpenStream, rtOnly
<1>7. CASE TestRealTime
  BY <1>7 DEF TestRealTime, rtOnly
<1>8. CASE ReadStream
  BY <1>8 DEF ReadStream, rtOnly
<1>9. CASE FinishStream
  BY <1>9 DEF FinishStream, rtOnly
<1>10. CASE StreamEnds
  BY <1>10 DEF StreamEnds, rtOnly
<1>11. CASE NoStub
  BY <1>11 DEF NoStub
<1> QED BY <1>1, <1>2, <1>3, <1>4, <1>5, <1>6, <1>7, <1>8, <1>9, <1>10, <1>11
        DEF RealTime, realTimeCommuncationLoop

\* The heartbeat runs beside the application's thread, whatever that is doing:
\* it has neither the todo nor the thread objects.
LEMMA HeartbeatStep ==
  ASSUME IInv, fate = "alive", heartbeatLoop
  PROVE  Inv'
<1> USE DEF Inv, IInv, TypeOK, Joined, StubInv, FreshHeartbeat, Bounded, HeartbeatStopped, RealTimeStopped,
            objects, hbOnly, HeartbeatLocations
<1>0. First(todo, DC) => hb = "none"
  <2>1. ASSUME First(todo, DC) PROVE PastHeartbeat(todo)
    <3>1. todo # <<>> /\ todo[1] = DC
      BY <2>1, HeadTailProperties DEF First
    <3> QED BY <3>1, FirstRelies
  <2> QED BY <2>1
<1>1. CASE TestHeartbeat
  BY <1>1 DEF TestHeartbeat
<1>2. CASE CheckHeartbeat
  BY <1>0, <1>2 DEF CheckHeartbeat
<1>3. CASE sendHeartbeat
  BY <1>3 DEF sendHeartbeat
<1>4. CASE HeartbeatFailed
  BY <1>4 DEF HeartbeatFailed
<1>5. CASE ReconnectFails
  BY <1>5, ClientAssumption DEF ReconnectFails
<1>6. CASE Reconnect
  BY <1>6, CallersTyped DEF Reconnect, setupChannel
<1>7. CASE Restore
  BY <1>7, ClientAssumption DEF Restore
<1> QED BY <1>1, <1>2, <1>3, <1>4, <1>5, <1>6, <1>7 DEF heartbeatLoop

-----------------------------------------------------------------------------
(* Theorems                                                                *)

LEMMA InvHolds == Spec => []Inv
<1>1. Init => Inv
  <2> SUFFICES ASSUME Init PROVE Inv
    OBVIOUS
  <2>1. TypeOK
    <3>1. todo \in Seq(Steps)
      BY DEF Init
    <3>2. heartbeat_thread_ = (hb # "none") /\ real_time_thread_ = (rt # "none")
      BY Zenon DEF Init
    <3>3. connection_retry_count_ \in 0..MAX_RETRY_COUNT /\ ids \in 0..MaxIds
      BY ClientAssumption DEF Init
    <3>4. current_agent_id_ \in 0..ids /\ unregistered \subseteq 1..ids
      BY DEF Init
    <3> QED BY <3>1, <3>2, <3>3, <3>4
            DEF Init, TypeOK, HeartbeatLocations, RealTimeLocations
  <2>2. /\ Shape(todo) /\ ~NeedsStub(todo) /\ ~PastHeartbeat(todo) /\ ~PastRealTime(todo)
        /\ \A s : ~First(todo, s)
    BY NothingLeft DEF Init
  <2> QED BY <2>1, <2>2 DEF Init, Inv, IInv, Joined, StubInv, FreshHeartbeat, Bounded
<1>2. Inv /\ [Next]_vars => Inv'
  <2> SUFFICES ASSUME Inv, [Next]_vars PROVE Inv'
    OBVIOUS
  <2>1. CASE UNCHANGED vars
    BY <2>1 DEF vars, flags, objects, Inv, IInv, TypeOK, Joined, StubInv, FreshHeartbeat, Bounded,
                HeartbeatStopped, RealTimeStopped
  <2>2. CASE Next /\ Crash
    BY <2>2 DEF Crash, flags, objects, Inv, IInv, TypeOK, Joined, StubInv, FreshHeartbeat, Bounded,
                HeartbeatStopped, RealTimeStopped
  <2> QED BY <2>1, <2>2, ConnectionStep, CallsStep, RealTimeStep, HeartbeatStep DEF Next, Inv
<1> QED BY <1>1, <1>2, PTL DEF Spec

\* The variables have their types, each std::thread is joinable exactly while
\* its loop has not been joined, and the process is never terminated: whatever
\* the order of registering, unregistering, connecting, failing heartbeats and
\* destroying, no joinable thread object is assigned to or destroyed.
THEOREM NeverTerminatedHolds == Spec => []NeverTerminated
<1>1. Inv => NeverTerminated
  BY DEF Inv, IInv, NeverTerminated
<1> QED BY <1>1, InvHolds, PTL

\* Whoever is in a call through stub_ finds one there, unless it is a real-time
\* session that was started without one.
THEOREM StubExistsHolds == Spec => []StubExists
<1>1. ASSUME Inv, NEW t \in Callers, t # "rt" \/ rt = "opening" PROVE stub_
  <2>1. CASE ~Idle /\ Head(todo)[1] \in {"call", "register", "unregister"}
    <3>1. todo # <<>> /\ Shape(todo) /\ todo \in Seq(Steps) /\ Head(todo) \in Steps
          /\ Head(todo) = todo[1]
      BY <1>1, <2>1, HeadTailProperties DEF Idle, Inv, IInv, Shape
    <3>2. \A s \in Stopping \cup {DS} : s[1] \notin {"call", "register", "unregister"}
      <4>1. /\ SH[1] = "stop heartbeat" /\ JH[1] = "join heartbeat" /\ SR[1] = "stop real time"
            /\ WD[1] = "writes done" /\ JR[1] = "join real time" /\ RS[1] = "reset stub"
            /\ DC[1] = "disconnected" /\ DS[1] = "destroyed"
        BY DEF SH, JH, SR, WD, JR, RS, DC, DS
      <4> QED BY <4>1 DEF Stopping
    <3>3. todo[1] \in Lone \cup Unregistering
      BY <2>1, <3>1, <3>2, StepKindsDiffer
    <3> QED BY <1>1, <3>1, <3>3, FirstRelies DEF Inv, IInv, StubInv
  <2>2. CASE hb = "beating" \/ rt = "opening"
    BY <1>1, <2>2 DEF Inv, IInv, StubInv
  <2> QED BY <1>1, <2>1, <2>2 DEF Callers
<1>2. Inv => StubExists
  <2>1. Callers \subseteq {"app", "hb", "rt"} /\ (rt = "opening" => "rt" \in Callers)
    BY DEF Callers
  <2> QED BY <1>1, <2>1 DEF StubExists
<1> QED BY <1>2, InvHolds, PTL

\* No heartbeat is sent for an id that has been taken back from the server.
THEOREM NoLateHeartbeatHolds == Spec => []NoLateHeartbeat
<1>1. Inv => NoLateHeartbeat
  BY DEF Inv, IInv, FreshHeartbeat, NoLateHeartbeat
<1> QED BY <1>1, InvHolds, PTL

-----------------------------------------------------------------------------
(* The circuit breaker.                                                    *)

\* What the thread in its increments holds is still covered by the total, and
\* the statistics are cleared only while the breaker is not open.
Registers ==
  \A c \in Threads :
    /\ pc[c] = "incrementing" =>
         IF outcome[c] = "success" THEN loaded[c] + failed <= total
                                   ELSE loaded[c] + successful <= total
    /\ pc[c] = "totalling" => successful + failed <= total + 1
    /\ pc[c] \notin {"incrementing", "totalling"} =>
         (owner = c => successful + failed <= total)
    /\ pc[c] = "tripping" => total >= min_request_count
    /\ pc[c] = "clearing" => state # "OPEN"

BreakerInv ==
  /\ BreakerTypeOK
  /\ OpenNeedsRequests
  /\ owner = Free => successful + failed <= total
  /\ Registers

LEMMA InitBreaker == BreakerInit => BreakerInv
<1> SUFFICES ASSUME BreakerInit PROVE BreakerInv
  OBVIOUS
<1>1. elapsed \in BOOLEAN
  BY Zenon DEF BreakerInit
<1> QED
  BY <1>1, ConfigAssumption
  DEF ConfigAssumption, BreakerInit, BreakerInv, BreakerTypeOK,
      OpenNeedsRequests, Registers, States, Locations, Locked

LEMMA AskInv ==
  ASSUME BreakerInv, NEW c \in Threads,
         isRequestAllowed(c) \/ HalfOpenState(c) \/ execute(c)
  PROVE  BreakerInv'
<1> USE ConfigAssumption
        DEF ConfigAssumption, BreakerInv, BreakerTypeOK, OpenNeedsRequests, Registers,
            States, Locations, Locked, Goto, stats
<1>1. CASE isRequestAllowed(c) BY <1>1 DEF isRequestAllowed
<1>2. CASE HalfOpenState(c)    BY <1>2 DEF HalfOpenState
<1>3. CASE execute(c)          BY <1>3 DEF execute
<1> QED BY <1>1, <1>2, <1>3

LEMMA HalvingInv ==
  ASSUME BreakerInv, NEW c \in Threads, HalfOpenFailed(c) \/ HalfOpenSuccessful(c)
  PROVE  BreakerInv'
<1> USE ConfigAssumption
        DEF ConfigAssumption, BreakerInv, BreakerTypeOK, OpenNeedsRequests, Registers,
            States, Locations, Locked, Goto, stats
<1>1. CASE HalfOpenFailed(c)
  <2>1. elapsed' \in BOOLEAN BY <1>1, Zenon DEF HalfOpenFailed
  <2> QED BY <1>1, <2>1 DEF HalfOpenFailed
<1>2. CASE HalfOpenSuccessful(c) BY <1>2 DEF HalfOpenSuccessful
<1> QED BY <1>1, <1>2

LEMMA ReportInv ==
  ASSUME BreakerInv, NEW c \in Threads, LoadCounter(c) \/ StoreOutcome(c) \/ StoreTotal(c)
  PROVE  BreakerInv'
<1> USE ConfigAssumption
        DEF ConfigAssumption, BreakerInv, BreakerTypeOK, OpenNeedsRequests, Registers,
            States, Locations, Locked, Goto, stats
<1>1. CASE LoadCounter(c)  BY <1>1 DEF LoadCounter
<1>2. CASE StoreOutcome(c) BY <1>2 DEF StoreOutcome
<1>3. CASE StoreTotal(c)   BY <1>3 DEF StoreTotal
<1> QED BY <1>1, <1>2, <1>3

LEMMA JudgeInv ==
  ASSUME BreakerInv, NEW c \in Threads, Judge(c) \/ Trip(c) \/ Close(c)
  PROVE  BreakerInv'
<1> USE ConfigAssumption
        DEF ConfigAssumption, BreakerInv, BreakerTypeOK, OpenNeedsRequests, Registers,
            States, Locations, Locked, Goto, Unlock, stats
<1>1. CASE Judge(c)
  <2>1. CASE RateTooHigh /\ state' = "OPEN"
    <3>1. total >= min_request_count BY <2>1 DEF RateTooHigh
    <3> QED BY <1>1, <2>1, <3>1 DEF Judge
  <2>2. CASE ~RateTooHigh
    BY <1>1, <2>2 DEF Judge
  <2> QED BY <1>1, <2>1, <2>2 DEF Judge
<1>2. CASE Trip(c)  BY <1>2 DEF Trip
<1>3. CASE Close(c) BY <1>3 DEF Close
<1> QED BY <1>1, <1>2, <1>3

LEMMA ResetInv ==
  ASSUME BreakerInv, NEW c \in Threads, Clear(c) \/ reset(c) \/ ResetState(c)
  PROVE  BreakerInv'
<1> USE ConfigAssumption
        DEF ConfigAssumption, BreakerInv, BreakerTypeOK, OpenNeedsRequests, Registers,
            States, Locations, Locked, Goto, Unlock, ResetStats, stats
<1>1. CASE Clear(c)
  <2>1. elapsed' \in BOOLEAN BY <1>1, Zenon DEF Clear
  <2> QED BY <1>1, <2>1 DEF Clear
<1>2. CASE reset(c)      BY <1>2 DEF reset
<1>3. CASE ResetState(c) BY <1>3 DEF ResetState
<1> QED BY <1>1, <1>2, <1>3

LEMMA BreakerStep == BreakerInv /\ [BreakerNext]_breakerVars => BreakerInv'
<1> SUFFICES ASSUME BreakerInv, [BreakerNext]_breakerVars PROVE BreakerInv'
  OBVIOUS
<1>1. ASSUME NEW c \in Threads, Proceed(c) \/ reset(c) PROVE BreakerInv'
  BY <1>1, AskInv, HalvingInv, ReportInv, JudgeInv, ResetInv DEF Proceed
<1>2. CASE TimeoutElapses
  BY <1>2 DEF TimeoutElapses, BreakerInv, BreakerTypeOK, OpenNeedsRequests, Registers, stats
<1>3. CASE UNCHANGED breakerVars
  BY <1>3 DEF breakerVars, stats, BreakerInv, BreakerTypeOK, OpenNeedsRequests, Registers
<1> QED BY <1>1, <1>2, <1>3 DEF BreakerNext

THEOREM BreakerInvariance == BreakerSpec => []BreakerInv
  BY InitBreaker, BreakerStep, PTL DEF BreakerSpec

\* The variables stay in their types; stats_mutex_ is held exactly by the
\* thread that is in a report or in a reset.
THEOREM BreakerTypeCorrect == BreakerSpec => []BreakerTypeOK
  BY BreakerInvariance, PTL DEF BreakerInv

\* Whenever nobody holds stats_mutex_, and when a report is judged, there are no
\* more outcomes than requests, whatever the unlocked clears race with.
THEOREM CountedHolds == BreakerSpec => []Counted
<1>1. BreakerInv => Counted
  BY DEF BreakerInv, BreakerTypeOK, Registers, Counted, Locked
<1> QED
  BY <1>1, BreakerInvariance, PTL

\* An open breaker has counted min_request_count requests, but for the moment
\* between the two stores of a reset.
THEOREM OpenNeedsRequestsHolds == BreakerSpec => []OpenNeedsRequests
  BY BreakerInvariance, PTL DEF BreakerInv

=============================================================================
