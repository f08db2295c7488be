------------------------ MODULE RestoreReconcile_proofs ------------------------
(***************************************************************************)
(* How often RestoreReconcile sends a task and what its patches do to the  *)
(* list of node sets, for any number of RestoreTasks and requests, any     *)
(* sizes and any bound on the events.                                      *)
(***************************************************************************)
EXTENDS RestoreReconcile, SequenceTheorems, WellFoundedInduction, TLAPS

(* A send takes back the claim of the Reconcile that makes it, a requeue    *)
(* passes the claim on to the workqueue, and a claim is born only with an   *)
(* event.  Whoever reconciles reconciles a RestoreTask.                     *)
CountTypes ==
  /\ exists \in SUBSET Tasks
  /\ work \in SUBSET Tasks
  /\ current \in Tasks \cup {NoTask}
  /\ at # "none" => current \in Tasks
  /\ events \in [Tasks -> Nat]
  /\ sent \in [Tasks -> Nat]

CountInv == CountTypes /\ SendsPaidByEvents

(* The value for no RestoreTask is none.                                    *)
LEMMA NoTaskIsNone == NoTask \notin Tasks
BY ConstantsAssumption

(* Claims are natural numbers.                                              *)
LEMMA ClaimIsNat == ASSUME NEW t PROVE Claim(t) \in 0..2 /\ Claim(t)' \in 0..2
BY DEF Claim

(* Before the first event nothing is claimed and nothing is sent.           *)
THEOREM CountInit == Init => CountInv
<1> SUFFICES ASSUME Init PROVE CountInv
  OBVIOUS
<1>1. CountTypes
  BY DEF Init, CountTypes
<1>2. ASSUME NEW t \in Tasks PROVE sent[t] + Claim(t) <= events[t]
  <2>1. sent[t] = 0 /\ events[t] = 0
    BY DEF Init
  <2>2. Claim(t) = 0
    BY NoTaskIsNone DEF Init, Claim
  <2> QED
    BY <2>1, <2>2
<1> QED
  BY <1>1, <1>2 DEF CountInv, SendsPaidByEvents

(* Steps that leave the workqueue, the sends and the events alone.          *)
LEMMA Bystanders ==
  ASSUME CountInv, UNCHANGED <<exists, work, current, events, sent>>,
         at' = at \/ current \in Tasks
  PROVE  CountInv'
BY DEF CountInv, CountTypes, SendsPaidByEvents, Claim

(* An event brings a claim and pays for it.                                 *)
LEMMA EventPays ==
  ASSUME CountInv, NEW t \in Tasks, Event(t), exists' \in SUBSET Tasks
  PROVE  CountInv'
<1>1. CountTypes'
  BY DEF CountInv, CountTypes, Event, reconcileVars
<1>2. ASSUME NEW u \in Tasks PROVE (sent[u] + Claim(u) <= events[u])'
  <2>1. sent[u] + Claim(u) <= events[u] /\ sent[u] \in Nat /\ events[u] \in Nat
    BY DEF CountInv, CountTypes, SendsPaidByEvents
  <2>2. CASE u = t
    <3>1. Claim(u)' <= Claim(u) + 1
      BY DEF Event, reconcileVars, Claim
    <3>2. events'[u] = events[u] + 1 /\ sent'[u] = sent[u]
      BY <2>2 DEF CountInv, CountTypes, Event
    <3> QED
      BY <2>1, <3>1, <3>2, ClaimIsNat
  <2>3. CASE u # t
    <3>1. Claim(u)' = Claim(u)
      BY <2>3 DEF Event, reconcileVars, Claim
    <3>2. events'[u] = events[u] /\ sent'[u] = sent[u]
      BY <2>3 DEF CountInv, CountTypes, Event
    <3> QED
      BY <2>1, <3>1, <3>2
  <2> QED
    BY <2>2, <2>3
<1> QED
  BY <1>1, <1>2 DEF CountInv, SendsPaidByEvents

(* The workqueue passes its claim to Reconcile.                             *)
LEMMA BeginPasses ==
  ASSUME CountInv, NEW t \in Tasks, Begin(t)
  PROVE  CountInv'
<1>1. CountTypes'
  BY DEF CountInv, CountTypes, Begin
<1>2. \A u \in Tasks : Claim(u)' = Claim(u)
  BY NoTaskIsNone DEF CountInv, CountTypes, Begin, Claim
<1>3. UNCHANGED <<sent, events>>
  BY DEF Begin
<1> QED
  BY <1>1, <1>2, <1>3 DEF CountInv, SendsPaidByEvents

(* Reconcile returns: its claim is dropped, or goes back to the workqueue.  *)
LEMMA ReturnPasses ==
  ASSUME CountInv, current \in Tasks, Forget \/ Requeue,
         UNCHANGED <<exists, events, sent>>
  PROVE  CountInv'
<1>1. CountTypes'
  BY DEF CountInv, CountTypes, Forget, Requeue, Return
<1>2. ASSUME NEW u \in Tasks PROVE (sent[u] + Claim(u) <= events[u])'
  <2>1. sent[u] + Claim(u) <= events[u] /\ sent[u] \in Nat /\ events[u] \in Nat
    BY DEF CountInv, CountTypes, SendsPaidByEvents
  <2>2. Claim(u)' <= Claim(u)
    BY NoTaskIsNone DEF Forget, Requeue, Return, Claim
  <2> QED
    BY <2>1, <2>2, ClaimIsNat
<1> QED
  BY <1>1, <1>2 DEF CountInv, SendsPaidByEvents

(* A send counts once and drops the claim it was made on.                   *)
LEMMA SendSpends == ASSUME CountInv, Send PROVE CountInv'
<1>0. current \in Tasks
  BY DEF CountInv, CountTypes, Send
<1>1. CountTypes'
  BY <1>0 DEF CountInv, CountTypes, Send, Forget, Return
<1>2. ASSUME NEW u \in Tasks PROVE (sent[u] + Claim(u) <= events[u])'
  <2>1. sent[u] + Claim(u) <= events[u] /\ sent[u] \in Nat /\ events[u] \in Nat
    BY DEF CountInv, CountTypes, SendsPaidByEvents
  <2>2. CASE u = current
    <3>1. Claim(u)' + 1 = Claim(u)
      BY <2>2, NoTaskIsNone DEF Send, Forget, Return, Claim
    <3>2. sent'[u] = sent[u] + 1 /\ events'[u] = events[u]
      BY <2>2 DEF CountInv, CountTypes, Send
    <3> QED
      BY <2>1, <3>1, <3>2, ClaimIsNat
  <2>3. CASE u # current
    <3>1. Claim(u)' = Claim(u)
      BY <2>3, NoTaskIsNone DEF Send, Forget, Return, Claim
    <3>2. sent'[u] = sent[u] /\ events'[u] = events[u]
      BY <2>3 DEF CountInv, CountTypes, Send
    <3> QED
      BY <2>1, <3>1, <3>2
  <2> QED
    BY <2>2, <2>3
<1> QED
  BY <1>1, <1>2 DEF CountInv, SendsPaidByEvents

(* The steps of Reconcile keep or pass on its claim.                        *)
LEMMA ReconcilePreserves == ASSUME CountInv, Reconcile PROVE CountInv'
<1>0. current \in Tasks \/ at = "none"
  BY DEF CountInv, CountTypes
<1>1. CASE Send
  BY <1>1, SendSpends
<1>2. CASE GetTask \/ UpdateTask \/ NodeMissing \/ NodeFound \/ PatchES \/ GetSts
  <2>1. current \in Tasks
    BY <1>0, <1>2 DEF GetTask, UpdateTask, NodeMissing, NodeFound, PatchES, GetSts
  <2>2. UNCHANGED <<exists, events, sent>>
    BY <1>2 DEF GetTask, UpdateTask, NodeMissing, NodeFound, PatchES, GetSts, outside
  <2>3. Forget \/ Requeue \/ UNCHANGED <<current, work>>
    BY <1>2 DEF GetTask, UpdateTask, NodeMissing, NodeFound, PatchES, GetSts, Continue
  <2> QED
    BY <2>1, <2>2, <2>3, ReturnPasses, Bystanders
<1> QED
  BY <1>1, <1>2 DEF Reconcile

(* The restart is an event of every RestoreTask there is, and the claims of *)
(* the old process are gone.                                                *)
LEMMA RestartPays == ASSUME CountInv, Restart PROVE CountInv'
<1>1. CountTypes'
  BY DEF CountInv, CountTypes, Restart, Return
<1>2. ASSUME NEW u \in Tasks PROVE (sent[u] + Claim(u) <= events[u])'
  <2>1. sent[u] + Claim(u) <= events[u] /\ sent[u] \in Nat /\ events[u] \in Nat
    BY DEF CountInv, CountTypes, SendsPaidByEvents
  <2>2. Claim(u)' = IF u \in exists THEN 1 ELSE 0
    BY NoTaskIsNone DEF Restart, Return, Claim
  <2>3. /\ sent'[u] = sent[u]
        /\ events'[u] = IF u \in exists THEN events[u] + 1 ELSE events[u]
    BY DEF Restart
  <2> QED
    BY <2>1, <2>2, <2>3, ClaimIsNat
<1> QED
  BY <1>1, <1>2 DEF CountInv, SendsPaidByEvents

(* The invariant is inductive.                                              *)
THEOREM CountStep == CountInv /\ [Next]_vars => CountInv'
<1> SUFFICES ASSUME CountInv, [Next]_vars PROVE CountInv'
  OBVIOUS
<1>1. ASSUME NEW t \in Tasks, Created(t) \/ Deleted(t) \/ SpecChanged(t) PROVE CountInv'
  <2>1. Event(t) /\ exists' \in SUBSET Tasks
    BY <1>1 DEF Created, Deleted, SpecChanged, CountInv, CountTypes
  <2> QED
    BY <2>1, EventPays
<1>2. ASSUME NEW t \in Tasks, Begin(t) PROVE CountInv'
  BY <1>2, BeginPasses
<1>3. CASE Reconcile
  BY <1>3, ReconcilePreserves
<1>4. CASE (\E q \in Requests : HandlerStep(q)) \/ (\E n \in TaskNodes : Operator(n))
             \/ CacheSyncs \/ UNCHANGED vars
  <2>1. UNCHANGED <<exists, work, current, at, events, sent>>
    BY <1>4 DEF HandlerStep, RequestArrives, RequestGets, RequestPatches, besideRequests,
                Operator, StsAppears, StsReady, StsUnready, StsRemoved, StsBecomes,
                CacheSyncs, queueVars, reconcileVars, vars
  <2> QED
    BY <2>1, Bystanders
<1>5. CASE Restart
  BY <1>5, RestartPays
<1> QED
  BY <1>1, <1>2, <1>3, <1>4, <1>5 DEF Next

(* Claims and sends never exceed the events at any moment.                  *)
THEOREM CountHolds == Spec => []CountInv
BY CountInit, CountStep, PTL DEF Spec

(* Reconcile sends a RestoreTask to the workers at most once for each       *)
(* creation, change, deletion or restart of the process (SendsPaidByEvents).*)
THEOREM SendsArePaid == Spec => []SendsPaidByEvents
<1>1. CountInv => SendsPaidByEvents
  BY DEF CountInv
<1> QED
  BY <1>1, CountHolds, PTL

-----------------------------------------------------------------------------
(* The loop of DeleteRestoreESNode.                                         *)

(* Induction over the natural numbers for a set: the last element outside   *)
(* of it would be preceded by one inside.                                   *)
LEMMA SetInduction ==
  ASSUME NEW S, 0 \in S, \A n \in Nat : n \in S => n + 1 \in S
  PROVE  Nat \subseteq S
<1> SUFFICES ASSUME Nat \ S # {} PROVE FALSE
  OBVIOUS
<1> DEFINE R == {p \in Nat \X Nat : p[1] < p[2]}
<1>1. \E x \in Nat \ S : \A y \in Nat \ S : ~ (<<y, x>> \in R)
  <2>1. IsWellFoundedOn(R, Nat)
    BY NatLessThanWellFounded DEF OpToRel
  <2>2. (Nat \ S) \subseteq Nat
    OBVIOUS
  <2> HIDE DEF R
  <2> QED
    BY <2>1, <2>2, WFMin
<1>2. PICK x \in Nat \ S : \A y \in Nat \ S : ~ (<<y, x>> \in R)
  BY <1>1
<1>3. x # 0 /\ x - 1 \in Nat /\ (x - 1) + 1 = x
  OBVIOUS
<1>4. x - 1 \in Nat \ S
  BY <1>3
<1>5. <<x - 1, x>> \in R
  BY <1>3
<1> QED
  BY <1>2, <1>4, <1>5

(* The rounds of the loop of DeleteRestoreESNode.                           *)
Rounds(f, list, n, k) ==
  f = [i \in 0..k |->
         IF i = 0 THEN <<>>
         ELSE IF list[i].name # n THEN Append(f[i - 1], list[i]) ELSE f[i - 1]]

(* After any number of rounds there is a value of node_sets for each.       *)
LEMMA RoundsExist ==
  ASSUME NEW list, NEW n, NEW k \in Nat
  PROVE  \E f : Rounds(f, list, n, k)
<1> DEFINE S == {i \in Nat : \E f : Rounds(f, list, n, i)}
<1>1. 0 \in S
  <2>1. Rounds([i \in 0..0 |-> <<>>], list, n, 0)
    BY DEF Rounds
  <2> QED
    BY <2>1
<1>2. ASSUME NEW m \in Nat, m \in S PROVE m + 1 \in S
  <2>1. PICK f : Rounds(f, list, n, m)
    BY <1>2
  <2> DEFINE g == [i \in 0..(m + 1) |->
                     IF i # m + 1 THEN f[i]
                     ELSE IF list[i].name # n THEN Append(f[m], list[i]) ELSE f[m]]
             h == [i \in 0..(m + 1) |->
                     IF i = 0 THEN <<>>
                     ELSE IF list[i].name # n THEN Append(g[i - 1], list[i]) ELSE g[i - 1]]
  <2>2. ASSUME NEW i \in 0..(m + 1) PROVE g[i] = h[i]
    <3>1. CASE i = m + 1
      <4>1. g[i - 1] = f[m] /\ i # 0
        BY <3>1
      <4> QED
        BY <3>1, <4>1
    <3>2. CASE i # m + 1
      <4>1. i \in 0..m
        BY <3>2
      <4>2. g[i] = f[i]
        BY <3>2
      <4>3. i # 0 => g[i - 1] = f[i - 1]
        BY <4>1
      <4>4. f[i] = IF i = 0 THEN <<>>
                   ELSE IF list[i].name # n THEN Append(f[i - 1], list[i]) ELSE f[i - 1]
        BY <2>1, <4>1 DEF Rounds
      <4>5. h[i] = IF i = 0 THEN <<>>
                   ELSE IF list[i].name # n THEN Append(g[i - 1], list[i]) ELSE g[i - 1]
        OBVIOUS
      <4> HIDE DEF g, h
      <4> QED
        BY <4>2, <4>3, <4>4, <4>5
    <3> QED
      BY <3>1, <3>2
  <2>3. g = h
    <3>1. g = [i \in 0..(m + 1) |-> g[i]] /\ h = [i \in 0..(m + 1) |-> h[i]]
      OBVIOUS
    <3> HIDE DEF g, h
    <3> QED
      BY <2>2, <3>1
  <2>4. Rounds(g, list, n, m + 1)
    <3> HIDE DEF g
    <3> QED
      BY <2>3 DEF Rounds
  <2> QED
    BY <2>4
<1> HIDE DEF S
<1>3. Nat \subseteq S
  BY <1>1, <1>2, SetInduction
<1> QED
  BY <1>3 DEF S

(* Without(list, n) is the value after the last round.                      *)
LEMMA WithoutIsLastRound ==
  ASSUME NEW list, NEW n, Len(list) \in Nat
  PROVE  \E f : Rounds(f, list, n, Len(list)) /\ Without(list, n) = f[Len(list)]
<1>0. \E f : Rounds(f, list, n, Len(list))
  BY RoundsExist
<1> DEFINE kept[i \in 0..Len(list)] ==
        IF i = 0 THEN <<>>
        ELSE IF list[i].name # n THEN Append(kept[i - 1], list[i]) ELSE kept[i - 1]
<1>1. Without(list, n) = kept[Len(list)]
  BY DEF Without
<1>2. \E f : f = [i \in 0..Len(list) |->
         IF i = 0 THEN <<>>
         ELSE IF list[i].name # n THEN Append(f[i - 1], list[i]) ELSE f[i - 1]]
  BY <1>0 DEF Rounds
<1>3. kept = [i \in 0..Len(list) |->
         IF i = 0 THEN <<>>
         ELSE IF list[i].name # n THEN Append(kept[i - 1], list[i]) ELSE kept[i - 1]]
  BY <1>2
<1> HIDE DEF kept
<1> QED
  BY <1>1, <1>3 DEF Rounds

(* What node_sets holds after k rounds: the node sets of other names among  *)
(* the first k, in their order.                                             *)
KeptOf(s, list, n, k) ==
  /\ s \in Lists
  /\ \A i \in 1..Len(s) : \E j \in 1..k : s[i] = list[j] /\ list[j].name # n
  /\ \A j \in 1..k : list[j].name # n => \E i \in 1..Len(s) : s[i] = list[j]
  /\ \A i1, i2 \in 1..Len(s) : i1 < i2 =>
       \E j1, j2 \in 1..k : j1 < j2 /\ s[i1] = list[j1] /\ s[i2] = list[j2]

(* One round of the loop.                                                   *)
LEMMA RoundKeeps ==
  ASSUME NEW list \in Lists, NEW n, NEW f, Rounds(f, list, n, Len(list)),
         NEW k \in Nat, k + 1 <= Len(list), KeptOf(f[k], list, n, k)
  PROVE  KeptOf(f[k + 1], list, n, k + 1)
<1>1. /\ Len(list) \in Nat /\ k + 1 \in 1..Len(list) /\ k + 1 \in 0..Len(list)
      /\ k + 1 # 0 /\ (k + 1) - 1 = k
      /\ list[k + 1] \in NodeSet
  BY DEF Lists
<1>2. f[k + 1] = IF list[k + 1].name # n THEN Append(f[k], list[k + 1]) ELSE f[k]
  BY <1>1 DEF Rounds
<1> DEFINE s == f[k]  x == list[k + 1]
<1>3. s \in Lists /\ Len(s) \in Nat
  BY DEF KeptOf, Lists
<1>4. \A i \in 1..Len(s) : \E j \in 1..k : s[i] = list[j] /\ list[j].name # n
  BY DEF KeptOf
<1>5. \A j \in 1..k : list[j].name # n => \E i \in 1..Len(s) : s[i] = list[j]
  BY DEF KeptOf
<1>6. \A i1, i2 \in 1..Len(s) : i1 < i2 =>
        \E j1, j2 \in 1..k : j1 < j2 /\ s[i1] = list[j1] /\ s[i2] = list[j2]
  BY DEF KeptOf
<1> HIDE DEF s
<1>7. /\ \A j \in 1..k : j \in 1..(k + 1)
      /\ k + 1 \in 1..(k + 1)
      /\ \A j \in 1..(k + 1) : j \in 1..k \/ j = k + 1
  OBVIOUS
<1>8. CASE x.name # n
  <2> DEFINE r == Append(s, x)
  <2>1. /\ r \in Lists /\ Len(r) = Len(s) + 1
        /\ \A i \in 1..Len(s) : r[i] = s[i]
        /\ r[Len(s) + 1] = x
    BY <1>1, <1>3, AppendProperties DEF Lists
  <2>2. f[k + 1] = r
    BY <1>2, <1>8 DEF s
  <2> HIDE DEF r
  <2>3. /\ \A i \in 1..Len(s) : i \in 1..Len(r)
        /\ Len(s) + 1 \in 1..Len(r)
        /\ \A i \in 1..Len(r) : i \in 1..Len(s) \/ i = Len(s) + 1
    BY <1>3, <2>1
  <2> HIDE DEF x
  <2>4. ASSUME NEW i \in 1..Len(r)
        PROVE  \E j \in 1..(k + 1) : r[i] = list[j] /\ list[j].name # n
    <3>1. CASE i \in 1..Len(s)
      BY <1>4, <1>7, <2>1, <3>1
    <3>2. CASE i = Len(s) + 1
      BY <1>7, <1>8, <2>1, <3>2 DEF x
    <3> QED
      BY <2>3, <3>1, <3>2
  <2>5. ASSUME NEW j \in 1..(k + 1), list[j].name # n
        PROVE  \E i \in 1..Len(r) : r[i] = list[j]
    <3>1. CASE j \in 1..k
      BY <1>5, <2>1, <2>3, <2>5, <3>1
    <3>2. CASE j = k + 1
      BY <2>1, <2>3, <3>2 DEF x
    <3> QED
      BY <1>7, <3>1, <3>2
  <2>6. ASSUME NEW i1 \in 1..Len(r), NEW i2 \in 1..Len(r), i1 < i2
        PROVE  \E j1, j2 \in 1..(k + 1) : j1 < j2 /\ r[i1] = list[j1] /\ r[i2] = list[j2]
    <3>1. i1 \in 1..Len(s)
      BY <1>3, <2>1, <2>6
    <3>2. CASE i2 \in 1..Len(s)
      <4>1. PICK j1 \in 1..k, j2 \in 1..k : j1 < j2 /\ s[i1] = list[j1] /\ s[i2] = list[j2]
        BY <1>6, <2>6, <3>1, <3>2
      <4>2. r[i1] = list[j1] /\ r[i2] = list[j2]
        BY <2>1, <3>1, <3>2, <4>1
      <4> QED
        BY <1>7, <4>1, <4>2
    <3>3. CASE i2 = Len(s) + 1
      <4>1. PICK j \in 1..k : s[i1] = list[j]
        BY <1>4, <3>1
      <4>2. j < k + 1 /\ j \in 1..(k + 1) /\ k + 1 \in 1..(k + 1)
        BY <4>1
      <4> QED
        BY <2>1, <3>1, <3>3, <4>1, <4>2 DEF x
    <3> QED
      BY <2>3, <3>2, <3>3
  <2>7. KeptOf(r, list, n, k + 1)
    BY <2>1, <2>4, <2>5, <2>6 DEF KeptOf
  <2> QED
    BY <2>2, <2>7
<1>9. CASE x.name = n
  <2>1. f[k + 1] = s
    BY <1>2, <1>9 DEF s
  <2> HIDE DEF x
  <2>2. \A i \in 1..Len(s) : \E j \in 1..(k + 1) : s[i] = list[j] /\ list[j].name # n
    BY <1>4, <1>7
  <2>3. ASSUME NEW j \in 1..(k + 1), list[j].name # n
        PROVE  \E i \in 1..Len(s) : s[i] = list[j]
    <3>1. j \in 1..k
      BY <1>7, <1>9, <2>3 DEF x
    <3> QED
      BY <1>5, <2>3, <3>1
  <2>4. \A i1, i2 \in 1..Len(s) : i1 < i2 =>
          \E j1, j2 \in 1..(k + 1) : j1 < j2 /\ s[i1] = list[j1] /\ s[i2] = list[j2]
    BY <1>6, <1>7
  <2>5. KeptOf(s, list, n, k + 1)
    BY <1>3, <2>2, <2>3, <2>4 DEF KeptOf
  <2> QED
    BY <2>1, <2>5
<1> QED
  BY <1>8, <1>9

(* Without drops the node sets named n and keeps the others in their order. *)
LEMMA WithoutKeeps ==
  ASSUME NEW list \in Lists, NEW n
  PROVE  KeptOf(Without(list, n), list, n, Len(list))
<1>1. Len(list) \in Nat
  BY DEF Lists
<1>2. PICK f : Rounds(f, list, n, Len(list)) /\ Without(list, n) = f[Len(list)]
  BY <1>1, WithoutIsLastRound
<1> DEFINE S == {k \in Nat : k <= Len(list) => KeptOf(f[k], list, n, k)}
<1>3. 0 \in S
  <2>1. f[0] = <<>>
    BY <1>1, <1>2 DEF Rounds
  <2>2. KeptOf(<<>>, list, n, 0)
    BY DEF KeptOf, Lists
  <2> QED
    BY <2>1, <2>2
<1>4. ASSUME NEW k \in Nat, k \in S PROVE k + 1 \in S
  <2>1. SUFFICES ASSUME k + 1 <= Len(list) PROVE KeptOf(f[k + 1], list, n, k + 1)
    OBVIOUS
  <2>2. k <= Len(list)
    BY <1>1, <2>1
  <2> QED
    BY <1>2, <1>4, <2>1, <2>2, RoundKeeps
<1> HIDE DEF S
<1>5. Nat \subseteq S
  BY <1>3, <1>4, SetInduction
<1>6. KeptOf(f[Len(list)], list, n, Len(list))
  BY <1>1, <1>5 DEF S
<1> QED
  BY <1>2, <1>6

-----------------------------------------------------------------------------
(* Lists of node sets.                                                      *)

(* At most one node set has the name.                                       *)
Single(list, n) == \A i, j \in Named(list, n) : i = j

(* The empty list has no names.                                             *)
LEMMA EmptyList ==
  /\ <<>> \in Lists
  /\ \A n : Single(<<>>, n) /\ n \notin Names(<<>>)
BY DEF Lists, Single, Named, Names

(* A list has node sets at the positions up to its length.                  *)
LEMMA ListDomain ==
  ASSUME NEW list \in Lists
  PROVE  /\ Len(list) \in Nat /\ DOMAIN list = 1..Len(list)
         /\ \A i \in DOMAIN list : list[i] \in NodeSet
BY DEF Lists

(* What an appended node set does.                                          *)
LEMMA Appended ==
  ASSUME NEW list \in Lists, NEW x \in NodeSet
  PROVE  /\ Append(list, x) \in Lists
         /\ \A n : n # x.name => (n \in Names(Append(list, x)) <=> n \in Names(list))
         /\ \A n : n # x.name /\ Single(list, n) => Single(Append(list, x), n)
         /\ \A n : Named(list, n) = {} => Single(Append(list, x), n)
<1> DEFINE r == Append(list, x)
<1>1. /\ r \in Lists /\ Len(r) = Len(list) + 1
      /\ \A i \in 1..Len(list) : r[i] = list[i]
      /\ r[Len(list) + 1] = x
  BY AppendProperties DEF Lists
<1> HIDE DEF r
<1>2. /\ DOMAIN r = 1..Len(r) /\ DOMAIN list = 1..Len(list)
      /\ Len(list) \in Nat
  BY <1>1, ListDomain
<1>3. /\ \A i \in DOMAIN list : i \in DOMAIN r /\ r[i] = list[i]
      /\ \A i \in DOMAIN r : i \in DOMAIN list \/ (i = Len(list) + 1 /\ r[i] = x)
  BY <1>1, <1>2
<1>4. \A n : n # x.name => Named(r, n) = Named(list, n)
  BY <1>3 DEF Named
<1>5. \A n : n # x.name => (n \in Names(r) <=> n \in Names(list))
  BY <1>3 DEF Names
<1>6. \A n : n # x.name /\ Single(list, n) => Single(r, n)
  BY <1>4 DEF Single
<1>7. \A n : Named(list, n) = {} => Single(r, n)
  BY <1>3 DEF Single, Named
<1> QED
  BY <1>1, <1>5, <1>6, <1>7 DEF r

(* What the loop of DeleteRestoreESNode does: no other node set goes, and   *)
(* none is doubled.                                                         *)
LEMMA NodeSetDeleted ==
  ASSUME NEW list \in Lists, NEW n
  PROVE  /\ Without(list, n) \in Lists
         /\ \A m : m # n => (m \in Names(Without(list, n)) <=> m \in Names(list))
         /\ \A m : Single(list, m) => Single(Without(list, n), m)
<1> DEFINE s == Without(list, n)
<1>1. KeptOf(s, list, n, Len(list))
  BY WithoutKeeps
<1> HIDE DEF s
<1>2. s \in Lists
  BY <1>1 DEF KeptOf
<1>3. /\ DOMAIN s = 1..Len(s) /\ DOMAIN list = 1..Len(list)
      /\ Len(s) \in Nat /\ Len(list) \in Nat
  BY <1>2, ListDomain
<1>4. ASSUME NEW m, m # n PROVE m \in Names(s) <=> m \in Names(list)
  <2>1. ASSUME NEW i \in 1..Len(s) PROVE s[i].name \in Names(list)
    BY <1>1, <1>3 DEF KeptOf, Names
  <2>2. ASSUME NEW j \in 1..Len(list), list[j].name # n PROVE list[j].name \in Names(s)
    BY <1>1, <1>3, <2>2 DEF KeptOf, Names
  <2>3. m \in Names(s) => m \in Names(list)
    BY <1>3, <2>1 DEF Names
  <2>4. m \in Names(list) => m \in Names(s)
    BY <1>3, <1>4, <2>2 DEF Names
  <2> QED
    BY <2>3, <2>4
<1>5. ASSUME NEW m, Single(list, m) PROVE Single(s, m)
  <2>1. ASSUME NEW i1 \in 1..Len(s), NEW i2 \in 1..Len(s), i1 < i2,
               s[i1].name = m, s[i2].name = m
        PROVE  FALSE
    <3>1. PICK j1 \in 1..Len(list), j2 \in 1..Len(list) :
            j1 < j2 /\ s[i1] = list[j1] /\ s[i2] = list[j2]
      BY <1>1, <2>1 DEF KeptOf
    <3>2. j1 \in Named(list, m) /\ j2 \in Named(list, m)
      BY <1>3, <2>1, <3>1 DEF Named
    <3>3. j1 = j2
      BY <1>5, <3>2 DEF Single
    <3> QED
      BY <3>1, <3>3
  <2>2. ASSUME NEW i1 \in Named(s, m), NEW i2 \in Named(s, m) PROVE i1 = i2
    <3>1. /\ i1 \in 1..Len(s) /\ i2 \in 1..Len(s)
          /\ s[i1].name = m /\ s[i2].name = m
      BY <1>3, <2>2 DEF Named
    <3>2. ~(i1 < i2) /\ ~(i2 < i1)
      BY <2>1, <3>1
    <3> QED
      BY <1>3, <3>1, <3>2
  <2> QED
    BY <2>2 DEF Single
<1> QED
  BY <1>2, <1>4, <1>5 DEF s

(* The node sets that Reconcile and the handlers make are node sets.        *)
LEMMA MadeNodeSets ==
  /\ \A t \in Tasks : [name |-> NodeName[t], size |-> Storage[t]] \in NodeSet
  /\ \A q \in Requests : RequestSize[q] # 0 =>
       [name |-> RequestName[q], size |-> RequestSize[q]] \in NodeSet
<1>1. \A t \in Tasks : NodeName[t] \in Nodes /\ Storage[t] \in Nat \ {0}
  BY ConstantsAssumption DEF Nodes, TaskNodes
<1>2. \A q \in Requests : RequestName[q] \in Nodes /\ RequestSize[q] \in Nat
  BY ConstantsAssumption DEF Nodes
<1> QED
  BY <1>1, <1>2 DEF NodeSet

(* Both handlers leave the node sets of other names as they are, and only   *)
(* PUT /node can make a second one of its name.                             *)
LEMMA Edited ==
  ASSUME NEW q \in Requests, NEW list \in Lists
  PROVE  /\ Edit(q, list) \in Lists
         /\ \A n : n # RequestName[q] => (n \in Names(Edit(q, list)) <=> n \in Names(list))
         /\ \A n : /\ Single(list, n)
                   /\ n # RequestName[q] \/ RequestSize[q] = 0
                   => Single(Edit(q, list), n)
<1>1. CASE RequestSize[q] = 0
  BY <1>1, NodeSetDeleted DEF Edit
<1>2. CASE RequestSize[q] # 0
  BY <1>2, Appended, MadeNodeSets DEF Edit
<1> QED
  BY <1>1, <1>2

-----------------------------------------------------------------------------
(* The lists in the system: the one on the server, the informer's copy and  *)
(* those in the memory of Reconcile and the handlers.                       *)

(* Somebody asks PUT /node for a node of this name.                         *)
AskedFor(n) == \E q \in Requests : RequestName[q] = n /\ RequestSize[q] > 0

(* No list that is or may be written holds two node sets of a name nobody   *)
(* asks for.                                                                *)
SingleInv ==
  \A n \in Nodes : ~AskedFor(n) =>
    /\ Single(nodeSets, n) /\ Single(cached, n) /\ Single(edited, n)
    /\ \A q \in Requests : Single(request[q].edited, n)

(* A patch differs from the list it was computed from in the one name that  *)
(* it is about.                                                             *)
PatchInv ==
  /\ at = "patch" =>
       \A n \in Nodes \ {NodeName[current]} : n \in Names(edited) <=> n \in Names(base)
  /\ \A q \in Requests : request[q].stage = "patch" =>
       \A n \in Nodes \ {RequestName[q]} :
         n \in Names(request[q].edited) <=> n \in Names(request[q].base)

(* The types that CountTypes leaves out.                                    *)
ListTypes ==
  /\ nodeSets \in Lists /\ cached \in Lists /\ edited \in Lists /\ base \in Lists
  /\ sts \in [TaskNodes -> {"absent", "starting", "ready"}]
  /\ at \in Step
  /\ request \in [Requests -> [stage : Stage, edited : Lists, base : Lists]]

(* The inductive invariant, beside CountInv.                                *)
ListInv == ListTypes /\ SingleInv /\ PatchInv

(* In the beginning there are the original node sets and no copies.         *)
LEMMA ListInit == Init => ListInv
<1> SUFFICES ASSUME Init PROVE ListInv
  OBVIOUS
<1>1. Original \in Lists /\ <<>> \in Lists
  BY ConstantsAssumption, EmptyList DEF Lists
<1>2. ListTypes
  BY <1>1 DEF Init, ListTypes, Step, Stage, Arrives
<1>3. \A n \in Nodes : Single(Original, n)
  BY OriginalAssumption DEF Single, Named
<1>4. \A q \in Requests : request[q].edited = <<>> /\ request[q].stage = "none"
  BY DEF Init, Arrives
<1>5. SingleInv
  BY <1>3, <1>4, EmptyList DEF Init, SingleInv
<1>6. PatchInv
  BY <1>4 DEF Init, PatchInv
<1> QED
  BY <1>2, <1>5, <1>6 DEF ListInv

(* Steps that leave all lists alone and begin no patch.                     *)
LEMMA ListsAlone ==
  ASSUME ListInv, UNCHANGED <<nodeSets, cached, edited, base>>,
         sts' \in [TaskNodes -> {"absent", "starting", "ready"}],
         at' \in Step \ {"patch"} \/ UNCHANGED <<at, current>>,
         UNCHANGED request
  PROVE  ListInv'
<1>1. ListTypes'
  BY DEF ListInv, ListTypes
<1>2. SingleInv'
  BY DEF ListInv, SingleInv
<1>3. PatchInv'
  BY DEF ListInv, PatchInv
<1> QED
  BY <1>1, <1>2, <1>3 DEF ListInv

(* Reconcile returns and drops its lists.                                   *)
LEMMA ListsReturned ==
  ASSUME ListInv, Return, UNCHANGED <<nodeSets, cached, sts, request>>
  PROVE  ListInv'
<1>1. ListTypes'
  BY EmptyList DEF ListInv, ListTypes, Return, Step
<1>2. SingleInv'
  BY EmptyList DEF ListInv, SingleInv, Return
<1>3. PatchInv'
  BY DEF ListInv, PatchInv, Return
<1> QED
  BY <1>1, <1>2, <1>3 DEF ListInv

(* The patch of Reconcile: it adds the one node set the copy does not have. *)
LEMMA NodeMissingEdits ==
  ASSUME ListInv, CountInv, NodeMissing
  PROVE  ListInv'
<1>1. CASE Requeue
  BY <1>1, ListsReturned DEF NodeMissing, Requeue, outside
<1>2. CASE ~Requeue
  <2> DEFINE x == [name |-> NodeName[current], size |-> Storage[current]]
  <2>1. /\ base' = cached /\ edited' = Append(cached, x) /\ at' = "patch"
        /\ UNCHANGED <<current, nodeSets, cached, sts, request>>
        /\ Named(cached, NodeName[current]) = {}
    BY <1>2 DEF NodeMissing, Continue, outside
  <2>2. x \in NodeSet /\ x.name = NodeName[current] /\ cached \in Lists
    BY MadeNodeSets DEF CountInv, CountTypes, NodeMissing, ListInv, ListTypes
  <2> HIDE DEF x
  <2>3. edited' \in Lists
    BY <2>1, <2>2, Appended
  <2>4. ListTypes'
    BY <2>1, <2>2, <2>3 DEF ListInv, ListTypes, Step
  <2>5. \A n \in Nodes : ~AskedFor(n) => Single(edited', n)
    BY <2>1, <2>2, Appended DEF ListInv, SingleInv
  <2>6. SingleInv'
    BY <2>1, <2>5 DEF ListInv, SingleInv, AskedFor
  <2>7. \A n \in Nodes \ {NodeName[current]} : n \in Names(edited') <=> n \in Names(base')
    BY <2>1, <2>2, Appended
  <2>8. PatchInv'
    BY <2>1, <2>7 DEF ListInv, PatchInv
  <2> QED
    BY <2>4, <2>6, <2>8 DEF ListInv
<1> QED
  BY <1>1, <1>2

(* The patch of Reconcile reaches the server, or does not.                  *)
LEMMA PatchWrites == ASSUME ListInv, PatchES PROVE ListInv'
<1>1. CASE Requeue /\ UNCHANGED nodeSets
  BY <1>1, ListsReturned DEF PatchES, Requeue
<1>3. CASE Requeue /\ nodeSets' = Merged(edited, base)
  <2>1. nodeSets' = nodeSets \/ nodeSets' = edited
    BY <1>3 DEF Merged
  <2>2. /\ UNCHANGED <<cached, sts, request>>
        /\ edited' = <<>> /\ base' = <<>> /\ at' = "none"
    BY <1>3 DEF PatchES, Requeue, Return
  <2>3. ListTypes'
    BY <2>1, <2>2, EmptyList DEF ListInv, ListTypes, Step
  <2>4. SingleInv'
    BY <2>1, <2>2, EmptyList DEF ListInv, SingleInv, AskedFor
  <2>5. PatchInv'
    BY <2>2 DEF ListInv, PatchInv
  <2> QED
    BY <2>3, <2>4, <2>5 DEF ListInv
<1>2. CASE nodeSets' = Merged(edited, base) /\ Continue("getSts") /\ UNCHANGED <<edited, base>>
  <2>1. nodeSets' = nodeSets \/ nodeSets' = edited
    BY <1>2 DEF Merged
  <2>2. UNCHANGED <<cached, sts, edited, base, request>> /\ at' = "getSts"
    BY <1>2 DEF PatchES, Continue
  <2>3. ListTypes'
    BY <2>1, <2>2 DEF ListInv, ListTypes, Step
  <2>4. SingleInv'
    BY <2>1, <2>2 DEF ListInv, SingleInv, AskedFor
  <2>5. PatchInv'
    BY <2>2 DEF ListInv, PatchInv
  <2> QED
    BY <2>3, <2>4, <2>5 DEF ListInv
<1> QED
  BY <1>1, <1>2, <1>3 DEF PatchES

(* The steps of Reconcile.                                                  *)
LEMMA ReconcileEdits == ASSUME ListInv, CountInv, Reconcile PROVE ListInv'
<1>1. CASE NodeMissing
  BY <1>1, NodeMissingEdits
<1>2. CASE PatchES
  BY <1>2, PatchWrites
<1>3. CASE GetTask \/ UpdateTask \/ NodeFound \/ GetSts \/ Send
  <2>1. UNCHANGED <<nodeSets, cached, sts, request>>
    BY <1>3 DEF GetTask, UpdateTask, NodeFound, GetSts, Send, outside
  <2>2. Return \/ (UNCHANGED <<edited, base>> /\ at' \in Step \ {"patch"})
    BY <1>3 DEF GetTask, UpdateTask, NodeFound, GetSts, Send, Forget, Requeue, Continue, Step
  <2>3. sts' \in [TaskNodes -> {"absent", "starting", "ready"}]
    BY <2>1 DEF ListInv, ListTypes
  <2> QED
    BY <2>1, <2>2, <2>3, ListsReturned, ListsAlone
<1> QED
  BY <1>1, <1>2, <1>3 DEF Reconcile

(* The steps of a handler.                                                  *)
LEMMA HandlerEdits ==
  ASSUME ListInv, NEW q \in Requests, HandlerStep(q)
  PROVE  ListInv'
<1>1. /\ request \in [Requests -> [stage : Stage, edited : Lists, base : Lists]]
      /\ nodeSets \in Lists /\ <<>> \in Lists
  BY EmptyList DEF ListInv, ListTypes
<1>2. UNCHANGED <<cached, sts, current, at, edited, base>>
  BY DEF HandlerStep, RequestArrives, RequestGets, RequestPatches, besideRequests, reconcileVars
<1>3. \A p \in Requests \ {q} : request'[p] = request[p]
  BY <1>1 DEF HandlerStep, RequestArrives, RequestGets, RequestPatches, Handler, Finish
<1>4. /\ nodeSets' \in {nodeSets, request[q].edited}
      /\ request' \in [Requests -> [stage : Stage, edited : Lists, base : Lists]]
      /\ \/ request'[q].edited \in {request[q].edited, <<>>}
         \/ request'[q].edited = Edit(q, nodeSets)
      /\ request'[q].stage = "patch" =>
           request'[q].base = nodeSets /\ request'[q].edited = Edit(q, nodeSets)
  <2>1. CASE RequestArrives(q)
    BY <1>1, <2>1 DEF RequestArrives, Handler, Stage
  <2>2. CASE RequestGets(q)
    <3>1. CASE request' = [request EXCEPT ![q] = [stage |-> "patch", base |-> nodeSets,
                                                  edited |-> Edit(q, nodeSets)]]
      BY <1>1, <2>2, <3>1, Edited DEF RequestGets, Stage
    <3>2. CASE Handler(q, "failed")
      BY <1>1, <2>2, <3>2 DEF RequestGets, Handler, Stage
    <3> QED
      BY <2>2, <3>1, <3>2 DEF RequestGets
  <2>3. CASE RequestPatches(q)
    BY <1>1, <2>3 DEF RequestPatches, Finish, Arrives, Merged, Stage
  <2> QED
    BY <2>1, <2>2, <2>3 DEF HandlerStep
<1>5. request[q].edited \in Lists
  BY <1>1
<1>6. ListTypes'
  BY <1>1, <1>2, <1>4, <1>5 DEF ListInv, ListTypes
<1>7. ASSUME NEW n \in Nodes, ~AskedFor(n)
      PROVE  /\ Single(nodeSets', n)
             /\ \A p \in Requests : Single(request'[p].edited, n)
  <2>1. Single(nodeSets, n) /\ \A p \in Requests : Single(request[p].edited, n)
    BY <1>7 DEF ListInv, SingleInv
  <2>2. n # RequestName[q] \/ RequestSize[q] = 0
    BY <1>7, ConstantsAssumption DEF AskedFor
  <2>3. Single(Edit(q, nodeSets), n) /\ Single(<<>>, n)
    BY <1>1, <2>1, <2>2, Edited, EmptyList
  <2>4. Single(request'[q].edited, n)
    BY <1>4, <2>1, <2>3
  <2> QED
    BY <1>3, <1>4, <2>1, <2>4
<1>8. SingleInv'
  BY <1>2, <1>7 DEF ListInv, SingleInv, AskedFor
<1>9. PatchInv'
  <2>1. request'[q].stage = "patch" =>
          \A n \in Nodes \ {RequestName[q]} :
            n \in Names(request'[q].edited) <=> n \in Names(request'[q].base)
    BY <1>1, <1>4, Edited
  <2> QED
    BY <1>2, <1>3, <2>1 DEF ListInv, PatchInv
<1> QED
  BY <1>6, <1>8, <1>9 DEF ListInv

(* The informer catches up.                                                 *)
LEMMA CacheSyncsLists == ASSUME ListInv, CacheSyncs PROVE ListInv'
<1>1. UNCHANGED <<nodeSets, sts, current, at, edited, base, request>> /\ cached' = nodeSets
  BY DEF CacheSyncs, reconcileVars
<1>2. ListTypes'
  BY <1>1 DEF ListInv, ListTypes
<1>3. SingleInv'
  BY <1>1 DEF ListInv, SingleInv, AskedFor
<1>4. PatchInv'
  BY <1>1 DEF ListInv, PatchInv
<1> QED
  BY <1>2, <1>3, <1>4 DEF ListInv

(* A restart takes the lists in memory with it.                             *)
LEMMA RestartLists == ASSUME ListInv, Restart PROVE ListInv'
<1>1. /\ request \in [Requests -> [stage : Stage, edited : Lists, base : Lists]]
      /\ <<>> \in Lists
  BY EmptyList DEF ListInv, ListTypes
<1>2. /\ cached' = nodeSets /\ nodeSets' = nodeSets /\ sts' = sts
      /\ edited' = <<>> /\ base' = <<>> /\ at' = "none"
  BY DEF Restart, Return
<1>3. /\ request' \in [Requests -> [stage : Stage, edited : Lists, base : Lists]]
      /\ \A q \in Requests : /\ request'[q].edited \in {request[q].edited, <<>>}
                             /\ request'[q].stage # "patch"
  BY <1>1 DEF Restart, Arrives, Stage
<1>4. ListTypes'
  BY <1>1, <1>2, <1>3 DEF ListInv, ListTypes, Step
<1>5. SingleInv'
  BY <1>2, <1>3, EmptyList DEF ListInv, SingleInv, AskedFor
<1>6. PatchInv'
  BY <1>2, <1>3 DEF PatchInv
<1> QED
  BY <1>4, <1>5, <1>6 DEF ListInv

(* The invariant of the lists is inductive.                                 *)
LEMMA ListStep == ASSUME ListInv, CountInv, [Next]_vars PROVE ListInv'
<1>0. sts \in [TaskNodes -> {"absent", "starting", "ready"}] /\ at \in Step
  BY DEF ListInv, ListTypes
<1>1. ASSUME NEW t \in Tasks, Created(t) \/ Deleted(t) \/ SpecChanged(t) PROVE ListInv'
  BY <1>0, <1>1, ListsAlone DEF Created, Deleted, SpecChanged, Event, reconcileVars
<1>2. ASSUME NEW t \in Tasks, Begin(t) PROVE ListInv'
  BY <1>0, <1>2, ListsAlone DEF Begin, Step
<1>3. CASE Reconcile
  BY <1>3, ReconcileEdits
<1>4. ASSUME NEW q \in Requests, HandlerStep(q) PROVE ListInv'
  BY <1>4, HandlerEdits
<1>5. ASSUME NEW n \in TaskNodes, Operator(n) PROVE ListInv'
  <2>1. PICK status \in {"absent", "starting", "ready"} : StsBecomes(n, status)
    BY <1>5 DEF Operator, StsAppears, StsReady, StsUnready, StsRemoved
  <2>2. sts' \in [TaskNodes -> {"absent", "starting", "ready"}]
    BY <1>0, <2>1 DEF StsBecomes
  <2> QED
    BY <2>1, <2>2, ListsAlone DEF StsBecomes, reconcileVars
<1>6. CASE CacheSyncs
  BY <1>6, CacheSyncsLists
<1>7. CASE Restart
  BY <1>7, RestartLists
<1>8. CASE UNCHANGED vars
  BY <1>0, <1>8, ListsAlone DEF vars
<1> QED
  BY <1>1, <1>2, <1>3, <1>4, <1>5, <1>6, <1>7, <1>8 DEF Next

(* The lists keep their types, single names and the scope of their patches. *)
THEOREM ListsHold == Spec => []ListInv
BY ListInit, ListStep, CountHolds, CountInit, CountStep, PTL DEF Spec

(* Every variable keeps its type (TypeOK).                                  *)
THEOREM ReconcileTypes == Spec => []TypeOK
<1>1. ListInv /\ CountInv => TypeOK
  BY DEF ListInv, ListTypes, CountInv, CountTypes, TypeOK
<1> QED
  BY <1>1, ListsHold, CountHolds, PTL

(* No name that nobody asks PUT /node for has two node sets, however old    *)
(* the copies are that patches are computed from (OneNodeSetPerName).       *)
THEOREM NamesStaySingle == Spec => []OneNodeSetPerName
<1>1. ListInv => OneNodeSetPerName
  BY DEF ListInv, SingleInv, Single, AskedFor, OneNodeSetPerName
<1> QED
  BY <1>1, ListsHold, PTL

(* The steps that change which names have node sets.                        *)
LEMMA OnlyPatchesChange ==
  ASSUME ListInv, CountInv, [Next]_vars, NEW n \in Nodes,
         ~(n \in Names(nodeSets) <=> n \in Names(nodeSets'))
  PROVE  \/ /\ at = "patch" /\ at' # "patch"
            /\ NodeName[current] = n \/ base # nodeSets
         \/ \E q \in Requests :
              /\ request[q].stage = "patch" /\ request'[q].stage \in {"ok", "failed"}
              /\ RequestName[q] = n \/ request[q].base # nodeSets
<1>1. nodeSets' # nodeSets
  OBVIOUS
<1>2. CASE PatchES
  <2>1. at = "patch" /\ at' # "patch" /\ nodeSets' = edited
    BY <1>1, <1>2 DEF PatchES, Merged, Continue, Requeue, Return
  <2>2. NodeName[current] = n \/ base # nodeSets
    BY <2>1 DEF ListInv, PatchInv
  <2> QED
    BY <2>1, <2>2
<1>3. ASSUME NEW q \in Requests, RequestPatches(q)
      PROVE  /\ request[q].stage = "patch" /\ request'[q].stage \in {"ok", "failed"}
             /\ RequestName[q] = n \/ request[q].base # nodeSets
  <2>1. /\ request[q].stage = "patch"
        /\ nodeSets' = request[q].edited
        /\ Finish(q, "ok") \/ Finish(q, "failed")
    BY <1>1, <1>3 DEF RequestPatches, Merged
  <2>2. request'[q].stage \in {"ok", "failed"}
    BY <2>1 DEF ListInv, ListTypes, Finish, Arrives
  <2>3. RequestName[q] = n \/ request[q].base # nodeSets
    BY <2>1 DEF ListInv, PatchInv
  <2> QED
    BY <2>1, <2>2, <2>3
<1>4. PatchES \/ \E q \in Requests : RequestPatches(q)
  BY <1>1
     DEF Next, Created, Deleted, SpecChanged, Event, Begin, Reconcile, GetTask, UpdateTask,
         NodeMissing, NodeFound, GetSts, Send, outside, HandlerStep, RequestArrives,
         RequestGets, Operator, StsAppears, StsReady, StsUnready, StsRemoved, StsBecomes,
         CacheSyncs, Restart, vars
<1> QED
  BY <1>2, <1>3, <1>4

(* A node set comes and goes by a patch that names it, or by one computed   *)
(* from a list that has changed since (OthersChangeOnlyFromOldCopies).      *)
THEOREM OthersChangeFromOldCopies == Spec => OthersChangeOnlyFromOldCopies
<1>1. ListInv /\ CountInv /\ [Next]_vars =>
        [\A n \in Nodes :
           ~(n \in Names(nodeSets) <=> n \in Names(nodeSets'))
             => \/ /\ at = "patch" /\ at' # "patch"
                   /\ NodeName[current] = n \/ base # nodeSets
                \/ \E q \in Requests :
                     /\ request[q].stage = "patch" /\ request'[q].stage \in {"ok", "failed"}
                     /\ RequestName[q] = n \/ request[q].base # nodeSets]_vars
  BY OnlyPatchesChange
<1> QED
  BY <1>1, ListsHold, CountHolds, PTL DEF Spec, OthersChangeOnlyFromOldCopies
=============================================================================
