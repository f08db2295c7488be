-------------------- MODULE AnnotationController_proofs --------------------
(***************************************************************************)
(* The safety properties of AnnotationController, for any number of        *)
(* StatefulSets, asks, versions and crashes.                               *)
(*                                                                         *)
(* All of them rest on what the informer's lag can hide: the versions of   *)
(* a StatefulSet from the one in the cache to the one on the server.  The  *)
(* first part of the module is about such a history alone.                 *)
(***************************************************************************)
EXTENDS AnnotationController, SequenceTheorems, TLAPS

(* A version of a StatefulSet, the deletion of it included.                 *)
AnyVersion == Version \cup {Gone}

(* Version i of the history of c, shown, and f, not yet shown.              *)
Shown(c, f, i) == IF i = 0 THEN c ELSE f[i]
Last(c, f) == Shown(c, f, Len(f))

(* A user's ask makes such a version out of the one before.                 *)
Asks(old, new) ==
  /\ new.state = "pending"
  /\ old.state # "pending" \/ old.id # new.id

(* A version is pending with an id, and an id comes with an ask.            *)
Sound(c, f) ==
  /\ \A i \in 0..Len(f) : Shown(c, f, i).state = "pending" => Shown(c, f, i).id \in Ids
  /\ \A i \in 1..Len(f) : Shown(c, f, i - 1).id = NoId /\ f[i].id # NoId
                            => Asks(Shown(c, f, i - 1), f[i])

(* While the last version is pending, one that is not is followed by one    *)
(* that begins to be.                                                       *)
Begins(c, f, i) == Shown(c, f, i - 1).state # "pending" /\ f[i].state = "pending"
Announced(c, f) ==
  Last(c, f).state = "pending"
    => \A j \in 0..Len(f) : Shown(c, f, j).state # "pending"
                              => \E i \in (j + 1)..Len(f) : Begins(c, f, i)

(* Restores that so many asks allow.                                        *)
Allowed(asks) == IF asks = 0 THEN 0 ELSE 2 * asks - 1

(* n[i] asks made version i, out of so many in all.                         *)
Counts(c, f, asks, n) ==
  /\ n \in [0..Len(f) -> 0..asks]
  /\ n[Len(f)] = asks
  /\ \A i \in 1..Len(f) :
       n[i] = IF Asks(Shown(c, f, i - 1), f[i]) THEN n[i - 1] + 1 ELSE n[i - 1]

(* The asks that the cache shows pay for what is spent; before the first    *)
(* there is no id, and nothing is under way.                                *)
Paid(c, f, asks, spent, busy) ==
  \E n : /\ Counts(c, f, asks, n)
         /\ spent <= Allowed(n[0])
         /\ n[0] = 0 => c.id = NoId /\ busy = 0

-----------------------------------------------------------------------------
(* One if it holds.                                                         *)
Bit(condition) == IF condition THEN 1 ELSE 0

(* The restores of s that are sent, and those that Reconcile may come to    *)
(* send without the cache showing another version.                          *)
Spent(s) ==
  sent[s] + Bit(current = s /\ at \in {"patch", "send"})
          + (IF cached[s].state = "pending"
             THEN Bit(current = s /\ at = "get") + Bit(s \in work) ELSE 0)
Busy(s) == Bit(s \in work) + Bit(current = s)

(* What holds of the versions of s.                                         *)
HistoryInv(s) ==
  /\ Sound(cached[s], feed[s])
  /\ Announced(cached[s], feed[s])

(* The asks that users made pay for the restores.                           *)
AsksInv(s) ==
  /\ Paid(cached[s], feed[s], asked[s], Spent(s), Busy(s))
  /\ asked[s] = 0 => Server(s).id = NoId
  /\ Server(s).state = "pending"
       => /\ asked[s] >= 1
          /\ sent[s] + Bit(current = s /\ at = "send") <= Allowed(asked[s] - 1)

(* What Reconcile and a dispatcher hold.                                    *)
ReconcileInv ==
  /\ (current = NoSet) <=> (at = "none")
  /\ at \in {"patch", "send"} => taskID \in Ids
DispatcherInv(d) ==
  /\ stage[d] # "idle" => task[d] \in Task
  /\ stage[d] \in {"get", "patch"} => task[d] \in ran
  /\ stage[d] = "patch" => base[d].id = task[d].id

-----------------------------------------------------------------------------
(* A version written is the last of the history, the others keep their      *)
(* place.                                                                   *)
LEMMA Written ==
  ASSUME NEW c \in AnyVersion, NEW f \in Seq(AnyVersion), NEW w \in AnyVersion
  PROVE  /\ Append(f, w) \in Seq(AnyVersion)
         /\ Len(f) \in Nat /\ Len(Append(f, w)) = Len(f) + 1
         /\ \A i \in 0..Len(f) : Shown(c, Append(f, w), i) = Shown(c, f, i)
         /\ \A i \in 1..Len(f) : Append(f, w)[i] = f[i]
         /\ Append(f, w)[Len(f) + 1] = w
         /\ Last(c, Append(f, w)) = w
<1>1. /\ Append(f, w) \in Seq(AnyVersion) /\ Len(f) \in Nat
      /\ Len(Append(f, w)) = Len(f) + 1
      /\ \A i \in 1..Len(f) : Append(f, w)[i] = f[i]
      /\ Append(f, w)[Len(f) + 1] = w
  BY AppendProperties, LenProperties
<1>2. \A i \in 0..Len(f) : i # 0 => i \in 1..Len(f)
  BY <1>1
<1>3. Len(f) + 1 # 0
  BY <1>1
<1> QED
  BY <1>1, <1>2, <1>3 DEF Shown, Last

(* A version that the informer has shown makes room for the next.           *)
LEMMA Seen ==
  ASSUME NEW c \in AnyVersion, NEW f \in Seq(AnyVersion), f # <<>>
  PROVE  /\ Head(f) \in AnyVersion /\ Head(f) = f[1] /\ Tail(f) \in Seq(AnyVersion)
         /\ Len(f) \in Nat \ {0} /\ Len(Tail(f)) = Len(f) - 1
         /\ \A i \in 1..(Len(f) - 1) : Tail(f)[i] = f[i + 1]
         /\ \A i \in 0..(Len(f) - 1) :
              Shown(Head(f), Tail(f), i) = f[i + 1] /\ Shown(c, f, i + 1) = f[i + 1]
         /\ Last(Head(f), Tail(f)) = Last(c, f)
<1>1. /\ Head(f) \in AnyVersion /\ Head(f) = f[1] /\ Tail(f) \in Seq(AnyVersion)
      /\ Len(f) \in Nat \ {0} /\ Len(Tail(f)) = Len(f) - 1
      /\ \A i \in 1..(Len(f) - 1) : Tail(f)[i] = f[i + 1]
  <2>1. /\ Head(f) \in AnyVersion /\ Tail(f) \in Seq(AnyVersion)
        /\ Len(Tail(f)) = Len(f) - 1
        /\ \A i \in 1..Len(Tail(f)) : Tail(f)[i] = f[i + 1]
    BY HeadTailProperties
  <2>2. Len(f) \in Nat \ {0} /\ Head(f) = f[1]
    BY EmptySeq, LenProperties
  <2> QED
    BY <2>1, <2>2
<1>2. ASSUME NEW i \in 0..(Len(f) - 1)
      PROVE  Shown(Head(f), Tail(f), i) = f[i + 1] /\ Shown(c, f, i + 1) = f[i + 1]
  <2>1. i = 0 \/ i \in 1..(Len(f) - 1)
    BY <1>1
  <2>2. i + 1 # 0
    BY <1>1
  <2>3. CASE i = 0
    BY <1>1, <2>2, <2>3 DEF Shown
  <2>4. CASE i \in 1..(Len(f) - 1)
    <3>1. i # 0
      BY <1>1, <2>4
    <3> QED
      BY <1>1, <2>2, <2>4, <3>1 DEF Shown
  <2> QED
    BY <2>1, <2>3, <2>4
<1>3. Last(Head(f), Tail(f)) = Last(c, f)
  <2>1. Len(f) - 1 \in 0..(Len(f) - 1) /\ Len(f) - 1 + 1 = Len(f)
    BY <1>1
  <2>2. /\ Shown(Head(f), Tail(f), Len(f) - 1) = f[Len(f)]
        /\ Shown(c, f, Len(f)) = f[Len(f)]
    BY <1>2, <2>1
  <2> QED
    BY <1>1, <2>2 DEF Last
<1> QED
  BY <1>1, <1>2, <1>3

(* Every version of a history is one.                                       *)
LEMMA VersionsOf ==
  ASSUME NEW c \in AnyVersion, NEW f \in Seq(AnyVersion)
  PROVE  /\ Len(f) \in Nat
         /\ \A i \in 0..Len(f) : Shown(c, f, i) \in AnyVersion
         /\ Last(c, f) \in AnyVersion
<1>1. Len(f) \in Nat
  BY LenProperties
<1>2. \A i \in 0..Len(f) : Shown(c, f, i) \in AnyVersion
  <2> TAKE i \in 0..Len(f)
  <2>1. i = 0 \/ i \in 1..Len(f)
    BY <1>1
  <2> QED
    BY <2>1, ElementOfSeq DEF Shown
<1>3. Len(f) \in 0..Len(f)
  BY <1>1
<1> QED
  BY <1>1, <1>2, <1>3 DEF Last

-----------------------------------------------------------------------------
(* What a write keeps of a sound history.                                   *)
LEMMA SoundWritten ==
  ASSUME NEW c \in AnyVersion, NEW f \in Seq(AnyVersion), NEW w \in AnyVersion,
         Sound(c, f),
         w.state = "pending" => w.id \in Ids,
         Last(c, f).id = NoId /\ w.id # NoId => Asks(Last(c, f), w)
  PROVE  Sound(c, Append(f, w))
<1> DEFINE g == Append(f, w)
<1>1. /\ Len(f) \in Nat /\ Len(g) = Len(f) + 1
      /\ \A i \in 0..Len(f) : Shown(c, g, i) = Shown(c, f, i)
      /\ \A i \in 1..Len(f) : g[i] = f[i]
      /\ g[Len(f) + 1] = w
      /\ Last(c, g) = w
  BY Written
<1> HIDE DEF g
<1>2. ASSUME NEW i \in 0..Len(g), Shown(c, g, i).state = "pending"
      PROVE  Shown(c, g, i).id \in Ids
  <2>1. i \in 0..Len(f) \/ i = Len(g)
    BY <1>1
  <2>2. CASE i \in 0..Len(f)
    BY <1>1, <1>2, <2>2 DEF Sound
  <2>3. CASE i = Len(g)
    BY <1>1, <1>2, <2>3 DEF Last
  <2> QED
    BY <2>1, <2>2, <2>3
<1>3. ASSUME NEW i \in 1..Len(g), Shown(c, g, i - 1).id = NoId, g[i].id # NoId
      PROVE  Asks(Shown(c, g, i - 1), g[i])
  <2>1. i \in 1..Len(f) \/ i = Len(f) + 1
    BY <1>1
  <2>2. CASE i \in 1..Len(f)
    <3>1. i - 1 \in 0..Len(f)
      BY <1>1, <2>2
    <3>2. Shown(c, g, i - 1) = Shown(c, f, i - 1) /\ g[i] = f[i]
      BY <1>1, <2>2, <3>1
    <3> QED
      BY <1>3, <2>2, <3>2 DEF Sound
  <2>3. CASE i = Len(f) + 1
    <3>1. i - 1 = Len(f) /\ Len(f) \in 0..Len(f)
      BY <1>1, <2>3
    <3>2. Shown(c, g, i - 1) = Last(c, f) /\ g[i] = w
      BY <1>1, <2>3, <3>1 DEF Last
    <3> QED
      BY <1>3, <3>2
  <2> QED
    BY <2>1, <2>2, <2>3
<1> QED
  BY <1>2, <1>3 DEF Sound, g

(* The rest of a sound history is sound.                                    *)
LEMMA SoundSeen ==
  ASSUME NEW c \in AnyVersion, NEW f \in Seq(AnyVersion), f # <<>>, Sound(c, f)
  PROVE  Sound(Head(f), Tail(f))
<1> DEFINE h == Head(f)  g == Tail(f)
<1>1. /\ Len(f) \in Nat \ {0} /\ Len(g) = Len(f) - 1
      /\ \A i \in 1..(Len(f) - 1) : g[i] = f[i + 1]
      /\ \A i \in 0..(Len(f) - 1) :
           Shown(h, g, i) = f[i + 1] /\ Shown(c, f, i + 1) = f[i + 1]
  BY Seen
<1> HIDE DEF g, h
<1>2. ASSUME NEW i \in 0..Len(g), Shown(h, g, i).state = "pending"
      PROVE  Shown(h, g, i).id \in Ids
  <2>1. i \in 0..(Len(f) - 1) /\ i + 1 \in 0..Len(f)
    BY <1>1
  <2> QED
    BY <1>1, <1>2, <2>1 DEF Sound
<1>3. ASSUME NEW i \in 1..Len(g), Shown(h, g, i - 1).id = NoId, g[i].id # NoId
      PROVE  Asks(Shown(h, g, i - 1), g[i])
  <2>1. /\ i - 1 \in 0..(Len(f) - 1) /\ i - 1 + 1 = i /\ i + 1 - 1 = i
        /\ i + 1 \in 1..Len(f) /\ i \in 1..(Len(f) - 1)
    BY <1>1
  <2>2. Shown(h, g, i - 1) = Shown(c, f, i + 1 - 1) /\ g[i] = f[i + 1]
    BY <1>1, <2>1
  <2> QED
    BY <1>3, <2>1, <2>2 DEF Sound
<1> QED
  BY <1>2, <1>3 DEF Sound, g, h

-----------------------------------------------------------------------------
(* A write announces what it makes pending.                                 *)
LEMMA AnnouncedWritten ==
  ASSUME NEW c \in AnyVersion, NEW f \in Seq(AnyVersion), NEW w \in AnyVersion,
         Announced(c, f)
  PROVE  Announced(c, Append(f, w))
<1> DEFINE g == Append(f, w)
<1>1. /\ Len(f) \in Nat /\ Len(g) = Len(f) + 1
      /\ \A i \in 0..Len(f) : Shown(c, g, i) = Shown(c, f, i)
      /\ \A i \in 1..Len(f) : g[i] = f[i]
      /\ g[Len(f) + 1] = w
      /\ Last(c, g) = w
  BY Written
<1> HIDE DEF g
<1> SUFFICES ASSUME Last(c, g).state = "pending",
                    NEW j \in 0..Len(g), Shown(c, g, j).state # "pending"
             PROVE  \E i \in (j + 1)..Len(g) : Begins(c, g, i)
  BY DEF Announced, g
<1>2. j \in 0..Len(f)
  <2>1. j # Len(g)
    BY DEF Last
  <2> QED
    BY <1>1, <2>1
<1>3. CASE Last(c, f).state = "pending"
  <2>1. PICK i \in (j + 1)..Len(f) : Begins(c, f, i)
    BY <1>1, <1>2, <1>3 DEF Announced
  <2>2. i \in (j + 1)..Len(g) /\ i - 1 \in 0..Len(f) /\ i \in 1..Len(f)
    BY <1>1, <1>2
  <2>3. Begins(c, g, i)
    BY <1>1, <2>1, <2>2 DEF Begins
  <2> QED
    BY <2>2, <2>3
<1>4. CASE Last(c, f).state # "pending"
  <2>1. Len(g) \in (j + 1)..Len(g) /\ Len(g) - 1 = Len(f) /\ Len(f) \in 0..Len(f)
    BY <1>1, <1>2
  <2>2. Shown(c, g, Len(g) - 1) = Last(c, f) /\ g[Len(g)] = w
    BY <1>1, <2>1 DEF Last
  <2>3. Begins(c, g, Len(g))
    BY <1>1, <1>4, <2>2 DEF Begins
  <2> QED
    BY <2>1, <2>3
<1> QED
  BY <1>3, <1>4

(* What is still to be shown is still announced.                            *)
LEMMA AnnouncedSeen ==
  ASSUME NEW c \in AnyVersion, NEW f \in Seq(AnyVersion), f # <<>>, Announced(c, f)
  PROVE  Announced(Head(f), Tail(f))
<1> DEFINE h == Head(f)  g == Tail(f)
<1>1. /\ Len(f) \in Nat \ {0} /\ Len(g) = Len(f) - 1
      /\ \A i \in 1..(Len(f) - 1) : g[i] = f[i + 1]
      /\ \A i \in 0..(Len(f) - 1) :
           Shown(h, g, i) = f[i + 1] /\ Shown(c, f, i + 1) = f[i + 1]
      /\ Last(h, g) = Last(c, f)
  BY Seen
<1> HIDE DEF g, h
<1> SUFFICES ASSUME Last(h, g).state = "pending",
                    NEW j \in 0..Len(g), Shown(h, g, j).state # "pending"
             PROVE  \E i \in (j + 1)..Len(g) : Begins(h, g, i)
  BY DEF Announced, g, h
<1>2. j + 1 \in 0..Len(f) /\ j \in 0..(Len(f) - 1)
  BY <1>1
<1>3. PICK i \in (j + 1 + 1)..Len(f) : Begins(c, f, i)
  BY <1>1, <1>2 DEF Announced
<1>4. /\ i - 1 \in (j + 1)..Len(g) /\ i - 1 \in 1..(Len(f) - 1)
      /\ i - 1 - 1 \in 0..(Len(f) - 1) /\ i - 1 - 1 + 1 = i - 1 /\ i - 1 + 1 = i
  BY <1>1, <1>2
<1>5. Shown(h, g, i - 1 - 1) = Shown(c, f, i - 1) /\ g[i - 1] = f[i]
  BY <1>1, <1>4
<1>6. Begins(h, g, i - 1)
  BY <1>3, <1>5 DEF Begins
<1> QED
  BY <1>4, <1>6

-----------------------------------------------------------------------------
(* A write that is no ask leaves the account as it is.                      *)
LEMMA PaidWritten ==
  ASSUME NEW c \in AnyVersion, NEW f \in Seq(AnyVersion), NEW w \in AnyVersion,
         NEW asks \in Nat, NEW spent \in Nat, NEW busy \in Nat,
         Paid(c, f, asks, spent, busy)
  PROVE  Paid(c, Append(f, w),
              IF Asks(Last(c, f), w) THEN asks + 1 ELSE asks, spent, busy)
<1> DEFINE g == Append(f, w)
           more == IF Asks(Last(c, f), w) THEN asks + 1 ELSE asks
<1>1. /\ Len(f) \in Nat /\ Len(g) = Len(f) + 1
      /\ \A i \in 0..Len(f) : Shown(c, g, i) = Shown(c, f, i)
      /\ \A i \in 1..Len(f) : g[i] = f[i]
      /\ g[Len(f) + 1] = w
  BY Written
<1>2. PICK n : /\ Counts(c, f, asks, n)
               /\ spent <= Allowed(n[0])
               /\ n[0] = 0 => c.id = NoId /\ busy = 0
  BY DEF Paid
<1>3. more \in Nat /\ asks <= more
  OBVIOUS
<1> DEFINE m == [i \in 0..(Len(f) + 1) |-> IF i = Len(f) + 1 THEN more ELSE n[i]]
<1>4. /\ n \in [0..Len(f) -> 0..asks] /\ n[Len(f)] = asks
      /\ \A i \in 1..Len(f) :
           n[i] = IF Asks(Shown(c, f, i - 1), f[i]) THEN n[i - 1] + 1 ELSE n[i - 1]
  BY <1>2 DEF Counts
<1>m. more = IF Asks(Last(c, f), w) THEN asks + 1 ELSE asks
  OBVIOUS
<1> HIDE DEF g, more
<1>5. \A i \in 0..Len(f) : m[i] = n[i]
  BY <1>1
<1>6. m[Len(f) + 1] = more
  BY <1>1
<1>7. m \in [0..(Len(f) + 1) -> 0..more]
  <2> SUFFICES ASSUME NEW i \in 0..(Len(f) + 1)
               PROVE  (IF i = Len(f) + 1 THEN more ELSE n[i]) \in 0..more
    OBVIOUS
  <2>1. i = Len(f) + 1 \/ i \in 0..Len(f)
    BY <1>1
  <2>2. i \in 0..Len(f) => n[i] \in 0..asks
    BY <1>4
  <2> QED
    BY <1>3, <2>1, <2>2
<1> HIDE DEF m
<1>8. ASSUME NEW i \in 1..Len(g)
      PROVE  m[i] = IF Asks(Shown(c, g, i - 1), g[i]) THEN m[i - 1] + 1 ELSE m[i - 1]
  <2>1. i \in 1..Len(f) \/ i = Len(f) + 1
    BY <1>1
  <2>2. CASE i \in 1..Len(f)
    <3>1. i - 1 \in 0..Len(f) /\ i \in 0..Len(f)
      BY <1>1, <2>2
    <3>2. /\ m[i] = n[i] /\ m[i - 1] = n[i - 1]
          /\ Shown(c, g, i - 1) = Shown(c, f, i - 1) /\ g[i] = f[i]
      BY <1>1, <1>5, <2>2, <3>1
    <3> QED
      BY <1>4, <2>2, <3>2
  <2>3. CASE i = Len(f) + 1
    <3>1. i - 1 = Len(f) /\ Len(f) \in 0..Len(f)
      BY <1>1, <2>3
    <3>2. /\ m[i] = more /\ m[i - 1] = asks
          /\ Shown(c, g, i - 1) = Last(c, f) /\ g[i] = w
      BY <1>1, <1>4, <1>5, <1>6, <2>3, <3>1 DEF Last
    <3> QED
      BY <1>m, <3>2
  <2> QED
    BY <2>1, <2>2, <2>3
<1>9. Counts(c, g, more, m)
  BY <1>1, <1>6, <1>7, <1>8 DEF Counts
<1>10. m[0] = n[0]
  BY <1>1, <1>5
<1>11. Paid(c, g, more, spent, busy)
  BY <1>2, <1>9, <1>10 DEF Paid
<1> QED
  BY <1>11 DEF g, more

(* When the cache shows a version that an ask made, two more restores are   *)
(* paid for, or the first; otherwise nothing changes.                       *)
LEMMA PaidSeen ==
  ASSUME NEW c \in AnyVersion, NEW f \in Seq(AnyVersion), f # <<>>, Sound(c, f),
         NEW asks \in Nat, NEW spent \in Nat, NEW busy \in Nat,
         NEW more \in Nat, NEW busier \in Nat,
         Paid(c, f, asks, spent, busy),
         ~Asks(c, Head(f)) => more <= spent,
         Asks(c, Head(f)) => more <= spent + 2,
         Asks(c, Head(f)) /\ busy = 0 => more <= spent + 1,
         ~Asks(c, Head(f)) /\ Head(f).id = NoId /\ busy = 0 => busier = 0
  PROVE  Paid(Head(f), Tail(f), asks, more, busier)
<1> DEFINE h == Head(f)  g == Tail(f)
<1>1. /\ Len(f) \in Nat \ {0} /\ Len(g) = Len(f) - 1 /\ h = f[1]
      /\ \A i \in 1..(Len(f) - 1) : g[i] = f[i + 1]
      /\ \A i \in 0..(Len(f) - 1) :
           Shown(h, g, i) = f[i + 1] /\ Shown(c, f, i + 1) = f[i + 1]
  BY Seen
<1>2. PICK n : /\ Counts(c, f, asks, n)
               /\ spent <= Allowed(n[0])
               /\ n[0] = 0 => c.id = NoId /\ busy = 0
  BY DEF Paid
<1>3. /\ n \in [0..Len(f) -> 0..asks] /\ n[Len(f)] = asks
      /\ \A i \in 1..Len(f) :
           n[i] = IF Asks(Shown(c, f, i - 1), f[i]) THEN n[i - 1] + 1 ELSE n[i - 1]
  BY <1>2 DEF Counts
<1> HIDE DEF g, h
<1> DEFINE m == [i \in 0..(Len(f) - 1) |-> n[i + 1]]
<1>4. m \in [0..(Len(f) - 1) -> 0..asks]
  <2> SUFFICES ASSUME NEW i \in 0..(Len(f) - 1) PROVE n[i + 1] \in 0..asks
    OBVIOUS
  <2>1. i + 1 \in 0..Len(f)
    BY <1>1
  <2> QED
    BY <1>3, <2>1
<1>5. \A i \in 0..(Len(f) - 1) : m[i] = n[i + 1]
  OBVIOUS
<1> HIDE DEF m
<1>6. ASSUME NEW i \in 1..Len(g)
      PROVE  m[i] = IF Asks(Shown(h, g, i - 1), g[i]) THEN m[i - 1] + 1 ELSE m[i - 1]
  <2>1. /\ i \in 0..(Len(f) - 1) /\ i - 1 \in 0..(Len(f) - 1) /\ i \in 1..(Len(f) - 1)
        /\ i - 1 + 1 = i /\ i + 1 - 1 = i /\ i + 1 \in 1..Len(f)
    BY <1>1
  <2>2. /\ m[i] = n[i + 1] /\ m[i - 1] = n[i]
        /\ Shown(h, g, i - 1) = Shown(c, f, i) /\ g[i] = f[i + 1]
    BY <1>1, <1>5, <2>1
  <2> QED
    BY <1>3, <2>1, <2>2
<1>7. m[Len(g)] = asks
  <2>1. Len(f) - 1 \in 0..(Len(f) - 1) /\ Len(f) - 1 + 1 = Len(f)
    BY <1>1
  <2> QED
    BY <1>1, <1>3, <1>5, <2>1
<1>8. Counts(h, g, asks, m)
  BY <1>1, <1>4, <1>6, <1>7 DEF Counts
<1>9. /\ n[0] \in Nat /\ m[0] = n[1]
      /\ n[1] = IF Asks(c, h) THEN n[0] + 1 ELSE n[0]
  <2>1. 0 \in 0..(Len(f) - 1) /\ 0 + 1 = 1 /\ 1 - 1 = 0 /\ 1 \in 1..Len(f) /\ 0 \in 0..Len(f)
    BY <1>1
  <2>2. Shown(c, f, 0) = c
    BY DEF Shown
  <2>3. n[0] \in Nat
    BY <1>3, <2>1
  <2>4. m[0] = n[1]
    BY <1>5, <2>1
  <2>5. n[1] = IF Asks(Shown(c, f, 1 - 1), f[1]) THEN n[1 - 1] + 1 ELSE n[1 - 1]
    BY <1>3, <2>1
  <2> QED
    BY <1>1, <2>1, <2>2, <2>3, <2>4, <2>5
<1>10. more <= Allowed(m[0])
  <2>1. CASE ~Asks(c, h)
    BY <1>2, <1>9, <2>1 DEF Allowed, h
  <2>2. CASE Asks(c, h) /\ n[0] = 0
    BY <1>2, <1>9, <2>2 DEF Allowed, h
  <2>3. CASE Asks(c, h) /\ n[0] # 0
    BY <1>2, <1>9, <2>3 DEF Allowed, h
  <2> QED
    BY <2>1, <2>2, <2>3
<1>11. m[0] = 0 => h.id = NoId /\ busier = 0
  <2> SUFFICES ASSUME m[0] = 0 PROVE h.id = NoId /\ busier = 0
    OBVIOUS
  <2>1. n[0] = 0 /\ ~Asks(c, h)
    BY <1>9
  <2>2. c.id = NoId /\ busy = 0
    BY <1>2, <2>1
  <2>3. 1 \in 1..Len(f) /\ 1 - 1 = 0 /\ Shown(c, f, 0) = c
    BY <1>1 DEF Shown
  <2>4. h.id = NoId
    BY <1>1, <2>1, <2>2, <2>3 DEF Sound
  <2> QED
    BY <2>1, <2>2, <2>4 DEF h
<1> QED
  BY <1>8, <1>10, <1>11 DEF Paid, g, h

(* Nothing shown, the account follows what is spent.                        *)
LEMMA PaidKept ==
  ASSUME NEW c, NEW f, NEW asks \in Nat, NEW spent \in Nat, NEW busy \in Nat,
         NEW more \in Nat, NEW busier \in Nat,
         Paid(c, f, asks, spent, busy), Len(f) \in Nat,
         more <= spent,
         busy = 0 => busier = 0
  PROVE  Paid(c, f, asks, more, busier)
<1>1. PICK n : /\ Counts(c, f, asks, n)
               /\ spent <= Allowed(n[0])
               /\ n[0] = 0 => c.id = NoId /\ busy = 0
  BY DEF Paid
<1>2. n[0] \in Nat
  <2>1. n \in [0..Len(f) -> 0..asks] /\ 0 \in 0..Len(f)
    BY <1>1 DEF Counts
  <2> QED
    BY <2>1
<1>3. more <= Allowed(n[0])
  BY <1>1, <1>2 DEF Allowed
<1> QED
  BY <1>1, <1>3 DEF Paid

(* A history of one version.                                                *)
LEMMA PaidAfresh ==
  ASSUME NEW c, NEW asks \in Nat, NEW spent \in Nat, NEW busy \in Nat,
         spent <= Allowed(asks),
         asks = 0 => c.id = NoId /\ busy = 0
  PROVE  Paid(c, <<>>, asks, spent, busy)
<1> DEFINE n == [i \in 0..0 |-> asks]
<1>1. Len(<<>>) = 0 /\ n \in [0..0 -> 0..asks] /\ n[0] = asks
  BY EmptySeq
<1>2. Counts(c, <<>>, asks, n)
  <2>1. 1..0 = {}
    OBVIOUS
  <2> QED
    BY <1>1, <2>1 DEF Counts
<1> QED
  BY <1>1, <1>2 DEF Paid

(* What is spent is at most what all the asks allow.                        *)
LEMMA PaidInAll ==
  ASSUME NEW c \in AnyVersion, NEW f \in Seq(AnyVersion), NEW asks \in Nat,
         NEW spent \in Nat, NEW busy, Paid(c, f, asks, spent, busy)
  PROVE  spent <= Allowed(asks)
<1>1. PICK n : Counts(c, f, asks, n) /\ spent <= Allowed(n[0])
  BY DEF Paid
<1>2. n \in [0..Len(f) -> 0..asks] /\ Len(f) \in Nat
  BY <1>1, LenProperties DEF Counts
<1>3. n[0] \in 0..asks
  <2>1. 0 \in 0..Len(f)
    BY <1>2
  <2> QED
    BY <1>2, <2>1
<1> QED
  BY <1>1, <1>3 DEF Allowed
-----------------------------------------------------------------------------
(* The last version is what the server holds.                               *)
LEMMA LastIs ==
  ASSUME NEW c \in AnyVersion, NEW f \in Seq(AnyVersion)
  PROVE  Last(c, f) = IF f = <<>> THEN c ELSE f[Len(f)]
<1>1. Len(f) \in Nat /\ (Len(f) = 0 <=> f = <<>>)
  BY EmptySeq, LenProperties
<1> QED
  BY <1>1 DEF Last, Shown

(* The types of what the informer has.                                      *)
LEMMA InformerTypes ==
  ASSUME TypeOK, NEW s \in Sets
  PROVE  /\ cached[s] \in AnyVersion /\ feed[s] \in Seq(AnyVersion)
         /\ Server(s) = Last(cached[s], feed[s]) /\ Server(s) \in AnyVersion
         /\ Server(s) # Gone => Server(s) \in Version
<1>1. cached[s] \in AnyVersion /\ feed[s] \in Seq(AnyVersion)
  BY DEF TypeOK, AnyVersion
<1>2. Server(s) = Last(cached[s], feed[s])
  BY <1>1, LastIs DEF Server
<1>3. Server(s) \in AnyVersion
  BY <1>1, <1>2, VersionsOf
<1> QED
  BY <1>1, <1>2, <1>3 DEF AnyVersion

(* The same after a step.                                                   *)
LEMMA InformerTypesAfter ==
  ASSUME TypeOK', NEW s \in Sets
  PROVE  /\ cached'[s] \in AnyVersion /\ feed'[s] \in Seq(AnyVersion)
         /\ Server(s)' = Last(cached'[s], feed'[s])
<1>1. cached'[s] \in AnyVersion /\ feed'[s] \in Seq(AnyVersion)
  BY DEF TypeOK, AnyVersion
<1>2. Server(s)' = Last(cached'[s], feed'[s])
  BY <1>1, LastIs DEF Server
<1> QED
  BY <1>1, <1>2

(* A write of s touches no other StatefulSet, and adds a version to s if it *)
(* changes anything.                                                        *)
LEMMA WriteOne ==
  ASSUME TypeOK, NEW s \in Sets, NEW version \in AnyVersion, Write(s, version)
  PROVE  /\ feed' \in [Sets -> Seq(Version \cup {Gone})]
         /\ \A r \in Sets \ {s} : feed'[r] = feed[r]
         /\ version = Server(s) => feed' = feed
         /\ version # Server(s) => feed'[s] = Append(feed[s], version)
<1>1. feed \in [Sets -> Seq(AnyVersion)]
  BY DEF TypeOK, AnyVersion
<1>2. Append(feed[s], version) \in Seq(AnyVersion)
  BY <1>1, AppendProperties
<1> QED
  BY <1>1, <1>2 DEF Write, AnyVersion

(* What each write of the controller and of the others makes of the server's*)
(* version: only asks give an id or make pending.                           *)
NoAsk(old, new) ==
  /\ new \in AnyVersion /\ new # old
  /\ ~Asks(old, new)
  /\ new.state = "pending" => old.state = "pending" /\ new.id = old.id
  /\ new.id # NoId => new.id = old.id

(* A patch of the state of what is there.                                   *)
LEMMA PatchOne ==
  ASSUME TypeOK, NEW s \in Sets, NEW state \in {"running", "done"}, Patched(s, state)
  PROVE  /\ feed' \in [Sets -> Seq(Version \cup {Gone})]
         /\ \A r \in Sets \ {s} : feed'[r] = feed[r]
         /\ \/ feed' = feed /\ Server(s).state = state
            \/ \E w : /\ NoAsk(Server(s), w) /\ w.state = state
                      /\ feed'[s] = Append(feed[s], w)
<1> DEFINE w == [Server(s) EXCEPT !.state = state]
<1>1. Server(s) \in Version
  BY InformerTypes DEF Patched
<1>2. w \in Version /\ w.state = state /\ w.id = Server(s).id
  BY <1>1 DEF Version
<1>3. Write(s, w) /\ w \in AnyVersion
  BY <1>2 DEF Patched, AnyVersion
<1> HIDE DEF w
<1>4. /\ feed' \in [Sets -> Seq(Version \cup {Gone})]
      /\ \A r \in Sets \ {s} : feed'[r] = feed[r]
      /\ w = Server(s) => feed' = feed
      /\ w # Server(s) => feed'[s] = Append(feed[s], w)
  BY <1>3, WriteOne
<1>5. w # Server(s) => NoAsk(Server(s), w)
  BY <1>2, <1>3 DEF NoAsk, Asks
<1> QED
  BY <1>2, <1>4, <1>5

(* A write of the user or of the operator.                                  *)
LEMMA OutsideOne ==
  ASSUME TypeOK, NEW s \in Sets, NEW version \in AnyVersion, Outside(s, version)
  PROVE  /\ feed' \in [Sets -> Seq(Version \cup {Gone})]
         /\ \A r \in Sets \ {s} : feed'[r] = feed[r]
         /\ feed'[s] = Append(feed[s], version) /\ version # Server(s)
BY WriteOne DEF Outside

(* An ask of the user.                                                      *)
LEMMA AskOne ==
  ASSUME TypeOK, NEW s \in Sets, NEW id \in Ids, Ask(s, id)
  PROVE  /\ feed' \in [Sets -> Seq(Version \cup {Gone})]
         /\ \A r \in Sets \ {s} : feed'[r] = feed[r]
         /\ \E w \in Version : /\ feed'[s] = Append(feed[s], w) /\ Asks(Server(s), w)
                               /\ w.id \in Ids /\ w.state = "pending"
<1> DEFINE w == [Server(s) EXCEPT !.id = id, !.state = "pending"]
<1>1. Server(s) \in Version
  BY InformerTypes DEF Ask
<1>2. w \in Version /\ w.id = id /\ w.state = "pending"
  BY <1>1 DEF Version
<1>3. Server(s).state = "pending" /\ Server(s).id = id => w = Server(s)
  BY <1>1 DEF Version
<1>4. Outside(s, w) /\ w \in AnyVersion
  BY <1>2 DEF Ask, AnyVersion
<1> HIDE DEF w
<1>5. /\ feed' \in [Sets -> Seq(Version \cup {Gone})]
      /\ \A r \in Sets \ {s} : feed'[r] = feed[r]
      /\ feed'[s] = Append(feed[s], w) /\ w # Server(s)
  BY <1>4, OutsideOne
<1>6. Asks(Server(s), w)
  BY <1>2, <1>3, <1>5 DEF Asks
<1> QED
  BY <1>2, <1>5, <1>6

(* A write of anybody else.                                                 *)
LEMMA OthersOne ==
  ASSUME TypeOK, NEW s \in Sets, ReadinessChanges(s) \/ Deleted(s) \/ CreatedAgain(s)
  PROVE  /\ feed' \in [Sets -> Seq(Version \cup {Gone})]
         /\ \A r \in Sets \ {s} : feed'[r] = feed[r]
         /\ \E w : NoAsk(Server(s), w) /\ feed'[s] = Append(feed[s], w)
<1> DEFINE v == Server(s)
           turned == [v EXCEPT !.ready = ~@]
<1>1. v \in AnyVersion /\ (v # Gone => v \in Version)
  BY InformerTypes
<1>2. CASE ReadinessChanges(s)
  <2>1. v \in Version
    BY <1>1, <1>2 DEF ReadinessChanges
  <2>2. turned \in Version /\ turned.id = v.id /\ turned.state = v.state
    BY <2>1 DEF Version
  <2>3. Outside(s, turned) /\ turned \in AnyVersion
    BY <1>2, <2>2 DEF ReadinessChanges, AnyVersion
  <2> HIDE DEF turned, v
  <2>4. /\ feed' \in [Sets -> Seq(Version \cup {Gone})]
        /\ \A r \in Sets \ {s} : feed'[r] = feed[r]
        /\ feed'[s] = Append(feed[s], turned) /\ turned # v
    BY <2>3, OutsideOne DEF v
  <2>5. NoAsk(v, turned)
    BY <2>2, <2>3, <2>4 DEF NoAsk, Asks
  <2> QED
    BY <2>4, <2>5 DEF v
<1>3. CASE Deleted(s)
  <2>1. Gone \in AnyVersion /\ Gone.state = "gone" /\ Gone.id = NoId
    BY DEF AnyVersion, Gone
  <2>2. /\ feed' \in [Sets -> Seq(Version \cup {Gone})]
        /\ \A r \in Sets \ {s} : feed'[r] = feed[r]
        /\ feed'[s] = Append(feed[s], Gone) /\ Gone # v
    BY <1>3, <2>1, OutsideOne DEF Deleted
  <2>3. NoAsk(v, Gone)
    BY <2>1, <2>2 DEF NoAsk, Asks
  <2> QED
    BY <2>2, <2>3
<1>4. CASE CreatedAgain(s)
  <2>1. New \in AnyVersion /\ New.state = "" /\ New.id = NoId
    BY DEF AnyVersion, New, Version
  <2>2. /\ feed' \in [Sets -> Seq(Version \cup {Gone})]
        /\ \A r \in Sets \ {s} : feed'[r] = feed[r]
        /\ feed'[s] = Append(feed[s], New) /\ New # v
    BY <1>4, <2>1, OutsideOne DEF CreatedAgain
  <2>3. NoAsk(v, New)
    BY <2>1, <2>2 DEF NoAsk, Asks
  <2> QED
    BY <2>2, <2>3
<1> QED
  BY <1>2, <1>3, <1>4

-----------------------------------------------------------------------------
(* Pending versions of the cache have an id.                                *)
LEMMA CachedPending ==
  ASSUME TypeOK, NEW s \in Sets, HistoryInv(s), cached[s].state = "pending"
  PROVE  cached[s].id \in Ids /\ cached[s] \in Version
<1>1. cached[s] \in AnyVersion /\ feed[s] \in Seq(AnyVersion)
  BY InformerTypes
<1>2. 0 \in 0..Len(feed[s]) /\ Shown(cached[s], feed[s], 0) = cached[s]
  BY <1>1, VersionsOf DEF Shown
<1> QED
  BY <1>1, <1>2 DEF HistoryInv, Sound, AnyVersion, Gone

(* What Reconcile holds in memory, and what the dispatchers do.             *)
ThreadInv == ReconcileInv /\ \A d \in Dispatchers : DispatcherInv(d)

(* Before the first step there is nothing in memory.                        *)
LEMMA InitTypes == Init => TypeOK /\ ThreadInv
<1> SUFFICES ASSUME Init PROVE TypeOK /\ ThreadInv
  OBVIOUS
<1>1. /\ cached \in [Sets -> Version \cup {Gone}]
      /\ feed \in [Sets -> Seq(Version \cup {Gone})]
  BY EmptySeq DEF Init, New, Version
<1>2. queue \in Seq(Task) /\ Len(queue) <= MaxQueue
  BY EmptySeq, ConstantsAssumption DEF Init
<1>3. /\ stage \in [Dispatchers -> {"idle", "restore", "get", "patch"}]
      /\ task \in [Dispatchers -> Task \cup {NoTask}]
      /\ base \in [Dispatchers -> Version \cup {Gone}]
  BY DEF Init
<1>4. crashes \in 0..MaxCrashes /\ asked \in [Sets -> 0..MaxAsks] /\ sent \in [Sets -> Nat]
  BY ConstantsAssumption DEF Init
<1>5. TypeOK
  BY <1>1, <1>2, <1>3, <1>4 DEF Init, TypeOK
<1>6. ThreadInv
  BY DEF Init, ThreadInv, ReconcileInv, DispatcherInv
<1> QED
  BY <1>5, <1>6

(* Types and memory, after a write of the user or of the operator,          *)
LEMMA EnvironmentTypes ==
  ASSUME TypeOK, ThreadInv, NEW s \in Sets, Environment(s)
  PROVE  TypeOK' /\ ThreadInv'
<1>1. /\ feed' \in [Sets -> Seq(Version \cup {Gone})]
      /\ asked' \in [Sets -> 0..MaxAsks]
      /\ UNCHANGED <<cached, reconcileVars, dispatcherVars, crashes, sent, ran, unready>>
  <2>1. CASE \E id \in Ids : Ask(s, id)
    <3>1. PICK id \in Ids : Ask(s, id)
      BY <2>1
    <3>2. feed' \in [Sets -> Seq(Version \cup {Gone})]
      BY <3>1, AskOne
    <3>3. asked[s] \in 0..MaxAsks /\ asked[s] < MaxAsks /\ MaxAsks \in Nat
      BY <3>1, ConstantsAssumption DEF TypeOK, Ask
    <3>4. asked[s] + 1 \in 0..MaxAsks
      BY <3>3
    <3>5. asked' \in [Sets -> 0..MaxAsks]
      BY <3>1, <3>4 DEF TypeOK, Ask
    <3> QED
      BY <3>1, <3>2, <3>5 DEF Ask, Outside
  <2>2. CASE ReadinessChanges(s) \/ Deleted(s) \/ CreatedAgain(s)
    <3>1. feed' \in [Sets -> Seq(Version \cup {Gone})]
      BY <2>2, OthersOne
    <3>2. asked' \in [Sets -> 0..MaxAsks]
      BY <2>2 DEF TypeOK, ReadinessChanges, Deleted, CreatedAgain
    <3> QED
      BY <2>2, <3>1, <3>2 DEF ReadinessChanges, Deleted, CreatedAgain, Outside
  <2> QED
    BY <2>1, <2>2 DEF Environment
<1>2. TypeOK'
  BY <1>1 DEF TypeOK, reconcileVars, dispatcherVars
<1>3. ThreadInv'
  BY <1>1 DEF ThreadInv, ReconcileInv, DispatcherInv, reconcileVars, dispatcherVars
<1> QED
  BY <1>2, <1>3

(* after a step of the informer or of the workqueue,                        *)
LEMMA InformerStepTypes ==
  ASSUME TypeOK, ThreadInv, NEW s \in Sets, CacheSees(s) \/ Begin(s)
  PROVE  TypeOK' /\ ThreadInv'
<1>1. CASE CacheSees(s)
  <2>1. feed[s] \in Seq(AnyVersion) /\ feed[s] # <<>>
    BY <1>1 DEF TypeOK, AnyVersion, CacheSees
  <2>2. Head(feed[s]) \in AnyVersion /\ Tail(feed[s]) \in Seq(AnyVersion)
    BY <2>1, HeadTailProperties
  <2>3. /\ cached' \in [Sets -> Version \cup {Gone}]
        /\ feed' \in [Sets -> Seq(Version \cup {Gone})]
    BY <1>1, <2>2 DEF TypeOK, AnyVersion, CacheSees
  <2>4. work' \in SUBSET Sets
    BY <1>1 DEF TypeOK, CacheSees
  <2>5. TypeOK'
    BY <1>1, <2>3, <2>4 DEF TypeOK, CacheSees, dispatcherVars, history
  <2>6. ThreadInv'
    BY <1>1 DEF ThreadInv, ReconcileInv, DispatcherInv, CacheSees, dispatcherVars, history
  <2> QED
    BY <2>5, <2>6
<1>2. CASE Begin(s)
  <2>1. TypeOK'
    BY <1>2 DEF TypeOK, Begin, informer, dispatcherVars, history
  <2>2. ReconcileInv'
    BY <1>2, ConstantsAssumption DEF ReconcileInv, Begin
  <2>3. ThreadInv'
    BY <1>2, <2>2 DEF ThreadInv, DispatcherInv, Begin, dispatcherVars, history
  <2> QED
    BY <2>1, <2>3
<1> QED
  BY <1>1, <1>2

(* Reconcile has a StatefulSet in hand.                                     *)
LEMMA CurrentIs ==
  ASSUME TypeOK, ThreadInv, at # "none"
  PROVE  current \in Sets
BY DEF TypeOK, ThreadInv, ReconcileInv

(* after a step of Reconcile,                                               *)
LEMMA ReconcileTypes ==
  ASSUME TypeOK, ThreadInv, \A s \in Sets : HistoryInv(s), Reconcile
  PROVE  TypeOK' /\ ThreadInv'
<1>0. at # "none" /\ current \in Sets
  <2>1. at # "none"
    BY DEF Reconcile, Skip, Take, MarkRunning, Send
  <2> QED
    BY <2>1, CurrentIs
<1>1. CASE Skip
  <2>1. unready' \in SUBSET Sets
    BY <1>0, <1>1 DEF TypeOK, Skip
  <2>2. TypeOK'
    BY <1>1, <2>1 DEF TypeOK, Skip, Forget, Return, informer, dispatcherVars
  <2>3. ThreadInv'
    BY <1>1 DEF ThreadInv, ReconcileInv, DispatcherInv, Skip, Forget, Return, dispatcherVars
  <2> QED
    BY <2>2, <2>3
<1>2. CASE Take
  <2>1. taskID' \in Ids
    BY <1>0, <1>2, CachedPending DEF Take
  <2>2. TypeOK'
    BY <1>2, <2>1 DEF TypeOK, Take, informer, dispatcherVars, history
  <2>3. ReconcileInv'
    BY <1>2, <2>1 DEF ThreadInv, ReconcileInv, Take
  <2>4. ThreadInv'
    BY <1>2, <2>3 DEF ThreadInv, DispatcherInv, Take, dispatcherVars, history
  <2> QED
    BY <2>2, <2>4
<1>3. CASE MarkRunning
  <2>1. /\ feed' \in [Sets -> Seq(Version \cup {Gone})]
        /\ \/ at' = "send" /\ UNCHANGED <<work, current, taskID>>
           \/ Requeue
        /\ at = "patch"
        /\ UNCHANGED <<cached, dispatcherVars, history>>
    <3>1. Patched(current, "running") => feed' \in [Sets -> Seq(Version \cup {Gone})]
      BY <1>0, PatchOne
    <3>2. UNCHANGED feed => feed' \in [Sets -> Seq(Version \cup {Gone})]
      BY DEF TypeOK
    <3> QED
      BY <1>3, <3>1, <3>2 DEF MarkRunning
  <2>2. TypeOK'
    <3>1. work' \in SUBSET Sets /\ current' \in Sets \cup {NoSet}
          /\ at' \in {"none", "get", "patch", "send"} /\ taskID' \in Ids \cup {NoId}
      BY <1>0, <2>1 DEF TypeOK, Requeue, Return
    <3> QED
      BY <2>1, <3>1 DEF TypeOK, dispatcherVars, history
  <2>3. ReconcileInv'
    BY <2>1 DEF ThreadInv, ReconcileInv, Requeue, Return
  <2>4. ThreadInv'
    BY <2>1, <2>3 DEF ThreadInv, DispatcherInv, dispatcherVars, history
  <2> QED
    BY <2>2, <2>4
<1>4. CASE Send
  <2>1. [set |-> current, id |-> taskID] \in Task
    BY <1>0, <1>4 DEF Task, ThreadInv, ReconcileInv, Send
  <2>2. queue' \in Seq(Task) /\ Len(queue') <= MaxQueue
    <3>1. queue \in Seq(Task) /\ Len(queue) < MaxQueue /\ MaxQueue \in Nat
      BY <1>4, ConstantsAssumption DEF TypeOK, Send
    <3>2. queue' \in Seq(Task) /\ Len(queue') = Len(queue) + 1 /\ Len(queue) \in Nat
      BY <1>4, <2>1, <3>1, AppendProperties, LenProperties DEF Send
    <3> QED
      BY <3>1, <3>2
  <2>3. sent' \in [Sets -> Nat]
    <3>1. sent[current] + 1 \in Nat
      BY <1>0 DEF TypeOK
    <3> QED
      BY <1>4, <3>1 DEF TypeOK, Send
  <2>4. TypeOK'
    BY <1>4, <2>2, <2>3 DEF TypeOK, Send, Forget, Return, informer
  <2>5. ThreadInv'
    BY <1>4 DEF ThreadInv, ReconcileInv, DispatcherInv, Send, Forget, Return
  <2> QED
    BY <2>4, <2>5
<1> QED
  BY <1>1, <1>2, <1>3, <1>4 DEF Reconcile

(* after a step of a dispatcher,                                            *)
LEMMA DispatcherTypes ==
  ASSUME TypeOK, ThreadInv, NEW d \in Dispatchers, DispatcherStep(d)
  PROVE  TypeOK' /\ ThreadInv'
<1>0. /\ stage \in [Dispatchers -> {"idle", "restore", "get", "patch"}]
      /\ task \in [Dispatchers -> Task \cup {NoTask}]
      /\ base \in [Dispatchers -> Version \cup {Gone}]
      /\ ran \in SUBSET Task
      /\ \A e \in Dispatchers : DispatcherInv(e)
  BY DEF TypeOK, ThreadInv
<1>r. UNCHANGED reconcileVars => ReconcileInv'
  BY DEF ThreadInv, ReconcileInv, reconcileVars
<1>1. CASE Receive(d)
  <2>1. queue \in Seq(Task) /\ queue # <<>> /\ Len(queue) <= MaxQueue /\ MaxQueue \in Nat
    BY <1>1, ConstantsAssumption DEF TypeOK, Receive
  <2>2. Head(queue) \in Task /\ Tail(queue) \in Seq(Task) /\ Len(Tail(queue)) = Len(queue) - 1
    BY <2>1, HeadTailProperties
  <2>3. Len(Tail(queue)) <= MaxQueue
    <3>1. Len(queue) \in Nat
      BY <2>1, LenProperties
    <3> QED
      BY <2>1, <2>2, <3>1
  <2>4. task' \in [Dispatchers -> Task \cup {NoTask}] /\ task'[d] \in Task
    BY <1>0, <1>1, <2>2 DEF Receive
  <2>5. stage' \in [Dispatchers -> {"idle", "restore", "get", "patch"}] /\ stage'[d] = "restore"
    BY <1>0, <1>1 DEF Receive
  <2>6. TypeOK'
    BY <1>1, <2>2, <2>3, <2>4, <2>5 DEF TypeOK, Receive, informer, reconcileVars, history
  <2>7. ASSUME NEW e \in Dispatchers PROVE DispatcherInv(e)'
    <3>1. CASE e = d
      BY <2>4, <2>5, <3>1 DEF DispatcherInv
    <3>2. CASE e # d
      BY <1>0, <1>1, <3>2 DEF DispatcherInv, Receive, history
    <3> QED
      BY <3>1, <3>2
  <2> QED
    BY <1>1, <1>r, <2>6, <2>7 DEF ThreadInv, Receive
<1>2. CASE RestoreIndices(d)
  <2>1. task[d] \in Task
    BY <1>0, <1>2 DEF DispatcherInv, RestoreIndices
  <2>2. ran' \in SUBSET Task /\ task[d] \in ran' /\ ran \subseteq ran'
    BY <1>0, <1>2, <2>1 DEF RestoreIndices
  <2>3. stage' \in [Dispatchers -> {"idle", "restore", "get", "patch"}] /\ stage'[d] = "get"
    BY <1>0, <1>2 DEF RestoreIndices
  <2>4. TypeOK'
    BY <1>2, <2>2, <2>3 DEF TypeOK, RestoreIndices, informer, reconcileVars
  <2>5. ASSUME NEW e \in Dispatchers PROVE DispatcherInv(e)'
    <3>1. CASE e = d
      BY <1>2, <2>1, <2>2, <2>3, <3>1 DEF DispatcherInv, RestoreIndices
    <3>2. CASE e # d
      <4>1. stage'[e] = stage[e] /\ task'[e] = task[e] /\ base'[e] = base[e]
        BY <1>0, <1>2, <3>2 DEF RestoreIndices
      <4> QED
        BY <1>0, <2>2, <4>1 DEF DispatcherInv
    <3> QED
      BY <3>1, <3>2
  <2> QED
    BY <1>2, <1>r, <2>4, <2>5 DEF ThreadInv, RestoreIndices
<1>3. ASSUME Idle(d), feed' \in [Sets -> Seq(Version \cup {Gone})],
             UNCHANGED <<cached, reconcileVars, queue, startCtxDone, returned, history>>
      PROVE  TypeOK' /\ ThreadInv'
  <2>1. /\ stage' \in [Dispatchers -> {"idle", "restore", "get", "patch"}]
        /\ task' \in [Dispatchers -> Task \cup {NoTask}]
        /\ base' \in [Dispatchers -> Version \cup {Gone}]
        /\ stage'[d] = "idle"
    BY <1>0, <1>3 DEF Idle
  <2>2. TypeOK'
    BY <1>3, <2>1 DEF TypeOK, reconcileVars, history
  <2>3. ASSUME NEW e \in Dispatchers PROVE DispatcherInv(e)'
    <3>1. CASE e = d
      BY <2>1, <3>1 DEF DispatcherInv
    <3>2. CASE e # d
      BY <1>0, <1>3, <3>2 DEF DispatcherInv, Idle, history
    <3> QED
      BY <3>1, <3>2
  <2> QED
    BY <1>3, <1>r, <2>2, <2>3 DEF ThreadInv
<1>4. CASE StatusSkipped(d)
  BY <1>3, <1>4 DEF StatusSkipped, informer, TypeOK
<1>5. CASE StatusComputed(d)
  <2>1. /\ stage' \in [Dispatchers -> {"idle", "restore", "get", "patch"}]
        /\ stage[d] = "get" /\ stage'[d] = "patch"
    BY <1>0, <1>5 DEF StatusComputed
  <2>2. task[d] \in Task /\ task[d] \in ran /\ task[d].set \in Sets
    BY <1>0, <2>1 DEF DispatcherInv, Task
  <2>3. cached[task[d].set] \in Version \cup {Gone}
    BY <2>2 DEF TypeOK
  <2>4. /\ base' \in [Dispatchers -> Version \cup {Gone}]
        /\ base'[d].id = task[d].id
    BY <1>0, <1>5, <2>3 DEF StatusComputed
  <2>5. TypeOK'
    BY <1>5, <2>1, <2>4 DEF TypeOK, StatusComputed, informer, reconcileVars, history
  <2>6. ASSUME NEW e \in Dispatchers PROVE DispatcherInv(e)'
    <3>1. CASE e = d
      BY <1>5, <2>1, <2>2, <2>4, <3>1 DEF DispatcherInv, StatusComputed, history
    <3>2. CASE e # d
      BY <1>0, <1>5, <3>2 DEF DispatcherInv, StatusComputed, history
    <3> QED
      BY <3>1, <3>2
  <2> QED
    BY <1>5, <1>r, <2>5, <2>6 DEF ThreadInv, StatusComputed
<1>6. CASE MarkDone(d)
  <2>1. task[d].set \in Sets
    BY <1>0, <1>6 DEF MarkDone, DispatcherInv, Task
  <2>2. feed' \in [Sets -> Seq(Version \cup {Gone})]
    <3>1. Patched(task[d].set, "done") => feed' \in [Sets -> Seq(Version \cup {Gone})]
      BY <2>1, PatchOne
    <3> QED
      BY <1>6, <3>1 DEF MarkDone, TypeOK
  <2> QED
    BY <1>3, <1>6, <2>2 DEF MarkDone
<1> QED
  BY <1>1, <1>2, <1>4, <1>5, <1>6 DEF DispatcherStep

(* and at the end of the start context or of the process.                   *)
LEMMA OtherTypes ==
  ASSUME TypeOK, ThreadInv, StartCtxExpires \/ DispatcherReturns \/ Restart
  PROVE  TypeOK' /\ ThreadInv'
<1>1. CASE StartCtxExpires
  <2>1. TypeOK'
    BY <1>1 DEF TypeOK, StartCtxExpires, informer, reconcileVars, history
  <2>2. ThreadInv'
    BY <1>1 DEF ThreadInv, ReconcileInv, DispatcherInv, StartCtxExpires, reconcileVars, history
  <2> QED
    BY <2>1, <2>2
<1>2. CASE DispatcherReturns
  <2>1. TypeOK'
    BY <1>2 DEF TypeOK, DispatcherReturns, informer, reconcileVars, history, Dispatchers
  <2>2. ThreadInv'
    BY <1>2 DEF ThreadInv, ReconcileInv, DispatcherInv, DispatcherReturns, reconcileVars, history
  <2> QED
    BY <2>1, <2>2
<1>3. CASE Restart
  <2>1. /\ cached' \in [Sets -> Version \cup {Gone}]
        /\ feed' \in [Sets -> Seq(Version \cup {Gone})]
    BY <1>3, EmptySeq, InformerTypes DEF Restart, AnyVersion
  <2>2. crashes' \in 0..MaxCrashes
    BY <1>3, ConstantsAssumption DEF Restart, TypeOK
  <2>3. /\ work' \in SUBSET Sets /\ current' \in Sets \cup {NoSet}
        /\ at' \in {"none", "get", "patch", "send"} /\ taskID' \in Ids \cup {NoId}
    BY <1>3 DEF Restart, NothingInMemory
  <2>4. queue' \in Seq(Task) /\ Len(queue') <= MaxQueue
    BY <1>3, EmptySeq, ConstantsAssumption DEF Restart, NothingInMemory
  <2>5. /\ stage' \in [Dispatchers -> {"idle", "restore", "get", "patch"}]
        /\ task' \in [Dispatchers -> Task \cup {NoTask}]
        /\ base' \in [Dispatchers -> Version \cup {Gone}]
        /\ startCtxDone' \in BOOLEAN /\ returned' \in SUBSET Dispatchers
    BY <1>3 DEF Restart, NothingInMemory
  <2>6. TypeOK'
    BY <1>3, <2>1, <2>2, <2>3, <2>4, <2>5 DEF TypeOK, Restart
  <2>7. ThreadInv'
    BY <1>3 DEF ThreadInv, ReconcileInv, DispatcherInv, Restart, NothingInMemory
  <2> QED
    BY <2>6, <2>7
<1> QED
  BY <1>1, <1>2, <1>3

(* The types and what the threads hold are kept by every step.              *)
LEMMA TypesNext ==
  ASSUME TypeOK, ThreadInv, \A s \in Sets : HistoryInv(s), [Next]_vars
  PROVE  TypeOK' /\ ThreadInv'
<1>1. CASE UNCHANGED vars
  BY <1>1 DEF vars, TypeOK, ThreadInv, ReconcileInv, DispatcherInv
<1>2. CASE Next
  BY <1>2, EnvironmentTypes, InformerStepTypes, ReconcileTypes, DispatcherTypes, OtherTypes
     DEF Next
<1> QED
  BY <1>1, <1>2
-----------------------------------------------------------------------------
(* What a step does to the history of one StatefulSet.                      *)
Quiet(s) ==
  cached'[s] = cached[s] /\ feed'[s] = feed[s] /\ asked'[s] = asked[s]
Rewritten(s) ==
  /\ cached'[s] = cached[s] /\ asked'[s] = asked[s]
  /\ \E w : NoAsk(Server(s), w) /\ feed'[s] = Append(feed[s], w)
AskedFor(s) ==
  /\ cached'[s] = cached[s] /\ asked'[s] = asked[s] + 1
  /\ \E w \in Version : /\ feed'[s] = Append(feed[s], w) /\ Asks(Server(s), w)
                        /\ w.id \in Ids /\ w.state = "pending"
AtMostWritten(s) == Quiet(s) \/ Rewritten(s) \/ AskedFor(s)

(* There is nothing else a step may do to it.                               *)
LEMMA StepsOfOne ==
  ASSUME TypeOK, ThreadInv, [Next]_vars, NEW s \in Sets
  PROVE  AtMostWritten(s) \/ CacheSees(s) \/ Restart
<1>1. ASSUME UNCHANGED <<cached, feed, asked>> PROVE AtMostWritten(s)
  BY <1>1 DEF AtMostWritten, Quiet
<1>2. ASSUME NEW r \in Sets, Environment(r)
      PROVE  AtMostWritten(s)
  <2>1. CASE \E id \in Ids : Ask(r, id)
    <3>1. PICK id \in Ids : Ask(r, id)
      BY <2>1
    <3>2. /\ \A q \in Sets \ {r} : feed'[q] = feed[q]
          /\ \E w \in Version : /\ feed'[r] = Append(feed[r], w) /\ Asks(Server(r), w)
                                /\ w.id \in Ids /\ w.state = "pending"
      BY <3>1, AskOne
    <3>3. cached' = cached /\ asked' = [asked EXCEPT ![r] = @ + 1] /\ asked \in [Sets -> 0..MaxAsks]
      BY <3>1 DEF Ask, Outside, TypeOK
    <3>4. CASE s = r
      BY <3>2, <3>3, <3>4 DEF AtMostWritten, AskedFor
    <3>5. CASE s # r
      BY <3>2, <3>3, <3>5 DEF AtMostWritten, Quiet
    <3> QED
      BY <3>4, <3>5
  <2>2. CASE ReadinessChanges(r) \/ Deleted(r) \/ CreatedAgain(r)
    <3>1. /\ \A q \in Sets \ {r} : feed'[q] = feed[q]
          /\ \E w : NoAsk(Server(r), w) /\ feed'[r] = Append(feed[r], w)
      BY <2>2, OthersOne
    <3>2. cached' = cached /\ asked' = asked
      BY <2>2 DEF ReadinessChanges, Deleted, CreatedAgain, Outside
    <3> QED
      BY <3>1, <3>2 DEF AtMostWritten, Quiet, Rewritten
  <2> QED
    BY <1>2, <2>1, <2>2 DEF Environment
<1>3. ASSUME NEW r \in Sets, CacheSees(r), ~CacheSees(s)
      PROVE  AtMostWritten(s)
  BY <1>3 DEF AtMostWritten, Quiet, CacheSees, TypeOK, history
<1>4. ASSUME NEW r \in Sets, NEW state \in {"running", "done"}, Patched(r, state),
             UNCHANGED <<cached, asked>>
      PROVE  AtMostWritten(s)
  BY <1>4, PatchOne DEF AtMostWritten, Quiet, Rewritten
<1>5. CASE Reconcile
  <2>1. CASE MarkRunning
    <3>1. current \in Sets
      BY <2>1, CurrentIs DEF MarkRunning
    <3>2. Patched(current, "running") \/ UNCHANGED feed
      BY <2>1 DEF MarkRunning
    <3>3. UNCHANGED <<cached, asked>>
      BY <2>1 DEF MarkRunning, history
    <3> QED
      BY <1>1, <1>4, <3>1, <3>2, <3>3
  <2>2. CASE Skip \/ Take \/ Send
    <3>1. UNCHANGED <<cached, feed, asked>>
      BY <2>2 DEF Skip, Take, Send, informer, history
    <3> QED
      BY <1>1, <3>1
  <2> QED
    BY <1>5, <2>1, <2>2 DEF Reconcile
<1>6. ASSUME NEW d \in Dispatchers, DispatcherStep(d)
      PROVE  AtMostWritten(s)
  <2>1. CASE MarkDone(d)
    <3>1. task[d].set \in Sets
      BY <2>1 DEF MarkDone, ThreadInv, DispatcherInv, Task
    <3>2. Patched(task[d].set, "done") \/ UNCHANGED feed
      BY <2>1 DEF MarkDone
    <3>3. UNCHANGED <<cached, asked>>
      BY <2>1 DEF MarkDone, history
    <3> QED
      BY <1>1, <1>4, <3>1, <3>2, <3>3
  <2>2. CASE Receive(d) \/ RestoreIndices(d) \/ StatusSkipped(d) \/ StatusComputed(d)
    <3>1. UNCHANGED <<cached, feed, asked>>
      BY <2>2 DEF Receive, RestoreIndices, StatusSkipped, StatusComputed, informer, history
    <3> QED
      BY <1>1, <3>1
  <2> QED
    BY <1>6, <2>1, <2>2 DEF DispatcherStep
<1>7. UNCHANGED vars => UNCHANGED <<cached, feed, asked>>
  BY DEF vars
<1>8. StartCtxExpires \/ DispatcherReturns => UNCHANGED <<cached, feed, asked>>
  BY DEF StartCtxExpires, DispatcherReturns, informer, history
<1>9. ASSUME NEW r \in Sets, Begin(r) PROVE UNCHANGED <<cached, feed, asked>>
  BY <1>9 DEF Begin, informer, history
<1> QED
  BY <1>1, <1>2, <1>3, <1>5, <1>6, <1>7, <1>8, <1>9 DEF Next

-----------------------------------------------------------------------------
(* In the workqueue, or with a Reconcile that has not yet patched it.       *)
InHand(s) == s \in work \/ (current = s /\ at \in {"get", "patch"})

(* What a step does to the threads, seen from one StatefulSet: nothing more *)
(* is spent, and it is not let go of while it has to be reconciled.         *)
Steady(s) ==
  /\ Spent(s)' <= Spent(s)
  /\ Busy(s) = 0 => Busy(s)' = 0
  /\ InHand(s) => \/ InHand(s)' \/ s \in unready'
                  \/ cached[s].state # "pending" \/ Server(s)'.state # "pending"
  /\ Server(s)'.state = "pending"
       => sent'[s] + Bit((current = s /\ at = "send")')
            <= sent[s] + Bit(current = s /\ at = "send")
  /\ unready \subseteq unready'

(* Every step is steady, other than those of the informer and restarts.     *)
LEMMA StepsAreSteady ==
  ASSUME TypeOK, ThreadInv, TypeOK', [Next]_vars, NEW s \in Sets
  PROVE  Steady(s) \/ CacheSees(s) \/ Restart
<1>0. sent[s] \in Nat /\ sent \in [Sets -> Nat]
  BY DEF TypeOK
<1>e. NoSet # s
  BY ConstantsAssumption
<1>1. ASSUME cached'[s] = cached[s], UNCHANGED <<work, current, at, sent, unready>>
      PROVE  Steady(s)
  <2>1. Spent(s)' = Spent(s) /\ Busy(s)' = Busy(s) /\ (InHand(s) <=> InHand(s)')
    BY <1>1 DEF Spent, Busy, InHand
  <2>2. Spent(s) \in Nat
    BY <1>0 DEF Spent, Bit
  <2>3. sent[s] + Bit(current = s /\ at = "send") \in Nat
    BY <1>0 DEF Bit
  <2> QED
    BY <1>1, <2>1, <2>2, <2>3 DEF Steady
<1>f. ASSUME cached'[s] = cached[s], sent'[s] = sent[s], unready \subseteq unready',
             s \in work' <=> s \in work, current # s, current' # s
      PROVE  Steady(s)
  <2>1. Spent(s)' = Spent(s) /\ Busy(s)' = Busy(s) /\ (InHand(s) <=> InHand(s)')
    BY <1>f DEF Spent, Busy, InHand
  <2>2. Spent(s) \in Nat
    BY <1>0 DEF Spent, Bit
  <2>3. Bit((current = s /\ at = "send")') = 0 /\ Bit(current = s /\ at = "send") = 0
    BY <1>f DEF Bit
  <2> QED
    BY <1>0, <1>f, <2>1, <2>2, <2>3 DEF Steady
<1>2. ASSUME NEW r \in Sets, CacheSees(r), r # s
      PROVE  Steady(s)
  <2>1. cached'[s] = cached[s] /\ UNCHANGED <<current, at, sent, unready>>
    BY <1>2 DEF CacheSees, TypeOK, history
  <2>2. s \in work' <=> s \in work
    BY <1>2 DEF CacheSees
  <2>3. Spent(s)' = Spent(s) /\ Busy(s)' = Busy(s) /\ (InHand(s) <=> InHand(s)')
    BY <2>1, <2>2 DEF Spent, Busy, InHand
  <2>4. Spent(s) \in Nat
    BY <1>0 DEF Spent, Bit
  <2>5. sent[s] + Bit(current = s /\ at = "send") \in Nat
    BY <1>0 DEF Bit
  <2> QED
    BY <2>1, <2>3, <2>4, <2>5 DEF Steady
<1>3. ASSUME NEW r \in Sets, Begin(r)
      PROVE  Steady(s)
  <2>1. /\ current = NoSet /\ current' = r /\ at' = "get" /\ work' = work \ {r} /\ r \in work
        /\ UNCHANGED <<cached, sent, unready>> /\ NoSet # s
    BY <1>3, ConstantsAssumption DEF Begin, informer, history
  <2>2. CASE s = r
    BY <1>0, <2>1, <2>2 DEF Steady, Spent, Busy, InHand, Bit
  <2>3. CASE s # r
    BY <1>0, <2>1, <2>3 DEF Steady, Spent, Busy, InHand, Bit
  <2> QED
    BY <2>2, <2>3
<1>4. CASE Reconcile
  <2>0. at # "none" /\ current \in Sets /\ current # NoSet
    <3>1. at # "none"
      BY <1>4 DEF Reconcile, Skip, Take, MarkRunning, Send
    <3> QED
      BY <3>1, CurrentIs, ConstantsAssumption
  <2>1. CASE Skip
    <3>1. /\ at = "get" /\ current' = NoSet /\ at' = "none" /\ work' = work
          /\ UNCHANGED <<cached, sent>> /\ unready \subseteq unready'
      BY <2>1 DEF Skip, Forget, Return, informer
    <3>2. current = s => cached[s].state # "pending" \/ s \in unready'
      BY <2>1 DEF Skip, Gone
    <3>3. CASE current = s
      BY <1>0, <1>e, <3>1, <3>2, <3>3 DEF Steady, Spent, Busy, InHand, Bit
    <3>4. CASE current # s
      BY <1>0, <1>e, <1>f, <3>1, <3>4
    <3> QED
      BY <3>3, <3>4
  <2>2. CASE Take
    <3>1. /\ at = "get" /\ current' = current /\ at' = "patch" /\ work' = work
          /\ UNCHANGED <<cached, sent, unready>>
          /\ current = s => cached[s].state = "pending"
      BY <2>2 DEF Take, informer, history
    <3> QED
      BY <1>0, <3>1 DEF Steady, Spent, Busy, InHand, Bit
  <2>3. CASE Send
    <3>1. /\ at = "send" /\ current' = NoSet /\ at' = "none" /\ work' = work
          /\ UNCHANGED <<cached, unready>>
          /\ sent' = [sent EXCEPT ![current] = @ + 1]
      BY <2>3 DEF Send, Forget, Return, informer
    <3>2. CASE current = s
      <4>1. sent'[s] = sent[s] + 1
        BY <1>0, <3>1, <3>2
      <4> QED
        BY <1>0, <2>0, <3>1, <3>2, <4>1 DEF Steady, Spent, Busy, InHand, Bit
    <3>3. CASE current # s
      <4>1. sent'[s] = sent[s]
        BY <1>0, <3>1, <3>3
      <4> QED
        BY <1>e, <1>f, <3>1, <3>3, <4>1
    <3> QED
      BY <3>2, <3>3
  <2>4. CASE MarkRunning
    <3>1. at = "patch" /\ UNCHANGED <<cached, sent, unready>>
      BY <2>4 DEF MarkRunning, history
    <3>2. CASE Requeue
      <4>1. current' = NoSet /\ at' = "none" /\ work' = work \cup {current}
        BY <3>2 DEF Requeue, Return
      <4>2. CASE current = s
        BY <1>0, <2>0, <3>1, <4>1, <4>2 DEF Steady, Spent, Busy, InHand, Bit
      <4>3. CASE current # s
        BY <1>e, <1>f, <3>1, <4>1, <4>3
      <4> QED
        BY <4>2, <4>3
    <3>3. CASE Patched(current, "running") /\ at' = "send" /\ UNCHANGED <<work, current, taskID>>
      <4>1. CASE current = s
        <5>1. Server(s)'.state # "pending"
          <6>1. \/ feed' = feed /\ Server(s).state = "running"
                \/ \E w : /\ NoAsk(Server(s), w) /\ w.state = "running"
                          /\ feed'[s] = Append(feed[s], w)
            BY <3>3, <4>1, PatchOne
          <6>2. CASE feed' = feed /\ Server(s).state = "running"
            BY <3>1, <6>2 DEF Server
          <6>3. CASE \E w : /\ NoAsk(Server(s), w) /\ w.state = "running"
                            /\ feed'[s] = Append(feed[s], w)
            <7>1. PICK w : /\ NoAsk(Server(s), w) /\ w.state = "running"
                           /\ feed'[s] = Append(feed[s], w)
              BY <6>3
            <7>2. Last(cached[s], Append(feed[s], w)) = w
              BY <7>1, InformerTypes, Written DEF NoAsk
            <7>3. Server(s)' = w
              BY <3>1, <7>1, <7>2, InformerTypesAfter
            <7> QED
              BY <7>1, <7>3
          <6> QED
            BY <6>1, <6>2, <6>3
        <5> QED
          BY <1>0, <2>0, <3>1, <3>3, <4>1, <5>1 DEF Steady, Spent, Busy, InHand, Bit
      <4>2. CASE current # s
        BY <1>f, <3>1, <3>3, <4>2
      <4> QED
        BY <4>1, <4>2
    <3> QED
      BY <2>4, <3>2, <3>3 DEF MarkRunning
  <2> QED
    BY <1>4, <2>1, <2>2, <2>3, <2>4 DEF Reconcile
<1>5. UNCHANGED vars \/ StartCtxExpires \/ DispatcherReturns
        => cached'[s] = cached[s] /\ UNCHANGED <<work, current, at, sent, unready>>
  BY DEF vars, StartCtxExpires, DispatcherReturns, informer, reconcileVars, history
<1>6. ASSUME NEW r \in Sets, Environment(r)
      PROVE  cached'[s] = cached[s] /\ UNCHANGED <<work, current, at, sent, unready>>
  BY <1>6 DEF Environment, Ask, ReadinessChanges, Deleted, CreatedAgain, Outside, reconcileVars
<1>7. ASSUME NEW d \in Dispatchers, DispatcherStep(d)
      PROVE  cached'[s] = cached[s] /\ UNCHANGED <<work, current, at, sent, unready>>
  BY <1>7 DEF DispatcherStep, Receive, RestoreIndices, StatusSkipped, StatusComputed, MarkDone,
              informer, reconcileVars, history
<1> QED
  BY <1>1, <1>2, <1>3, <1>4, <1>5, <1>6, <1>7 DEF Next
-----------------------------------------------------------------------------
(* The history stays sound, and what it ends in announced.                  *)
LEMMA HistoryNext ==
  ASSUME TypeOK, ThreadInv, TypeOK', [Next]_vars, NEW s \in Sets, HistoryInv(s)
  PROVE  HistoryInv(s)'
<1> DEFINE c == cached[s]  f == feed[s]
<1>0. /\ c \in AnyVersion /\ f \in Seq(AnyVersion)
      /\ Server(s) = Last(c, f) /\ Server(s) \in AnyVersion
      /\ Sound(c, f) /\ Announced(c, f)
  BY InformerTypes DEF HistoryInv
<1> HIDE DEF c, f
<1>1. ASSUME NEW w \in AnyVersion, cached'[s] = c, feed'[s] = Append(f, w),
             w.state = "pending" => w.id \in Ids,
             Last(c, f).id = NoId /\ w.id # NoId => Asks(Last(c, f), w)
      PROVE  HistoryInv(s)'
  <2>1. Sound(c, Append(f, w)) /\ Announced(c, Append(f, w))
    BY <1>0, <1>1, SoundWritten, AnnouncedWritten
  <2> QED
    BY <1>1, <2>1 DEF HistoryInv
<1>2. CASE Quiet(s)
  BY <1>0, <1>2 DEF Quiet, HistoryInv, c, f
<1>3. CASE Rewritten(s)
  <2>1. PICK w : NoAsk(Server(s), w) /\ feed'[s] = Append(f, w)
    BY <1>3 DEF Rewritten, f
  <2>2. Server(s).state = "pending" => Server(s).id \in Ids
    <3>1. Len(f) \in 0..Len(f)
      BY <1>0, VersionsOf
    <3> QED
      BY <1>0, <3>1 DEF Sound, Last
  <2>3. w \in AnyVersion /\ (w.state = "pending" => w.id \in Ids)
        /\ ~(Last(c, f).id = NoId /\ w.id # NoId)
    BY <1>0, <2>1, <2>2 DEF NoAsk
  <2>4. cached'[s] = c
    BY <1>3 DEF Rewritten, c
  <2> QED
    BY <1>1, <2>1, <2>3, <2>4
<1>4. CASE AskedFor(s)
  <2>1. PICK w \in Version : /\ feed'[s] = Append(f, w) /\ Asks(Server(s), w)
                             /\ w.id \in Ids /\ w.state = "pending"
    BY <1>4 DEF AskedFor, f
  <2>2. w \in AnyVersion /\ cached'[s] = c
    BY <1>4, <2>1 DEF AskedFor, AnyVersion, c
  <2> QED
    BY <1>0, <1>1, <2>1, <2>2
<1>5. CASE CacheSees(s)
  <2>1. f # <<>> /\ cached'[s] = Head(f) /\ feed'[s] = Tail(f)
    BY <1>5 DEF CacheSees, TypeOK, f
  <2>2. Sound(Head(f), Tail(f)) /\ Announced(Head(f), Tail(f))
    BY <1>0, <2>1, SoundSeen, AnnouncedSeen
  <2> QED
    BY <2>1, <2>2 DEF HistoryInv
<1>6. CASE Restart
  <2>1. cached'[s] = Last(c, f) /\ feed'[s] = <<>>
    BY <1>0, <1>6 DEF Restart
  <2>2. Len(<<>>) = 0 /\ Len(f) \in 0..Len(f)
    BY <1>0, VersionsOf
  <2>3. Last(c, f).state = "pending" => Last(c, f).id \in Ids
    BY <1>0, <2>2 DEF Sound, Last
  <2>4. 0..0 = {0} /\ 1..0 = {} /\ Shown(Last(c, f), <<>>, 0) = Last(c, f)
    BY DEF Shown
  <2>5. Sound(Last(c, f), <<>>)
    BY <2>2, <2>3, <2>4 DEF Sound
  <2>6. Last(Last(c, f), <<>>) = Last(c, f)
    BY <2>2, <2>4 DEF Last
  <2>7. Announced(Last(c, f), <<>>)
    BY <2>2, <2>4, <2>6 DEF Announced
  <2> QED
    BY <2>1, <2>5, <2>7 DEF HistoryInv
<1> QED
  BY <1>2, <1>3, <1>4, <1>5, <1>6, StepsOfOne DEF AtMostWritten

-----------------------------------------------------------------------------
(* The asks go on paying for what is spent.                                 *)
LEMMA AsksNext ==
  ASSUME TypeOK, ThreadInv, TypeOK', [Next]_vars, NEW s \in Sets,
         HistoryInv(s), AsksInv(s)
  PROVE  AsksInv(s)'
<1> DEFINE c == cached[s]  f == feed[s]  a == asked[s]  spent == Spent(s)  busy == Busy(s)
           sends == sent[s] + Bit(current = s /\ at = "send")
<1>0. /\ c \in AnyVersion /\ f \in Seq(AnyVersion) /\ Len(f) \in Nat
      /\ Server(s) = Last(c, f) /\ Server(s) \in AnyVersion
      /\ Sound(c, f)
  BY InformerTypes, LenProperties DEF HistoryInv
<1>1. /\ a \in Nat /\ spent \in Nat /\ busy \in Nat
      /\ sends \in Nat /\ sends <= spent /\ sent[s] \in Nat /\ sent[s] <= sends
  <2>1. a \in Nat /\ sent[s] \in Nat
    BY ConstantsAssumption DEF TypeOK
  <2> QED
    BY <2>1 DEF Spent, Busy, Bit
<1>2. Spent(s)' \in Nat /\ Busy(s)' \in Nat /\ sent'[s] \in Nat
  <2>1. sent'[s] \in Nat
    BY DEF TypeOK
  <2> QED
    BY <2>1 DEF Spent, Busy, Bit
<1>3. /\ Paid(c, f, a, spent, busy)
      /\ a = 0 => Server(s).id = NoId
      /\ Server(s).state = "pending" => a >= 1 /\ sends <= Allowed(a - 1)
  BY DEF AsksInv
<1> DEFINE SendsAfter == sent'[s] + Bit((current = s /\ at = "send")')
<1>4. ASSUME Paid(cached'[s], feed'[s], asked'[s], Spent(s)', Busy(s)'),
             asked'[s] = 0 => Server(s)'.id = NoId,
             Server(s)'.state = "pending"
               => asked'[s] >= 1 /\ SendsAfter <= Allowed(asked'[s] - 1)
      PROVE  AsksInv(s)'
  BY <1>4 DEF AsksInv
<1>5. CASE AtMostWritten(s) /\ Steady(s)
  <2>0. /\ Spent(s)' <= spent /\ (busy = 0 => Busy(s)' = 0)
        /\ Server(s)'.state = "pending" => SendsAfter <= sends
    BY <1>5 DEF Steady
  <2>s. SendsAfter \in Nat
    BY <1>2 DEF Bit
  <2> HIDE DEF c, f, a, spent, busy, sends, SendsAfter
  <2>1. CASE Quiet(s)
    <3>1. cached'[s] = c /\ feed'[s] = f /\ asked'[s] = a
      BY <2>1 DEF Quiet, c, f, a
    <3>2. Server(s)' = Server(s)
      BY <1>0, <3>1, InformerTypesAfter
    <3>3. Paid(c, f, a, Spent(s)', Busy(s)')
      BY <1>0, <1>1, <1>2, <1>3, <2>0, PaidKept
    <3>4. Server(s)'.state = "pending"
            => asked'[s] >= 1 /\ SendsAfter <= Allowed(asked'[s] - 1)
      <4> SUFFICES ASSUME Server(s)'.state = "pending"
                   PROVE  a >= 1 /\ SendsAfter <= Allowed(a - 1)
        BY <3>1
      <4>1. SendsAfter <= sends /\ a >= 1 /\ sends <= Allowed(a - 1)
        BY <1>3, <2>0, <3>2
      <4> QED
        BY <1>1, <2>s, <4>1 DEF Allowed
    <3>5. asked'[s] = 0 => Server(s)'.id = NoId
      BY <1>3, <3>1, <3>2
    <3> QED
      BY <1>4, <3>1, <3>3, <3>4, <3>5 DEF SendsAfter
  <2>2. CASE Rewritten(s)
    <3>1. PICK w : NoAsk(Server(s), w) /\ feed'[s] = Append(f, w)
      BY <2>2 DEF Rewritten, f
    <3>2. cached'[s] = c /\ asked'[s] = a /\ w \in AnyVersion
      BY <2>2, <3>1 DEF Rewritten, NoAsk, c, a
    <3>3. Server(s)' = w
      <4>1. Last(c, Append(f, w)) = w
        BY <1>0, <3>2, Written
      <4>2. Server(s)' = Last(cached'[s], feed'[s])
        BY InformerTypesAfter
      <4> QED
        BY <3>1, <3>2, <4>1, <4>2
    <3>4. Paid(c, Append(f, w), a, spent, busy)
      <4>1. ~Asks(Last(c, f), w)
        BY <1>0, <3>1 DEF NoAsk
      <4>2. Paid(c, Append(f, w), IF Asks(Last(c, f), w) THEN a + 1 ELSE a, spent, busy)
        BY <1>0, <1>1, <1>3, <3>2, PaidWritten
      <4> QED
        BY <4>1, <4>2
    <3>5. Len(Append(f, w)) \in Nat
      BY <1>0, <3>2, Written
    <3>6. Paid(c, Append(f, w), a, Spent(s)', Busy(s)')
      BY <1>1, <1>2, <2>0, <3>4, <3>5, PaidKept
    <3>7. Server(s)'.state = "pending"
            => asked'[s] >= 1 /\ SendsAfter <= Allowed(asked'[s] - 1)
      <4> SUFFICES ASSUME Server(s)'.state = "pending"
                   PROVE  a >= 1 /\ SendsAfter <= Allowed(a - 1)
        BY <3>2
      <4>1. Server(s).state = "pending"
        BY <3>1, <3>3 DEF NoAsk
      <4>2. SendsAfter <= sends /\ a >= 1 /\ sends <= Allowed(a - 1)
        BY <1>3, <2>0, <4>1
      <4> QED
        BY <1>1, <2>s, <4>2 DEF Allowed
    <3>8. asked'[s] = 0 => Server(s)'.id = NoId
      BY <1>3, <3>1, <3>2, <3>3 DEF NoAsk
    <3> QED
      BY <1>4, <3>1, <3>2, <3>6, <3>7, <3>8 DEF SendsAfter
  <2>3. CASE AskedFor(s)
    <3>1. PICK w \in Version : /\ feed'[s] = Append(f, w) /\ Asks(Server(s), w)
                               /\ w.id \in Ids /\ w.state = "pending"
      BY <2>3 DEF AskedFor, f
    <3>2. cached'[s] = c /\ asked'[s] = a + 1 /\ w \in AnyVersion
      BY <2>3, <3>1 DEF AskedFor, AnyVersion, c, a
    <3>3. Paid(c, Append(f, w), a + 1, spent, busy)
      <4>1. Paid(c, Append(f, w), IF Asks(Last(c, f), w) THEN a + 1 ELSE a, spent, busy)
        BY <1>0, <1>1, <1>3, <3>2, PaidWritten
      <4> QED
        BY <1>0, <3>1, <4>1
    <3>4. Len(Append(f, w)) \in Nat /\ a + 1 \in Nat
      BY <1>0, <1>1, <3>2, Written
    <3>5. Paid(c, Append(f, w), a + 1, Spent(s)', Busy(s)')
      BY <1>1, <1>2, <2>0, <3>3, <3>4, PaidKept
    <3>6. Server(s)' = w
      <4>1. Last(c, Append(f, w)) = w
        BY <1>0, <3>2, Written
      <4>2. Server(s)' = Last(cached'[s], feed'[s])
        BY InformerTypesAfter
      <4> QED
        BY <3>1, <3>2, <4>1, <4>2
    <3>7. SendsAfter <= Allowed(a + 1 - 1) /\ a + 1 >= 1 /\ a + 1 # 0
      <4>1. spent <= Allowed(a)
        BY <1>0, <1>1, <1>3, PaidInAll
      <4>2. SendsAfter <= sends
        BY <2>0, <3>1, <3>6
      <4>3. a + 1 - 1 = a /\ a + 1 >= 1 /\ a + 1 # 0
        BY <1>1
      <4> QED
        BY <1>1, <2>s, <4>1, <4>2, <4>3 DEF Allowed
    <3>8. asked'[s] # 0
      BY <3>2, <3>7
    <3>9. Server(s)'.state = "pending"
            => asked'[s] >= 1 /\ SendsAfter <= Allowed(asked'[s] - 1)
      <4>1. asked'[s] - 1 = a + 1 - 1 /\ asked'[s] >= 1
        BY <1>1, <3>2, <3>7
      <4>2. Allowed(asked'[s] - 1) = Allowed(a + 1 - 1)
        BY <4>1
      <4> QED
        BY <3>7, <4>1, <4>2
    <3>10. Paid(cached'[s], feed'[s], asked'[s], Spent(s)', Busy(s)')
      BY <3>1, <3>2, <3>5
    <3> QED
      BY <1>4, <3>8, <3>9, <3>10 DEF SendsAfter
  <2> QED
    BY <1>5, <2>1, <2>2, <2>3 DEF AtMostWritten
<1>6. CASE CacheSees(s)
  <2>1. /\ f # <<>> /\ cached'[s] = Head(f) /\ feed'[s] = Tail(f) /\ asked'[s] = a
        /\ UNCHANGED <<current, at, sent>>
        /\ s \in work => s \in work'
        /\ s \in work' => s \in work \/ Passes(s, c, Head(f))
    BY <1>6 DEF CacheSees, TypeOK, history, c, f, a
  <2>2. Head(f) \in AnyVersion /\ Server(s)' = Server(s)
    BY <1>0, <2>1, Seen, InformerTypesAfter
  <2>3. Passes(s, c, Head(f)) /\ ~Asks(c, Head(f)) /\ Head(f).state = "pending"
          => FALSE
    BY <1>0, <2>2 DEF Passes, Asks, Gone
  <2>4. ~Asks(c, Head(f)) => Spent(s)' <= spent
    <3> SUFFICES ASSUME ~Asks(c, Head(f)) PROVE Spent(s)' <= spent
      OBVIOUS
    <3>1. CASE Head(f).state # "pending"
      BY <1>1, <2>1, <3>1 DEF Spent, Bit
    <3>2. CASE Head(f).state = "pending"
      <4>1. c.state = "pending" /\ (s \in work' <=> s \in work)
        BY <2>1, <2>3, <3>2 DEF Asks
      <4> QED
        BY <1>1, <2>1, <3>2, <4>1 DEF Spent, Bit
    <3> QED
      BY <3>1, <3>2
  <2>5. Spent(s)' <= spent + 2
    <3>1. CASE c.state = "pending"
      BY <1>1, <2>1, <3>1 DEF Spent, Bit
    <3>2. CASE c.state # "pending"
      BY <1>1, <2>1, <3>2 DEF Spent, Bit
    <3> QED
      BY <3>1, <3>2
  <2>6. busy = 0 => Spent(s)' <= spent + 1
    <3> SUFFICES ASSUME busy = 0 PROVE Spent(s)' <= spent + 1
      OBVIOUS
    <3>1. current # s /\ s \notin work
      BY DEF Busy, Bit
    <3> QED
      BY <1>1, <2>1, <3>1 DEF Spent, Bit
  <2>7. ~Asks(c, Head(f)) /\ Head(f).id = NoId /\ busy = 0 => Busy(s)' = 0
    <3> SUFFICES ASSUME Head(f).id = NoId, busy = 0 PROVE Busy(s)' = 0
      OBVIOUS
    <3>1. current # s /\ s \notin work
      BY DEF Busy, Bit
    <3>2. ~Passes(s, c, Head(f))
      BY DEF Passes, Match
    <3> QED
      BY <2>1, <3>1, <3>2 DEF Busy, Bit
  <2>8. SendsAfter = sends
    BY <2>1
  <2> HIDE DEF c, f, a, spent, busy, sends, SendsAfter
  <2>9. Paid(Head(f), Tail(f), a, Spent(s)', Busy(s)')
    BY <1>0, <1>1, <1>2, <1>3, <2>1, <2>4, <2>5, <2>6, <2>7, PaidSeen
  <2>10. asked'[s] = 0 => Server(s)'.id = NoId
    BY <1>3, <2>1, <2>2
  <2>11. Server(s)'.state = "pending"
            => asked'[s] >= 1 /\ SendsAfter <= Allowed(asked'[s] - 1)
    BY <1>3, <2>1, <2>2, <2>8
  <2> QED
    BY <1>4, <2>1, <2>9, <2>10, <2>11 DEF SendsAfter
<1>7. CASE Restart
  <2>1. /\ cached'[s] = Server(s) /\ feed'[s] = <<>> /\ asked'[s] = a
        /\ current' = NoSet /\ at' = "none" /\ sent'[s] = sent[s]
        /\ s \in work' <=> Passes(s, Gone, Server(s))
    BY <1>7 DEF Restart, NothingInMemory, a
  <2>2. Server(s)' = Server(s)
    BY <2>1 DEF Server
  <2>3. NoSet # s
    BY ConstantsAssumption
  <2>4. Spent(s)' <= sent[s] + 1 /\ (Server(s).state # "pending" => Spent(s)' = sent[s])
    BY <1>1, <2>1, <2>3 DEF Spent, Bit
  <2>5. SendsAfter = sent[s]
    BY <1>1, <2>1, <2>3 DEF Bit
  <2>6. Server(s).id = NoId => Busy(s)' = 0
    BY <2>1, <2>3 DEF Busy, Bit, Passes, Match
  <2> HIDE DEF c, f, a, spent, busy, sends, SendsAfter
  <2>7. spent <= Allowed(a)
    BY <1>0, <1>1, <1>3, PaidInAll
  <2>8. Spent(s)' <= Allowed(a)
    <3>1. CASE Server(s).state = "pending"
      <4>1. a >= 1 /\ sends <= Allowed(a - 1)
        BY <1>3, <3>1
      <4>2. Allowed(a - 1) \in Nat /\ Allowed(a - 1) + 1 <= Allowed(a) /\ Allowed(a) \in Nat
        BY <1>1, <4>1 DEF Allowed
      <4> QED
        BY <1>1, <1>2, <2>4, <4>1, <4>2
    <3>2. CASE Server(s).state # "pending"
      BY <1>1, <1>2, <2>4, <2>7, <3>2 DEF Allowed
    <3> QED
      BY <3>1, <3>2
  <2>9. Paid(Server(s), <<>>, a, Spent(s)', Busy(s)')
    BY <1>1, <1>2, <1>3, <2>6, <2>8, PaidAfresh
  <2>10. asked'[s] = 0 => Server(s)'.id = NoId
    BY <1>3, <2>1, <2>2
  <2>11. Server(s)'.state = "pending"
            => asked'[s] >= 1 /\ SendsAfter <= Allowed(asked'[s] - 1)
    <3> SUFFICES ASSUME Server(s).state = "pending"
                 PROVE  a >= 1 /\ SendsAfter <= Allowed(a - 1)
      BY <2>1, <2>2
    <3>1. a >= 1 /\ sends <= Allowed(a - 1)
      BY <1>3
    <3> QED
      BY <1>1, <2>5, <3>1 DEF Allowed
  <2> QED
    BY <1>4, <2>1, <2>9, <2>10, <2>11 DEF SendsAfter
<1> QED
  BY <1>5, <1>6, <1>7, StepsOfOne, StepsAreSteady
-----------------------------------------------------------------------------
(* A version that passes the filters is still to be shown.                  *)
Noticed(s, c, f) ==
  \E i \in 1..Len(f) : Passes(s, Shown(c, f, i - 1), f[i])

(* Versions(s) is the history, one place further.                           *)
LEMMA VersionsAre ==
  ASSUME TypeOK, NEW s \in Sets
  PROVE  (\E i \in DOMAIN feed[s] : Passes(s, Versions(s)[i], Versions(s)[i + 1]))
           <=> Noticed(s, cached[s], feed[s])
<1> DEFINE c == cached[s]  f == feed[s]
<1>1. c \in AnyVersion /\ f \in Seq(AnyVersion) /\ Len(f) \in Nat /\ DOMAIN f = 1..Len(f)
  BY InformerTypes, LenProperties
<1>2. <<c>> \in Seq(AnyVersion) /\ Len(<<c>>) = 1 /\ <<c>>[1] = c
  BY <1>1
<1>3. /\ Len(<<c>> \o f) = 1 + Len(f)
      /\ \A i \in 1..(1 + Len(f)) :
           (<<c>> \o f)[i] = IF i <= 1 THEN <<c>>[i] ELSE f[i - 1]
  BY <1>1, <1>2, ConcatProperties
<1>4. ASSUME NEW i \in 1..Len(f)
      PROVE  Versions(s)[i] = Shown(c, f, i - 1) /\ Versions(s)[i + 1] = f[i]
  <2>1. i \in 1..(1 + Len(f)) /\ i + 1 \in 1..(1 + Len(f)) /\ ~(i + 1 <= 1) /\ i + 1 - 1 = i
    BY <1>1
  <2>2. Versions(s)[i + 1] = f[i]
    BY <1>3, <2>1 DEF Versions
  <2>3. Versions(s)[i] = Shown(c, f, i - 1)
    <3>1. Versions(s)[i] = IF i <= 1 THEN <<c>>[i] ELSE f[i - 1]
      BY <1>3, <2>1 DEF Versions
    <3>2. (i <= 1 => i = 1) /\ (i - 1 = 0 <=> i = 1)
      BY <1>1
    <3> QED
      BY <1>2, <3>1, <3>2 DEF Shown
  <2> QED
    BY <2>2, <2>3
<1> QED
  BY <1>1, <1>4 DEF Noticed

(* So it is after a write.                                                  *)
LEMMA NoticedWritten ==
  ASSUME NEW c \in AnyVersion, NEW f \in Seq(AnyVersion), NEW w \in AnyVersion, NEW s,
         Noticed(s, c, f) \/ Passes(s, Last(c, f), w)
  PROVE  Noticed(s, c, Append(f, w))
<1> DEFINE g == Append(f, w)
<1>1. /\ Len(f) \in Nat /\ Len(g) = Len(f) + 1
      /\ \A i \in 0..Len(f) : Shown(c, g, i) = Shown(c, f, i)
      /\ \A i \in 1..Len(f) : g[i] = f[i]
      /\ g[Len(f) + 1] = w
  BY Written
<1> HIDE DEF g
<1>2. CASE Noticed(s, c, f)
  <2>1. PICK i \in 1..Len(f) : Passes(s, Shown(c, f, i - 1), f[i])
    BY <1>2 DEF Noticed
  <2>2. i - 1 \in 0..Len(f) /\ i \in 1..Len(g)
    BY <1>1
  <2>3. Passes(s, Shown(c, g, i - 1), g[i])
    BY <1>1, <2>1, <2>2
  <2> QED
    BY <2>2, <2>3 DEF Noticed, g
<1>3. CASE Passes(s, Last(c, f), w)
  <2>1. Len(f) + 1 \in 1..Len(g) /\ Len(f) + 1 - 1 = Len(f) /\ Len(f) \in 0..Len(f)
    BY <1>1
  <2>2. Passes(s, Shown(c, g, Len(f) + 1 - 1), g[Len(f) + 1])
    BY <1>1, <1>3, <2>1 DEF Last
  <2> QED
    BY <2>1, <2>2 DEF Noticed, g
<1> QED
  BY <1>2, <1>3

(* The version shown is the one that passes, or it is still to be shown.    *)
LEMMA NoticedSeen ==
  ASSUME NEW c \in AnyVersion, NEW f \in Seq(AnyVersion), f # <<>>, NEW s,
         Noticed(s, c, f), ~Passes(s, c, Head(f))
  PROVE  Noticed(s, Head(f), Tail(f))
<1> DEFINE h == Head(f)  g == Tail(f)
<1>1. /\ Len(f) \in Nat \ {0} /\ Len(g) = Len(f) - 1 /\ h = f[1]
      /\ \A i \in 1..(Len(f) - 1) : g[i] = f[i + 1]
      /\ \A i \in 0..(Len(f) - 1) :
           Shown(h, g, i) = f[i + 1] /\ Shown(c, f, i + 1) = f[i + 1]
  BY Seen
<1>2. PICK i \in 1..Len(f) : Passes(s, Shown(c, f, i - 1), f[i])
  BY DEF Noticed
<1>3. i # 1
  <2>1. 1 - 1 = 0 /\ Shown(c, f, 0) = c
    BY DEF Shown
  <2> QED
    BY <1>1, <1>2, <2>1
<1> HIDE DEF g, h
<1>4. /\ i - 1 \in 1..Len(g) /\ i - 1 \in 1..(Len(f) - 1)
      /\ i - 1 - 1 \in 0..(Len(f) - 1) /\ i - 1 - 1 + 1 = i - 1 /\ i - 1 + 1 = i
  BY <1>1, <1>3
<1>5. Shown(h, g, i - 1 - 1) = Shown(c, f, i - 1) /\ g[i - 1] = f[i]
  BY <1>1, <1>4
<1> QED
  BY <1>2, <1>4, <1>5 DEF Noticed, g, h

(* What is announced passes the filters.                                    *)
LEMMA AnnouncedPasses ==
  ASSUME NEW c \in AnyVersion, NEW f \in Seq(AnyVersion), NEW s \in Matching \ Bare,
         Sound(c, f), Announced(c, f),
         c.state # "pending", Last(c, f).state = "pending"
  PROVE  Noticed(s, c, f)
<1>1. Len(f) \in Nat /\ 0 \in 0..Len(f) /\ Shown(c, f, 0) = c
  BY VersionsOf DEF Shown
<1>2. PICK i \in (0 + 1)..Len(f) : Begins(c, f, i)
  BY <1>1 DEF Announced
<1>3. i \in 1..Len(f) /\ i \in 0..Len(f) /\ i # 0
  BY <1>1
<1>4. f[i].state = "pending" /\ f[i].id \in Ids /\ Shown(c, f, i - 1).state # "pending"
  BY <1>2, <1>3 DEF Begins, Sound, Shown
<1>5. f[i] # Gone /\ f[i].id # NoId
  BY <1>4, ConstantsAssumption DEF Gone
<1>6. Passes(s, Shown(c, f, i - 1), f[i])
  BY <1>4, <1>5 DEF Passes, Match
<1> QED
  BY <1>3, <1>6 DEF Noticed

-----------------------------------------------------------------------------
(* PendingIsNotForgotten, of one StatefulSet.                               *)
Remembered(s) ==
  s \in Matching \ (Bare \cup unready) /\ Server(s).state = "pending"
    => InHand(s) \/ Noticed(s, cached[s], feed[s])

(* Every step keeps it.                                                     *)
LEMMA RememberedNext ==
  ASSUME TypeOK, ThreadInv, TypeOK', [Next]_vars, NEW s \in Sets,
         HistoryInv(s), HistoryInv(s)', Remembered(s)
  PROVE  Remembered(s)'
<1> DEFINE c == cached[s]  f == feed[s]
<1>0. /\ c \in AnyVersion /\ f \in Seq(AnyVersion)
      /\ Server(s) = Last(c, f) /\ Server(s) \in AnyVersion
      /\ cached'[s] \in AnyVersion /\ feed'[s] \in Seq(AnyVersion)
      /\ Server(s)' = Last(cached'[s], feed'[s])
  BY InformerTypes, InformerTypesAfter
<1>1. Sound(c, f) /\ Sound(cached'[s], feed'[s]) /\ Announced(cached'[s], feed'[s])
  BY DEF HistoryInv
<1> SUFFICES ASSUME s \in Matching \ Bare, s \notin unready', Server(s)'.state = "pending"
             PROVE  InHand(s)' \/ Noticed(s, cached'[s], feed'[s])
  BY DEF Remembered
<1>2. ASSUME s \notin unready, Server(s).state = "pending"
      PROVE  InHand(s) \/ Noticed(s, c, f)
  BY <1>2 DEF Remembered
<1> HIDE DEF c, f
<1>3. CASE AtMostWritten(s) /\ Steady(s)
  <2>1. /\ s \notin unready
        /\ InHand(s) => InHand(s)' \/ c.state # "pending"
        /\ cached'[s] = c
    BY <1>3 DEF Steady, AtMostWritten, Quiet, Rewritten, AskedFor, c
  <2>2. CASE c.state # "pending"
    BY <1>0, <1>1, <2>1, <2>2, AnnouncedPasses
  <2>3. CASE c.state = "pending" /\ Quiet(s)
    <3>1. feed'[s] = f
      BY <2>3 DEF Quiet, f
    <3>2. Server(s).state = "pending"
      BY <1>0, <2>1, <3>1
    <3> QED
      BY <1>2, <2>1, <2>3, <3>1, <3>2
  <2>4. CASE c.state = "pending" /\ Rewritten(s)
    <3>1. PICK w : NoAsk(Server(s), w) /\ feed'[s] = Append(f, w)
      BY <2>4 DEF Rewritten, f
    <3>2. w \in AnyVersion
      BY <3>1 DEF NoAsk
    <3>3. Server(s)' = w
      <4>1. Last(c, Append(f, w)) = w
        BY <1>0, <3>2, Written
      <4> QED
        BY <1>0, <2>1, <3>1, <4>1
    <3>4. Server(s).state = "pending"
      BY <3>1, <3>3 DEF NoAsk
    <3>5. InHand(s) \/ Noticed(s, c, f)
      BY <1>2, <2>1, <3>4
    <3>6. Noticed(s, c, f) => Noticed(s, c, Append(f, w))
      BY <1>0, <3>2, NoticedWritten
    <3> QED
      BY <2>1, <2>4, <3>1, <3>5, <3>6
  <2>5. CASE AskedFor(s)
    <3>1. PICK w \in Version : /\ feed'[s] = Append(f, w) /\ Asks(Server(s), w)
                               /\ w.id \in Ids /\ w.state = "pending"
      BY <2>5 DEF AskedFor, f
    <3>2. w \in AnyVersion /\ w # Gone /\ w.id # NoId
      BY <3>1, ConstantsAssumption DEF AnyVersion, Gone
    <3>3. Passes(s, Server(s), w)
      <4>1. Server(s).id = NoId \/ Server(s).id # NoId
        OBVIOUS
      <4> QED
        BY <3>1, <3>2 DEF Passes, Match, Asks
    <3>4. Noticed(s, c, Append(f, w))
      BY <1>0, <3>2, <3>3, NoticedWritten
    <3> QED
      BY <2>1, <3>1, <3>4
  <2> QED
    BY <1>3, <2>2, <2>3, <2>4, <2>5 DEF AtMostWritten
<1>4. CASE CacheSees(s)
  <2>1. /\ f # <<>> /\ cached'[s] = Head(f) /\ feed'[s] = Tail(f)
        /\ UNCHANGED <<current, at, unready>>
        /\ work \subseteq work'
        /\ Passes(s, c, Head(f)) => s \in work'
    BY <1>4 DEF CacheSees, TypeOK, history, c, f
  <2>2. Server(s)' = Server(s)
    <3>1. Last(Head(f), Tail(f)) = Last(c, f)
      BY <1>0, <2>1, Seen
    <3> QED
      BY <1>0, <2>1, <3>1
  <2>3. InHand(s) \/ Noticed(s, c, f)
    BY <1>2, <2>1, <2>2
  <2>4. InHand(s) \/ Passes(s, c, Head(f)) => InHand(s)'
    BY <2>1 DEF InHand
  <2>5. Noticed(s, c, f) /\ ~Passes(s, c, Head(f)) => Noticed(s, Head(f), Tail(f))
    BY <1>0, <2>1, NoticedSeen
  <2> QED
    BY <2>1, <2>3, <2>4, <2>5
<1>5. CASE Restart
  <2>1. Server(s)' = Server(s) /\ (s \in work' <=> Passes(s, Gone, Server(s)))
    <3>1. cached'[s] = Server(s) /\ feed'[s] = <<>>
      BY <1>5 DEF Restart
    <3>2. Server(s)' = Server(s)
      BY <3>1 DEF Server
    <3> QED
      BY <1>5, <3>2 DEF Restart
  <2>2. Server(s).id \in Ids /\ Server(s).state = "pending"
    <3>1. Len(f) \in 0..Len(f)
      BY <1>0, VersionsOf
    <3> QED
      BY <1>0, <1>1, <2>1, <3>1 DEF Sound, Last
  <2>3. Passes(s, Gone, Server(s))
    BY <2>2, ConstantsAssumption DEF Passes, Match, Gone
  <2> QED
    BY <2>1, <2>3 DEF InHand
<1> QED
  BY <1>3, <1>4, <1>5, StepsOfOne, StepsAreSteady

(* The property speaks of the matching StatefulSets one by one.             *)
LEMMA RememberedIs ==
  ASSUME TypeOK
  PROVE  PendingIsNotForgotten <=> \A s \in Sets : Remembered(s)
<1>1. Matching \subseteq Sets
  BY ConstantsAssumption
<1>2. ASSUME NEW s \in Sets
      PROVE  Remembered(s) <=>
               (s \in Matching \ (Bare \cup unready) =>
                  (Server(s).state = "pending"
                    => \/ s \in work
                       \/ current = s /\ at \in {"get", "patch"}
                       \/ \E i \in DOMAIN feed[s] :
                            Passes(s, Versions(s)[i], Versions(s)[i + 1])))
  BY VersionsAre DEF Remembered, InHand
<1> QED
  BY <1>1, <1>2 DEF PendingIsNotForgotten

-----------------------------------------------------------------------------
(* The inductive invariant.                                                 *)
AInv ==
  /\ TypeOK
  /\ ThreadInv
  /\ \A s \in Sets : HistoryInv(s) /\ AsksInv(s) /\ Remembered(s)

(* Before the first ask every history is of one version without an id.      *)
THEOREM AInvInit == Init => AInv
<1> SUFFICES ASSUME Init PROVE AInv
  OBVIOUS
<1>1. TypeOK /\ ThreadInv
  BY InitTypes
<1>2. ASSUME NEW s \in Sets
      PROVE  HistoryInv(s) /\ AsksInv(s) /\ Remembered(s)
  <2>1. /\ cached[s] = New /\ feed[s] = <<>> /\ Server(s) = New
        /\ New.id = NoId /\ New.state = ""
        /\ sent[s] = 0 /\ asked[s] = 0 /\ s \notin work /\ current # s /\ at = "none"
    BY ConstantsAssumption DEF Init, Server, New
  <2>2. Len(<<>>) = 0 /\ 0..0 = {0} /\ 1..0 = {} /\ Shown(New, <<>>, 0) = New
    BY DEF Shown
  <2>3. HistoryInv(s)
    BY <2>1, <2>2 DEF HistoryInv, Sound, Announced, Last
  <2>4. Spent(s) = 0 /\ Busy(s) = 0
    <3>1. /\ cached[s].state # "pending" /\ ~(current = s /\ at \in {"patch", "send"})
          /\ sent[s] = 0 /\ current # s /\ s \notin work
      BY <2>1
    <3>2. Spent(s) = 0
      BY <3>1 DEF Spent, Bit
    <3>3. Busy(s) = 0
      BY <3>1 DEF Busy, Bit
    <3> QED
      BY <3>2, <3>3
  <2>5. Paid(New, <<>>, 0, 0, 0)
    <3>1. Allowed(0) = 0 /\ 0 \in Nat /\ 0 <= Allowed(0)
      BY DEF Allowed
    <3> QED
      BY <2>1, <3>1, PaidAfresh
  <2>6. AsksInv(s)
    BY <2>1, <2>4, <2>5 DEF AsksInv
  <2>7. Remembered(s)
    BY <2>1 DEF Remembered
  <2> QED
    BY <2>3, <2>6, <2>7
<1> QED
  BY <1>1, <1>2 DEF AInv

(* Every step keeps the invariant.                                          *)
THEOREM AInvNext == AInv /\ [Next]_vars => AInv'
<1> SUFFICES ASSUME AInv, [Next]_vars PROVE AInv'
  OBVIOUS
<1>1. TypeOK /\ ThreadInv /\ \A s \in Sets : HistoryInv(s) /\ AsksInv(s) /\ Remembered(s)
  BY DEF AInv
<1>2. TypeOK' /\ ThreadInv'
  BY <1>1, TypesNext
<1>3. ASSUME NEW s \in Sets
      PROVE  (HistoryInv(s) /\ AsksInv(s) /\ Remembered(s))'
  <2>1. HistoryInv(s)'
    BY <1>1, <1>2, HistoryNext
  <2>2. AsksInv(s)'
    BY <1>1, <1>2, AsksNext
  <2>3. Remembered(s)'
    BY <1>1, <1>2, <2>1, RememberedNext
  <2> QED
    BY <2>1, <2>2, <2>3
<1> QED
  BY <1>2, <1>3 DEF AInv

(* The invariant holds in every reachable state.                            *)
THEOREM AInvAlways == Spec => []AInv
BY AInvInit, AInvNext, PTL DEF Spec

(* Every variable stays in its type: taskQueue never holds more than its    *)
(* capacity, and what it holds and what is patched are tasks with an id.    *)
THEOREM TypeCorrect == Spec => []TypeOK
<1>1. AInv => TypeOK
  BY DEF AInv
<1> QED
  BY <1>1, AInvAlways, PTL

(* Reconcile sends a StatefulSet at most 2k - 1 times for k asks of its     *)
(* user, however often calls fail, the informer lags and the process dies.  *)
THEOREM RestoresAskedFor == Spec => []RestoresAreAsked
<1>1. AInv => RestoresAreAsked
  <2> SUFFICES ASSUME AInv, NEW s \in Sets, sent[s] > 0
               PROVE  sent[s] < 2 * asked[s]
    BY DEF RestoresAreAsked
  <2>1. TypeOK /\ AsksInv(s)
    BY DEF AInv
  <2>2. asked[s] \in Nat /\ sent[s] \in Nat
    BY <2>1, ConstantsAssumption DEF TypeOK
  <2>3. Spent(s) \in Nat /\ sent[s] <= Spent(s)
    BY <2>2 DEF Spent, Bit
  <2>4. Spent(s) <= Allowed(asked[s])
    BY <2>1, <2>2, <2>3, InformerTypes, PaidInAll DEF AsksInv
  <2> QED
    BY <2>2, <2>3, <2>4 DEF Allowed
<1> QED
  BY <1>1, AInvAlways, PTL

(* A StatefulSet that says "pending" is in the workqueue, in the hands of   *)
(* Reconcile, or about to be shown in a version that passes the filters,    *)
(* unless Reconcile met it unready or it had no annotations.                *)
THEOREM PendingRemembered == Spec => []PendingIsNotForgotten
<1>1. AInv => PendingIsNotForgotten
  BY RememberedIs DEF AInv
<1> QED
  BY <1>1, AInvAlways, PTL

(* Unless its copy was old, a dispatcher writes "done" only over the id of  *)
(* a task whose restore has returned.                                       *)
THEOREM DoneIsRestored == Spec => DoneWithoutRestoreOnlyFromOldCopies
<1>1. AInv /\ [Next]_vars
        => [\A d \in Dispatchers :
              LET s == task[d].set
              IN  /\ stage[d] = "patch" /\ stage'[d] = "idle"
                  /\ feed' # feed /\ crashes' = crashes
                  => \/ [set |-> s, id |-> Server(s).id] \in ran
                     \/ base[d] # Server(s)]_vars
  <2> SUFFICES ASSUME AInv, NEW d \in Dispatchers, stage[d] = "patch",
                      base[d] = Server(task[d].set)
               PROVE  [set |-> task[d].set, id |-> Server(task[d].set).id] \in ran
    OBVIOUS
  <2>1. task[d] \in Task /\ task[d] \in ran /\ base[d].id = task[d].id
    BY DEF AInv, ThreadInv, DispatcherInv
  <2>2. [set |-> task[d].set, id |-> base[d].id] = task[d]
    BY <2>1 DEF Task
  <2> QED
    BY <2>1, <2>2
<1> QED
  BY <1>1, AInvAlways, PTL DEF Spec, DoneWithoutRestoreOnlyFromOldCopies
=============================================================================
