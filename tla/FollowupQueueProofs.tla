------------------------ MODULE FollowupQueueProofs ------------------------
(***************************************************************************)
(* Safety proofs for FollowupQueue.  A drain claims messages, the turn it   *)
(* runs and the groups it has still to run, while the items it claimed them *)
(* from stay in the queue and may be evicted, cleared or added to.  What    *)
(* keeps a message from being run twice is that an item is never further    *)
(* back in the queue than in the claim, so that taking a turn's length off  *)
(* the queue takes the turn's messages off it, and perhaps others.          *)
(***************************************************************************)
EXTENDS FollowupQueue, SequenceTheorems, FiniteSetTheorems, WellFoundedInduction, TLAPS

Claimed(q) == q.turn.msgs \o q.groups

Held(q) == MembersOf(Claimed(q)) \cup MembersOf(q.items)

Distinct(s) == \A i, j \in 1..Len(s) : s[i] = s[j] => i = j

(* A queue object by itself. *)
ObjectOK(q) ==
  /\ Distinct(q.items)
  /\ Distinct(Claimed(q))
  /\ \A i \in 1..Len(q.items), j \in 1..Len(Claimed(q)) : q.items[i] = Claimed(q)[j] => i <= j
  /\ Len(q.turn.msgs) <= q.turn.pops
  /\ \A m, n \in MembersOf(q.turn.msgs) : Auth[m] = Auth[n]

(* No message is with two objects, and none that is with one has run.       *)
Apart(qs, known, acc, rn) ==
  /\ \A o \in Objects : ObjectOK(qs[o])
  /\ \A o, p \in Objects : o # p => Held(qs[o]) \cap Held(qs[p]) = {}
  /\ \A o \in Objects : Held(qs[o]) \subseteq known /\ Held(qs[o]) \cap MembersOf(rn) = {}
  /\ MembersOf(rn) \subseteq known /\ MembersOf(acc) \subseteq known
  /\ Distinct(rn)

(* Drains whose object the registry does not hold; each costs a clear.      *)
Strays(qs, c) == {o \in Objects : o # c /\ qs[o].drain # "idle"}

StraysCost(qs, c, cl) == Cardinality(Strays(qs, c)) <= cl

(* The order of acceptance, which eviction and runs leave intact.           *)
Before(x, y, acc) == \A a, b \in 1..Len(acc) : acc[a] = x /\ acc[b] = y => a < b

Sorted(s, acc) == \A i, j \in 1..Len(s) : i < j => Before(s[i], s[j], acc)

ObjectInOrder(q, acc, rn) ==
  /\ Sorted(q.items, acc)
  /\ Sorted(Claimed(q), acc)
  /\ \A x \in MembersOf(Claimed(q)), y \in MembersOf(q.items) \ MembersOf(Claimed(q)) :
       Before(x, y, acc)
  /\ \A x \in MembersOf(rn), y \in Held(q) : Before(x, y, acc)

(* Without evictions a claim is the front of the queue. *)
ObjectWhole(q) ==
  /\ q.turn.pops = Len(q.turn.msgs)
  /\ q.dropped = {}
  /\ \A j \in 1..Len(Claimed(q)) : j <= Len(q.items) /\ q.items[j] = Claimed(q)[j]

(* As long as nothing was cleared the object the registry holds is all.     *)
Single(qs, c, acc, rn, ev, cl) ==
  cl = 0 =>
    /\ Sorted(rn, acc)
    /\ c # 0 => ObjectInOrder(qs[c], acc, rn)
    /\ ev = {} => /\ c # 0 => ObjectWhole(qs[c])
                  /\ \A m \in MembersOf(acc) :
                       m \in MembersOf(rn) \/ (c # 0 /\ m \in MembersOf(qs[c].items))

QInv(qs, c, known, acc, rn, ev, cl) ==
  /\ qs \in [Objects -> Queue]
  /\ Apart(qs, known, acc, rn)
  /\ StraysCost(qs, c, cl)
  /\ Single(qs, c, acc, rn, ev, cl)

IInv == TypeOK /\ QInv(queues, current, recent, accepted, ran, evicted, clears)

-----------------------------------------------------------------------------
(* Sequences.                                                               *)

LEMMA DropFirstIs ==
  ASSUME NEW s \in Seq(Messages), NEW n \in Nat
  PROVE  LET r == DropFirst(s, n)
         IN  /\ r \in Seq(Messages)
             /\ Len(r) = IF n <= Len(s) THEN Len(s) - n ELSE 0
             /\ \A i \in 1..Len(r) : n + i \in 1..Len(s) /\ r[i] = s[n + i]
             /\ MembersOf(r) \subseteq MembersOf(s)
<1> DEFINE r == DropFirst(s, n)
<1>1. Len(s) \in Nat /\ n + 1 \in Int /\ Len(s) \in Int
  BY LenProperties
<1>2. \A i \in (n + 1)..Len(s) : s[i] \in Messages
  BY <1>1, ElementOfSeq
<1>3. /\ r \in Seq(Messages)
      /\ Len(r) = IF n + 1 <= Len(s) THEN Len(s) - (n + 1) + 1 ELSE 0
      /\ \A i \in 1..(Len(s) - (n + 1) + 1) : r[i] = s[n + 1 + i - 1]
  BY <1>1, <1>2, SubSeqProperties DEF DropFirst
<1>4. \A i \in 1..Len(r) : n + i \in 1..Len(s) /\ r[i] = s[n + i]
  BY <1>1, <1>3
<1> HIDE DEF r
<1>5. MembersOf(r) \subseteq MembersOf(s)
  BY <1>4 DEF MembersOf
<1> QED
  BY <1>1, <1>3, <1>4, <1>5 DEF r

LEMMA SplitAt ==
  ASSUME NEW s \in Seq(Messages), NEW e \in 1..Len(s)
  PROVE  LET g == SubSeq(s, 1, e)
         IN  /\ g \in Seq(Messages) /\ Len(g) = e
             /\ \A i \in 1..e : g[i] = s[i]
             /\ g \o DropFirst(s, e) = s
<1>1. Len(s) \in Nat
  BY LenProperties
<1>2. \A i \in 1..e : s[i] \in Messages
  BY <1>1, ElementOfSeq
<1>3. SubSeq(s, 1, e) \o SubSeq(s, e + 1, Len(s)) = SubSeq(s, 1, Len(s))
  BY <1>1, ConcatAdjacentSubSeq
<1>4. SubSeq(s, 1, Len(s)) = s
  BY SubSeqFull
<1>5. /\ SubSeq(s, 1, e) \in Seq(Messages)
      /\ Len(SubSeq(s, 1, e)) = IF 1 <= e THEN e - 1 + 1 ELSE 0
      /\ \A i \in 1..(e - 1 + 1) : SubSeq(s, 1, e)[i] = s[1 + i - 1]
  BY <1>1, <1>2, SubSeqProperties
<1>6. /\ Len(SubSeq(s, 1, e)) = e
      /\ \A i \in 1..e : SubSeq(s, 1, e)[i] = s[i]
  BY <1>1, <1>5
<1>7. SubSeq(s, 1, e) \o DropFirst(s, e) = s
  BY <1>3, <1>4 DEF DropFirst
<1> QED
  BY <1>5, <1>6, <1>7

LEMMA AppendMembers ==
  ASSUME NEW s \in Seq(Messages), NEW m \in Messages
  PROVE  MembersOf(Append(s, m)) = MembersOf(s) \cup {m}
<1>1. /\ Append(s, m) \in Seq(Messages) /\ Len(Append(s, m)) = Len(s) + 1 /\ Len(s) \in Nat
      /\ \A i \in 1..Len(s) : Append(s, m)[i] = s[i]
      /\ Append(s, m)[Len(s) + 1] = m
  BY AppendProperties, LenProperties
<1> QED
  BY <1>1 DEF MembersOf

LEMMA ConcatMembers ==
  ASSUME NEW s \in Seq(Messages), NEW t \in Seq(Messages)
  PROVE  MembersOf(s \o t) = MembersOf(s) \cup MembersOf(t)
<1>1. /\ Len(s) \in Nat /\ Len(t) \in Nat /\ Len(s \o t) = Len(s) + Len(t)
      /\ \A i \in 1..(Len(s) + Len(t)) : (s \o t)[i] = IF i <= Len(s) THEN s[i] ELSE t[i - Len(s)]
  BY ConcatProperties, LenProperties
<1>2. ASSUME NEW i \in 1..Len(t)
      PROVE  t[i] \in MembersOf(s \o t)
  <2>1. Len(s) + i \in 1..(Len(s) + Len(t)) /\ (s \o t)[Len(s) + i] = t[i]
    BY <1>1
  <2> QED
    BY <1>1, <2>1 DEF MembersOf
<1>3. ASSUME NEW i \in 1..Len(s)
      PROVE  s[i] \in MembersOf(s \o t)
  <2>1. i \in 1..(Len(s) + Len(t)) /\ (s \o t)[i] = s[i]
    BY <1>1
  <2> QED
    BY <1>1, <2>1 DEF MembersOf
<1>4. ASSUME NEW i \in 1..(Len(s) + Len(t))
      PROVE  (s \o t)[i] \in MembersOf(s) \cup MembersOf(t)
  <2>1. CASE i <= Len(s)
    BY <1>1, <2>1 DEF MembersOf
  <2>2. CASE ~(i <= Len(s))
    <3>1. i - Len(s) \in 1..Len(t)
      BY <1>1, <2>2
    <3> QED
      BY <1>1, <2>2, <3>1 DEF MembersOf
  <2> QED
    BY <2>1, <2>2
<1>5. MembersOf(s \o t) \subseteq MembersOf(s) \cup MembersOf(t)
  BY <1>1, <1>4 DEF MembersOf
<1>6. MembersOf(s) \subseteq MembersOf(s \o t) /\ MembersOf(t) \subseteq MembersOf(s \o t)
  BY <1>2, <1>3 DEF MembersOf
<1> QED
  BY <1>5, <1>6

LEMMA EmptyMembers ==
  /\ MembersOf(<<>>) = {} /\ <<>> \in Seq(Messages) /\ Len(<<>>) = 0
  /\ <<>> \o <<>> = <<>>
  /\ \A s \in Seq(Messages) : MembersOf(s) = {} <=> s = <<>>
<1>1. <<>> \in Seq(Messages) /\ Len(<<>>) = 0 /\ <<>> \o <<>> = <<>>
  BY EmptySeq, ConcatEmptySeq
<1>2. ASSUME NEW s \in Seq(Messages), s # <<>>
      PROVE  MembersOf(s) # {}
  BY <1>2, EmptySeq DEF MembersOf
<1> QED
  BY <1>1, <1>2 DEF MembersOf

(* The group that goes first: the CHOOSE finds one. *)
LEMMA FirstGroupIs ==
  ASSUME NEW items \in Seq(Messages), items # <<>>
  PROVE  \E e \in 1..Len(items) : /\ FirstGroup(items) = SubSeq(items, 1, e)
                                  /\ \A i \in 1..e : Auth[items[i]] = Auth[items[1]]
<1> DEFINE one(n) == \A i \in 1..n : Auth[items[i]] = Auth[items[1]]
           ends(n) == one(n) /\ (n < Len(items) => ~one(n + 1))
           stops == {n \in 1..Len(items) : n = Len(items) \/ ~one(n + 1)}
<1>1. Len(items) \in Nat \ {0}
  BY EmptySeq
<1>2. stops # {} /\ stops \subseteq Nat
  BY <1>1
<1> HIDE DEF stops
<1>3. PICK n \in stops : \A k \in stops : ~(k < n)
  <2>1. PICK n \in stops : \A k \in stops : <<k, n>> \notin OpToRel(<, Nat)
    BY <1>2, NatLessThanWellFounded, WFMin
  <2>2. \A k \in stops : k \in Nat /\ n \in Nat
    BY <1>2
  <2>3. \A k \in stops : ~(k < n)
    BY <2>1, <2>2, Zenon DEF OpToRel
  <2> QED
    BY <2>3
<1> USE DEF stops
<1>4. n \in 1..Len(items) /\ ends(n)
  <2>1. one(n)
    <3> SUFFICES ASSUME NEW i \in 1..n PROVE Auth[items[i]] = Auth[items[1]]
      OBVIOUS
    <3>1. CASE i = 1
      BY <3>1
    <3>2. CASE i # 1
      <4>1. i - 1 \in 1..Len(items) /\ i - 1 \notin stops
        BY <1>1, <1>3, <3>2
      <4>2. one(i - 1 + 1)
        BY <4>1
      <4> QED
        BY <1>1, <4>2
    <3> QED
      BY <3>1, <3>2
  <2> QED
    BY <1>1, <1>3, <2>1
<1> DEFINE end == CHOOSE k \in 1..Len(items) : ends(k)
<1>5. end \in 1..Len(items) /\ ends(end)
  BY <1>4
<1>6. FirstGroup(items) = SubSeq(items, 1, end)
  BY DEF FirstGroup
<1> QED
  BY <1>5, <1>6

-----------------------------------------------------------------------------
(* Queue objects.                                                           *)

LEMMA Fields ==
  ASSUME NEW q \in Queue
  PROVE  /\ q.items \in Seq(Messages) /\ Len(q.items) \in Nat
         /\ q.turn.msgs \in Seq(Messages) /\ Len(q.turn.msgs) \in Nat
         /\ q.groups \in Seq(Messages) /\ q.turn.pops \in Nat
         /\ q.cap \in Nat \ {0} /\ q.dropped \in SUBSET Messages
         /\ Claimed(q) \in Seq(Messages) /\ Len(Claimed(q)) \in Nat
         /\ MembersOf(Claimed(q)) = MembersOf(q.turn.msgs) \cup MembersOf(q.groups)
<1>1. /\ q.items \in Seq(Messages) /\ q.turn.msgs \in Seq(Messages) /\ q.groups \in Seq(Messages)
      /\ q.turn.pops \in Nat /\ q.cap \in Nat \ {0} /\ q.dropped \in SUBSET Messages
  BY DEF Queue, Turn
<1> QED
  BY <1>1, LenProperties, ConcatProperties, ConcatMembers DEF Claimed

(* A claim of the first items, or of none. *)
ClaimsPrefix(p) ==
  /\ \A j \in 1..Len(Claimed(p)) : j <= Len(p.items) /\ Claimed(p)[j] = p.items[j]
  /\ Len(p.turn.msgs) <= p.turn.pops
  /\ \A m, n \in MembersOf(p.turn.msgs) : Auth[m] = Auth[n]

LEMMA PrefixIsOK ==
  ASSUME NEW q \in Queue, NEW p \in Queue, ObjectOK(q), p.items = q.items, ClaimsPrefix(p)
  PROVE  ObjectOK(p) /\ Held(p) \subseteq Held(q) /\ Held(p) = MembersOf(q.items)
<1> DEFINE s == q.items
           C == Claimed(p)
<1>1. Len(s) \in Nat /\ Len(C) \in Nat
  BY Fields
<1>2. Distinct(s) /\ p.items = s
  BY DEF ObjectOK
<1>3. \A j \in 1..Len(C) : j <= Len(s) /\ C[j] = s[j]
  BY DEF ClaimsPrefix
<1> HIDE DEF s, C
<1>4. Distinct(C)
  BY <1>1, <1>2, <1>3 DEF Distinct
<1>5. \A i \in 1..Len(s), j \in 1..Len(C) : s[i] = C[j] => i <= j
  BY <1>1, <1>2, <1>3 DEF Distinct
<1>6. MembersOf(C) \subseteq MembersOf(s)
  BY <1>1, <1>3 DEF MembersOf
<1> QED
  BY <1>2, <1>4, <1>5, <1>6 DEF ObjectOK, ClaimsPrefix, Held, s, C

LEMMA PrefixInOrder ==
  ASSUME NEW q \in Queue, NEW p \in Queue, ObjectOK(q), p.items = q.items, ClaimsPrefix(p),
         NEW acc, NEW rn, ObjectInOrder(q, acc, rn)
  PROVE  ObjectInOrder(p, acc, rn)
<1> DEFINE s == q.items
           C == Claimed(p)
<1>1. Len(s) \in Nat /\ Len(C) \in Nat
  BY Fields
<1>2. Sorted(s, acc) /\ p.items = s /\ \A x \in MembersOf(rn), y \in MembersOf(s) : Before(x, y, acc)
  BY DEF ObjectInOrder, Held
<1>3. \A j \in 1..Len(C) : j <= Len(s) /\ C[j] = s[j]
  BY DEF ClaimsPrefix
<1>4. Held(p) = MembersOf(s)
  BY PrefixIsOK
<1> HIDE DEF s, C
<1>5. Sorted(C, acc)
  BY <1>1, <1>2, <1>3 DEF Sorted
<1>6. ASSUME NEW x \in MembersOf(C), NEW y \in MembersOf(s) \ MembersOf(C)
      PROVE  Before(x, y, acc)
  <2>1. PICK j \in 1..Len(C) : x = C[j]
    BY DEF MembersOf
  <2>2. PICK i \in 1..Len(s) : y = s[i]
    BY DEF MembersOf
  <2>3. ~(i <= Len(C))
    <3> SUFFICES ASSUME i <= Len(C) PROVE FALSE
      OBVIOUS
    <3>1. i \in 1..Len(C) /\ C[i] = y
      BY <1>1, <1>3, <2>2
    <3> QED
      BY <3>1 DEF MembersOf
  <2>4. j < i /\ j \in 1..Len(s)
    BY <1>1, <1>3, <2>3
  <2> QED
    BY <1>2, <1>3, <2>1, <2>2, <2>4 DEF Sorted
<1> QED
  BY <1>2, <1>4, <1>5, <1>6 DEF ObjectInOrder, s, C

LEMMA PrefixIsWhole ==
  ASSUME NEW p \in Queue, ClaimsPrefix(p), p.turn.pops = Len(p.turn.msgs), p.dropped = {}
  PROVE  ObjectWhole(p)
BY DEF ObjectWhole, ClaimsPrefix

(* Nothing is claimed by an object that is idle or debouncing.              *)
LEMMA NothingClaimed ==
  ASSUME NEW p \in Queue, p.turn = NoTurn, p.groups = <<>>
  PROVE  ClaimsPrefix(p) /\ p.turn.pops = Len(p.turn.msgs)
<1>1. p.turn.msgs = <<>> /\ p.turn.pops = 0
  BY DEF NoTurn
<1>2. Claimed(p) = <<>> /\ Len(Claimed(p)) = 0 /\ MembersOf(Claimed(p)) = {}
  BY <1>1, EmptyMembers DEF Claimed
<1> QED
  BY <1>1, <1>2, EmptyMembers DEF ClaimsPrefix

(* A turn succeeded: what it answered leaves the claim and the queue.       *)
AfterTurn(q, p) ==
  /\ p.items = DropFirst(q.items, q.turn.pops)
  /\ Claimed(p) = q.groups
  /\ Len(p.turn.msgs) <= p.turn.pops
  /\ \A m, n \in MembersOf(p.turn.msgs) : Auth[m] = Auth[n]

LEMMA AfterTurnIsOK ==
  ASSUME NEW q \in Queue, NEW p \in Queue, ObjectOK(q), AfterTurn(q, p)
  PROVE  /\ ObjectOK(p)
         /\ Held(p) \subseteq Held(q)
         /\ Held(p) \cap MembersOf(q.turn.msgs) = {}
         /\ Distinct(q.turn.msgs)
<1> DEFINE s == q.items
           t == p.items
           C == Claimed(q)
           D == Claimed(p)
           k == q.turn.pops
           n == Len(q.turn.msgs)
           g == q.turn.msgs
<1>1. /\ Len(s) \in Nat /\ Len(C) \in Nat /\ k \in Nat /\ n \in Nat /\ n <= k
      /\ Len(t) \in Nat /\ Len(D) \in Nat /\ Len(g) = n
  BY Fields DEF ObjectOK
<1>2. /\ \A i \in 1..Len(t) : k + i \in 1..Len(s) /\ t[i] = s[k + i]
      /\ MembersOf(t) \subseteq MembersOf(s)
  <2>1. t = DropFirst(s, k) /\ s \in Seq(Messages) /\ k \in Nat
    BY Fields DEF AfterTurn
  <2> HIDE DEF s, t, k
  <2> QED
    BY <2>1, DropFirstIs
<1>3. /\ Len(C) = n + Len(D)
      /\ \A i \in 1..n : i \in 1..Len(C) /\ C[i] = g[i]
      /\ \A j \in 1..Len(D) : n + j \in 1..Len(C) /\ C[n + j] = D[j]
  <2>1. /\ C = g \o D /\ g \in Seq(Messages) /\ D \in Seq(Messages)
    BY Fields DEF AfterTurn, Claimed
  <2>2. /\ Len(C) = n + Len(D)
        /\ \A i \in 1..(n + Len(D)) : C[i] = IF i <= n THEN g[i] ELSE D[i - n]
    BY <2>1, ConcatProperties
  <2> HIDE DEF C, D, n, g
  <2> QED
    BY <1>1, <2>2
<1>4. MembersOf(D) \subseteq MembersOf(C) /\ MembersOf(g) \subseteq MembersOf(C)
  BY Fields DEF AfterTurn
<1>5. /\ Distinct(s) /\ Distinct(C)
      /\ \A i \in 1..Len(s), j \in 1..Len(C) : s[i] = C[j] => i <= j
  BY DEF ObjectOK
<1> HIDE DEF s, t, C, D, k, n, g
<1>6. Distinct(t)
  <2> SUFFICES ASSUME NEW i \in 1..Len(t), NEW j \in 1..Len(t), t[i] = t[j]
               PROVE  i = j
    BY DEF Distinct
  <2>1. k + i = k + j
    BY <1>2, <1>5 DEF Distinct
  <2> QED
    BY <1>1, <2>1
<1>7. Distinct(D)
  <2> SUFFICES ASSUME NEW i \in 1..Len(D), NEW j \in 1..Len(D), D[i] = D[j]
               PROVE  i = j
    BY DEF Distinct
  <2>1. n + i = n + j
    BY <1>3, <1>5 DEF Distinct
  <2> QED
    BY <1>1, <2>1
<1>8. ASSUME NEW i \in 1..Len(t), NEW j \in 1..Len(D), t[i] = D[j]
      PROVE  i <= j
  <2>1. k + i <= n + j
    BY <1>2, <1>3, <1>5, <1>8
  <2> QED
    BY <1>1, <2>1
<1>9. ASSUME NEW i \in 1..n
      PROVE  g[i] \notin MembersOf(t) /\ g[i] \notin MembersOf(D)
  <2>1. \A j \in 1..Len(t) : t[j] # g[i]
    <3> SUFFICES ASSUME NEW j \in 1..Len(t), t[j] = g[i] PROVE FALSE
      OBVIOUS
    <3>1. k + j <= i
      BY <1>2, <1>3, <1>5
    <3> QED
      BY <1>1, <3>1
  <2>2. \A j \in 1..Len(D) : D[j] # g[i]
    <3> SUFFICES ASSUME NEW j \in 1..Len(D), D[j] = g[i] PROVE FALSE
      OBVIOUS
    <3>1. n + j = i
      BY <1>3, <1>5 DEF Distinct
    <3> QED
      BY <1>1, <3>1
  <2> QED
    BY <2>1, <2>2 DEF MembersOf
<1>10. Distinct(g)
  BY <1>1, <1>3, <1>5 DEF Distinct
<1>11. Held(p) \subseteq Held(q)
  BY <1>2, <1>4 DEF Held, s, t, C, D
<1>12. Held(p) \cap MembersOf(g) = {}
  <2>1. Held(p) = MembersOf(D) \cup MembersOf(t)
    BY DEF Held, D, t
  <2>2. \A x \in MembersOf(g) : \E i \in 1..n : x = g[i]
    BY <1>1 DEF MembersOf
  <2> QED
    BY <1>9, <2>1, <2>2
<1>13. ObjectOK(p)
  BY <1>4, <1>5, <1>6, <1>7, <1>8 DEF ObjectOK, AfterTurn, t, D
<1> QED
  BY <1>10, <1>11, <1>12, <1>13 DEF g

LEMMA AfterTurnInOrder ==
  ASSUME NEW q \in Queue, NEW p \in Queue, ObjectOK(q), AfterTurn(q, p),
         NEW acc, NEW rn \in Seq(Messages), ObjectInOrder(q, acc, rn), Sorted(rn, acc)
  PROVE  ObjectInOrder(p, acc, rn \o q.turn.msgs) /\ Sorted(rn \o q.turn.msgs, acc)
<1> DEFINE s == q.items
           t == p.items
           C == Claimed(q)
           D == Claimed(p)
           g == q.turn.msgs
           k == q.turn.pops
           r == rn \o g
<1>1. /\ s \in Seq(Messages) /\ k \in Nat /\ g \in Seq(Messages) /\ D \in Seq(Messages)
      /\ C \in Seq(Messages) /\ t = DropFirst(s, k) /\ C = g \o D
      /\ t \in Seq(Messages)
  BY Fields DEF AfterTurn, Claimed
<1>2. /\ Held(p) \subseteq Held(q) /\ Held(p) \cap MembersOf(g) = {}
      /\ Held(p) = MembersOf(D) \cup MembersOf(t) /\ Held(q) = MembersOf(C) \cup MembersOf(s)
  BY AfterTurnIsOK DEF Held
<1>3. /\ Sorted(s, acc) /\ Sorted(C, acc)
      /\ \A x \in MembersOf(C), y \in MembersOf(s) \ MembersOf(C) : Before(x, y, acc)
      /\ \A x \in MembersOf(rn), y \in Held(q) : Before(x, y, acc)
  BY DEF ObjectInOrder
<1> HIDE DEF s, t, C, D, g, k
<1>4. /\ MembersOf(r) = MembersOf(rn) \cup MembersOf(g)
      /\ MembersOf(C) = MembersOf(g) \cup MembersOf(D)
  BY <1>1, ConcatMembers
<1>5. /\ Len(s) \in Nat /\ Len(t) \in Nat /\ Len(g) \in Nat /\ Len(D) \in Nat /\ Len(rn) \in Nat
      /\ Len(C) = Len(g) + Len(D) /\ Len(r) = Len(rn) + Len(g)
      /\ \A i \in 1..(Len(g) + Len(D)) : C[i] = IF i <= Len(g) THEN g[i] ELSE D[i - Len(g)]
      /\ \A i \in 1..(Len(rn) + Len(g)) : r[i] = IF i <= Len(rn) THEN rn[i] ELSE g[i - Len(rn)]
  BY <1>1, LenProperties, ConcatProperties
<1>6. \A i \in 1..Len(t) : k + i \in 1..Len(s) /\ t[i] = s[k + i]
  BY <1>1, DropFirstIs
<1>7. /\ \A i \in 1..Len(g) : i \in 1..Len(C) /\ C[i] = g[i]
      /\ \A j \in 1..Len(D) : Len(g) + j \in 1..Len(C) /\ C[Len(g) + j] = D[j]
  BY <1>5
<1>8. Sorted(t, acc)
  <2> SUFFICES ASSUME NEW i \in 1..Len(t), NEW j \in 1..Len(t), i < j
               PROVE  Before(t[i], t[j], acc)
    BY DEF Sorted
  <2>1. k + i < k + j
    BY <1>1
  <2> QED
    BY <1>3, <1>6, <2>1 DEF Sorted
<1>9. Sorted(D, acc)
  <2> SUFFICES ASSUME NEW i \in 1..Len(D), NEW j \in 1..Len(D), i < j
               PROVE  Before(D[i], D[j], acc)
    BY DEF Sorted
  <2>1. Len(g) + i < Len(g) + j
    BY <1>5
  <2> QED
    BY <1>3, <1>7, <2>1 DEF Sorted
<1>10. ASSUME NEW i \in 1..Len(g), NEW j \in 1..Len(D)
       PROVE  Before(g[i], D[j], acc)
  <2>1. i < Len(g) + j
    BY <1>5
  <2> QED
    BY <1>3, <1>7, <2>1 DEF Sorted
<1>11. \A x \in MembersOf(g), y \in MembersOf(D) : Before(x, y, acc)
  BY <1>10 DEF MembersOf
<1>12. \A x \in MembersOf(g), y \in Held(p) : Before(x, y, acc)
  BY <1>2, <1>3, <1>4, <1>11
<1>13. \A x \in MembersOf(r), y \in Held(p) : Before(x, y, acc)
  BY <1>2, <1>3, <1>4, <1>12
<1>14. \A x \in MembersOf(D), y \in MembersOf(t) \ MembersOf(D) : Before(x, y, acc)
  BY <1>2, <1>3, <1>4
<1>15. Sorted(r, acc)
  <2> SUFFICES ASSUME NEW i \in 1..Len(r), NEW j \in 1..Len(r), i < j
               PROVE  Before(r[i], r[j], acc)
    BY DEF Sorted
  <2>1. CASE j <= Len(rn)
    <3>1. r[i] = rn[i] /\ r[j] = rn[j] /\ i \in 1..Len(rn) /\ j \in 1..Len(rn)
      BY <1>5, <2>1
    <3> QED
      BY <3>1 DEF Sorted
  <2>2. CASE i <= Len(rn) /\ ~(j <= Len(rn))
    <3>1. r[i] = rn[i] /\ i \in 1..Len(rn) /\ r[j] = g[j - Len(rn)] /\ j - Len(rn) \in 1..Len(g)
      BY <1>5, <2>2
    <3>2. rn[i] \in MembersOf(rn) /\ g[j - Len(rn)] \in MembersOf(g)
      BY <3>1 DEF MembersOf
    <3> QED
      BY <1>2, <1>3, <1>4, <3>1, <3>2
  <2>3. CASE ~(i <= Len(rn))
    <3> DEFINE a == i - Len(rn)
               b == j - Len(rn)
    <3>1. r[i] = g[a] /\ r[j] = g[b] /\ a \in 1..Len(g) /\ b \in 1..Len(g) /\ a < b
      BY <1>5, <2>3
    <3> HIDE DEF a, b
    <3> QED
      BY <1>3, <1>7, <3>1 DEF Sorted
  <2> QED
    BY <2>1, <2>2, <2>3
<1>16. ObjectInOrder(p, acc, r)
  BY <1>8, <1>9, <1>13, <1>14 DEF ObjectInOrder, t, D
<1> QED
  BY <1>15, <1>16 DEF g

LEMMA AfterTurnIsWhole ==
  ASSUME NEW q \in Queue, NEW p \in Queue, AfterTurn(q, p), ObjectWhole(q),
         p.dropped = {}, p.turn.pops = Len(p.turn.msgs)
  PROVE  /\ ObjectWhole(p)
         /\ MembersOf(q.items) \subseteq MembersOf(p.items) \cup MembersOf(q.turn.msgs)
<1> DEFINE s == q.items
           t == p.items
           C == Claimed(q)
           D == Claimed(p)
           g == q.turn.msgs
<1>1. /\ s \in Seq(Messages) /\ g \in Seq(Messages) /\ D \in Seq(Messages) /\ t \in Seq(Messages)
      /\ t = DropFirst(s, Len(g)) /\ C = g \o D
  BY Fields DEF AfterTurn, Claimed, ObjectWhole
<1>2. \A j \in 1..Len(C) : j <= Len(s) /\ s[j] = C[j]
  BY DEF ObjectWhole
<1> HIDE DEF s, t, C, D, g
<1>3. /\ Len(s) \in Nat /\ Len(t) \in Nat /\ Len(g) \in Nat /\ Len(D) \in Nat
      /\ Len(C) = Len(g) + Len(D)
      /\ \A i \in 1..(Len(g) + Len(D)) : C[i] = IF i <= Len(g) THEN g[i] ELSE D[i - Len(g)]
  BY <1>1, LenProperties, ConcatProperties
<1>4. /\ Len(t) = IF Len(g) <= Len(s) THEN Len(s) - Len(g) ELSE 0
      /\ \A i \in 1..Len(t) : Len(g) + i \in 1..Len(s) /\ t[i] = s[Len(g) + i]
  BY <1>1, <1>3, DropFirstIs
<1>5. ASSUME NEW j \in 1..Len(D)
      PROVE  j <= Len(t) /\ t[j] = D[j]
  <2>1. Len(g) + j \in 1..Len(C) /\ C[Len(g) + j] = D[j]
    BY <1>3
  <2>2. Len(g) + j <= Len(s) /\ s[Len(g) + j] = D[j]
    BY <1>2, <2>1
  <2>3. j <= Len(t)
    BY <1>3, <1>4, <2>2
  <2> QED
    BY <1>3, <1>4, <2>2, <2>3
<1>6. ASSUME NEW i \in 1..Len(s)
      PROVE  s[i] \in MembersOf(t) \cup MembersOf(g)
  <2>1. CASE i <= Len(g)
    <3>1. i \in 1..Len(C) /\ C[i] = g[i] /\ i \in 1..Len(g)
      BY <1>3, <2>1
    <3> QED
      BY <1>2, <3>1 DEF MembersOf
  <2>2. CASE ~(i <= Len(g))
    <3>1. i - Len(g) \in 1..Len(t) /\ Len(g) + (i - Len(g)) = i
      BY <1>3, <1>4, <2>2
    <3>2. t[i - Len(g)] = s[i]
      BY <1>4, <3>1
    <3> QED
      BY <3>1, <3>2 DEF MembersOf
  <2> QED
    BY <2>1, <2>2
<1>7. MembersOf(s) \subseteq MembersOf(t) \cup MembersOf(g)
  BY <1>6 DEF MembersOf
<1>8. ObjectWhole(p)
  BY <1>5 DEF ObjectWhole, t, D
<1> QED
  BY <1>7, <1>8 DEF s, t, g

(* A message comes in, and n may have gone to make room for it. *)
Grows(q, p, n, m) ==
  /\ p.items = Append(DropFirst(q.items, n), m)
  /\ p.turn = q.turn
  /\ p.groups = q.groups

LEMMA GrowsIsOK ==
  ASSUME NEW q \in Queue, NEW p \in Queue, NEW n \in Nat, NEW m \in Messages,
         ObjectOK(q), Grows(q, p, n, m), m \notin Held(q)
  PROVE  /\ ObjectOK(p)
         /\ Held(p) \subseteq Held(q) \cup {m}
         /\ n = 0 => MembersOf(p.items) = MembersOf(q.items) \cup {m}
<1> DEFINE s == q.items
           d == DropFirst(s, n)
           t == p.items
           C == Claimed(q)
<1>1. s \in Seq(Messages) /\ Len(C) \in Nat /\ t = Append(d, m) /\ Claimed(p) = C
  BY Fields DEF Grows, Claimed
<1>2. /\ Distinct(s) /\ m \notin MembersOf(s) /\ m \notin MembersOf(C)
      /\ \A i \in 1..Len(s), j \in 1..Len(C) : s[i] = C[j] => i <= j
  BY DEF ObjectOK, Held
<1> HIDE DEF s, C, t
<1>3. /\ d \in Seq(Messages) /\ Len(s) \in Nat
      /\ Len(d) = IF n <= Len(s) THEN Len(s) - n ELSE 0
      /\ \A i \in 1..Len(d) : n + i \in 1..Len(s) /\ d[i] = s[n + i]
      /\ MembersOf(d) \subseteq MembersOf(s)
  BY <1>1, DropFirstIs, LenProperties
<1> HIDE DEF d
<1>4. /\ Len(t) = Len(d) + 1 /\ Len(d) \in Nat
      /\ \A i \in 1..Len(d) : t[i] = d[i]
      /\ t[Len(d) + 1] = m
      /\ MembersOf(t) = MembersOf(d) \cup {m}
  BY <1>1, <1>3, AppendProperties, AppendMembers, LenProperties
<1>5. ASSUME NEW i \in 1..Len(t)
      PROVE  \/ i \in 1..Len(d) /\ n + i \in 1..Len(s) /\ t[i] = s[n + i] /\ t[i] # m
             \/ i = Len(d) + 1 /\ t[i] = m
  <2>1. CASE i \in 1..Len(d)
    <3>1. t[i] = s[n + i] /\ n + i \in 1..Len(s)
      BY <1>3, <1>4, <2>1
    <3> QED
      BY <1>2, <2>1, <3>1 DEF MembersOf
  <2>2. CASE i \notin 1..Len(d)
    <3>1. i = Len(d) + 1
      BY <1>3, <1>4, <2>2
    <3> QED
      BY <1>4, <3>1
  <2> QED
    BY <2>1, <2>2
<1>6. Distinct(t)
  <2> SUFFICES ASSUME NEW i \in 1..Len(t), NEW j \in 1..Len(t), t[i] = t[j]
               PROVE  i = j
    BY DEF Distinct
  <2>1. CASE t[i] = m
    BY <1>5, <2>1
  <2>2. CASE t[i] # m
    <3>1. n + i \in 1..Len(s) /\ n + j \in 1..Len(s) /\ s[n + i] = s[n + j]
      BY <1>5, <2>2
    <3>2. n + i = n + j
      BY <1>2, <3>1 DEF Distinct
    <3> QED
      BY <3>2
  <2> QED
    BY <2>1, <2>2
<1>7. ASSUME NEW i \in 1..Len(t), NEW j \in 1..Len(C), t[i] = C[j]
      PROVE  i <= j
  <2>1. t[i] # m
    BY <1>2, <1>7 DEF MembersOf
  <2>2. n + i \in 1..Len(s) /\ s[n + i] = C[j]
    BY <1>5, <1>7, <2>1
  <2>3. n + i <= j
    BY <1>2, <2>2
  <2> QED
    BY <1>1, <2>3
<1>8. ObjectOK(p)
  BY <1>1, <1>6, <1>7 DEF ObjectOK, Grows, t, C
<1>9. Held(p) \subseteq Held(q) \cup {m}
  BY <1>1, <1>3, <1>4 DEF Held, s, t, C
<1>10. ASSUME n = 0
       PROVE  MembersOf(t) = MembersOf(s) \cup {m}
  <2>1. Len(d) = Len(s) /\ \A i \in 1..Len(s) : d[i] = s[i]
    BY <1>3, <1>10
  <2>2. MembersOf(d) = MembersOf(s)
    BY <2>1 DEF MembersOf
  <2> QED
    BY <1>4, <2>2
<1> QED
  BY <1>8, <1>9, <1>10 DEF s, t

LEMMA GrowsInOrder ==
  ASSUME NEW q \in Queue, NEW p \in Queue, NEW m \in Messages, NEW n \in Nat, Grows(q, p, n, m),
         NEW known, Held(q) \subseteq known, m \notin known,
         NEW acc \in Seq(Messages), MembersOf(acc) \subseteq known,
         NEW rn \in Seq(Messages), MembersOf(rn) \subseteq known,
         ObjectInOrder(q, acc, rn), Sorted(rn, acc)
  PROVE  ObjectInOrder(p, Append(acc, m), rn) /\ Sorted(rn, Append(acc, m))
<1> DEFINE acc2 == Append(acc, m)
           s == q.items
           t == p.items
           C == Claimed(q)
<1>1. Grows(q, p, n, m)
  OBVIOUS
<1> DEFINE d == DropFirst(s, n)
<1>2. /\ s \in Seq(Messages) /\ Len(s) \in Nat /\ C \in Seq(Messages) /\ Len(C) \in Nat
      /\ t = Append(d, m) /\ Claimed(p) = C
  BY <1>1, Fields DEF Grows, Claimed
<1>3. /\ Sorted(s, acc) /\ Sorted(C, acc)
      /\ \A x \in MembersOf(C), y \in MembersOf(s) \ MembersOf(C) : Before(x, y, acc)
      /\ \A x \in MembersOf(rn), y \in MembersOf(C) \cup MembersOf(s) : Before(x, y, acc)
      /\ MembersOf(C) \subseteq known /\ MembersOf(s) \subseteq known
  BY DEF ObjectInOrder, Held
<1>4. /\ Len(acc) \in Nat /\ Len(acc2) = Len(acc) + 1
      /\ \A i \in 1..Len(acc) : acc2[i] = acc[i] /\ acc[i] \in known
      /\ acc2[Len(acc) + 1] = m
  BY AppendProperties, LenProperties DEF MembersOf
<1> HIDE DEF s, t, C, d, acc2
<1>5. ASSUME NEW x \in known, NEW y \in known \cup {m}, y = m \/ Before(x, y, acc)
      PROVE  Before(x, y, acc2)
  <2> SUFFICES ASSUME NEW a \in 1..Len(acc2), NEW b \in 1..Len(acc2), acc2[a] = x, acc2[b] = y
               PROVE  a < b
    BY DEF Before
  <2>1. a \in 1..Len(acc) /\ acc[a] = x
    <3>1. CASE a \in 1..Len(acc)
      BY <1>4, <3>1
    <3>2. CASE a \notin 1..Len(acc)
      BY <1>4, <3>2
    <3> QED
      BY <3>1, <3>2
  <2>2. CASE b \in 1..Len(acc)
    <3>1. acc[b] = y /\ y # m
      BY <1>4, <2>2
    <3> QED
      BY <1>5, <2>1, <2>2, <3>1 DEF Before
  <2>3. CASE b \notin 1..Len(acc)
    BY <1>4, <2>1, <2>3
  <2> QED
    BY <2>2, <2>3
<1>6. ASSUME NEW r \in Seq(Messages), MembersOf(r) \subseteq known, Sorted(r, acc)
      PROVE  Sorted(r, acc2)
  <2>1. \A i \in 1..Len(r) : r[i] \in known
    BY <1>6 DEF MembersOf
  <2> QED
    BY <1>5, <1>6, <2>1 DEF Sorted
<1>7. /\ d \in Seq(Messages) /\ Len(d) \in Nat
      /\ \A i \in 1..Len(d) : n + i \in 1..Len(s) /\ d[i] = s[n + i]
      /\ MembersOf(d) \subseteq MembersOf(s)
  BY <1>2, DropFirstIs, LenProperties DEF d
<1>8. /\ Len(t) = Len(d) + 1
      /\ \A i \in 1..Len(d) : t[i] = d[i]
      /\ t[Len(d) + 1] = m
      /\ MembersOf(t) = MembersOf(d) \cup {m}
  BY <1>2, <1>7, AppendProperties, AppendMembers
<1>9. Sorted(t, acc2)
  <2> SUFFICES ASSUME NEW i \in 1..Len(t), NEW j \in 1..Len(t), i < j
               PROVE  Before(t[i], t[j], acc2)
    BY DEF Sorted
  <2>1. i \in 1..Len(d) /\ n + i \in 1..Len(s) /\ t[i] = s[n + i]
    BY <1>7, <1>8
  <2>2. t[i] \in known
    BY <1>3, <2>1 DEF MembersOf
  <2>3. CASE j = Len(d) + 1
    BY <1>5, <1>8, <2>2, <2>3
  <2>4. CASE j # Len(d) + 1
    <3>. Len(d) \in Nat /\ Len(t) = Len(d) + 1
      BY <1>7, <1>8
    <3>1. j \in 1..Len(d) /\ n + i < n + j
      BY <2>4
    <3>2. n + j \in 1..Len(s) /\ t[j] = s[n + j]
      BY <1>7, <1>8, <3>1
    <3>3. Before(t[i], t[j], acc) /\ t[j] \in known
      BY <1>3, <2>1, <3>1, <3>2 DEF Sorted, MembersOf
    <3> QED
      BY <1>5, <2>2, <3>3
  <2> QED
    BY <2>3, <2>4
<1>10. Sorted(C, acc2) /\ Sorted(rn, acc2)
  BY <1>2, <1>3, <1>6
<1>11. \A x \in MembersOf(C), y \in MembersOf(t) \ MembersOf(C) : Before(x, y, acc2)
  BY <1>3, <1>5, <1>7, <1>8
<1>12. \A x \in MembersOf(rn), y \in MembersOf(C) \cup MembersOf(t) : Before(x, y, acc2)
  BY <1>3, <1>5, <1>7, <1>8
<1>13. ObjectInOrder(p, acc2, rn)
  BY <1>2, <1>9, <1>10, <1>11, <1>12 DEF ObjectInOrder, Held, t
<1> QED
  BY <1>10, <1>13 DEF acc2

LEMMA GrowsIsWhole ==
  ASSUME NEW q \in Queue, NEW p \in Queue, NEW m \in Messages, Grows(q, p, 0, m),
         p.dropped = q.dropped, ObjectWhole(q)
  PROVE  ObjectWhole(p)
<1> DEFINE s == q.items
           d == DropFirst(s, 0)
           t == p.items
           C == Claimed(q)
<1>1. s \in Seq(Messages) /\ Len(C) \in Nat /\ t = Append(d, m) /\ Claimed(p) = C
  BY Fields DEF Grows, Claimed
<1>2. \A j \in 1..Len(C) : j <= Len(s) /\ s[j] = C[j]
  BY DEF ObjectWhole
<1>3. d \in Seq(Messages) /\ Len(d) = Len(s) /\ Len(s) \in Nat /\ \A i \in 1..Len(s) : d[i] = s[i]
  BY <1>1, DropFirstIs, LenProperties
<1> HIDE DEF s, d, C, t
<1>4. Len(t) = Len(s) + 1 /\ \A i \in 1..Len(s) : t[i] = s[i]
  BY <1>1, <1>3, AppendProperties
<1>5. \A j \in 1..Len(C) : j <= Len(t) /\ t[j] = C[j]
  BY <1>1, <1>2, <1>3, <1>4
<1> QED
  BY <1>1, <1>5 DEF ObjectWhole, Grows, t, C

(* Object q goes on as p, which has run G and taken nothing in.             *)
Continues(q, p, G) ==
  /\ ObjectOK(p)
  /\ Held(p) \subseteq Held(q)
  /\ MembersOf(G) \subseteq Held(q)
  /\ Held(p) \cap MembersOf(G) = {}
  /\ Distinct(G)
  /\ \A acc, rn \in Seq(Messages) :
       ObjectInOrder(q, acc, rn) /\ Sorted(rn, acc)
         => ObjectInOrder(p, acc, rn \o G) /\ Sorted(rn \o G, acc)
  /\ ObjectWhole(q) =>
       ObjectWhole(p) /\ MembersOf(q.items) \subseteq MembersOf(p.items) \cup MembersOf(G)

LEMMA ReclaimContinues ==
  ASSUME NEW q \in Queue, NEW p \in Queue, ObjectOK(q), p.items = q.items, ClaimsPrefix(p),
         ObjectWhole(q) => p.turn.pops = Len(p.turn.msgs) /\ p.dropped = {}
  PROVE  Continues(q, p, <<>>)
<1>1. /\ MembersOf(<<>>) = {} /\ Distinct(<<>>)
      /\ \A rn \in Seq(Messages) : rn \o <<>> = rn
  BY EmptyMembers, ConcatEmptySeq DEF Distinct
<1>2. ObjectOK(p) /\ Held(p) \subseteq Held(q)
  BY PrefixIsOK
<1>3. ASSUME NEW acc, NEW rn, ObjectInOrder(q, acc, rn)
      PROVE  ObjectInOrder(p, acc, rn)
  BY <1>3, PrefixInOrder
<1>4. ObjectWhole(q) => ObjectWhole(p)
  BY PrefixIsWhole
<1> QED
  BY <1>1, <1>2, <1>3, <1>4 DEF Continues

LEMMA TurnContinues ==
  ASSUME NEW q \in Queue, NEW p \in Queue, ObjectOK(q), AfterTurn(q, p),
         ObjectWhole(q) => p.turn.pops = Len(p.turn.msgs) /\ p.dropped = {}
  PROVE  Continues(q, p, q.turn.msgs)
<1>1. /\ ObjectOK(p) /\ Held(p) \subseteq Held(q) /\ Held(p) \cap MembersOf(q.turn.msgs) = {}
      /\ Distinct(q.turn.msgs)
  BY AfterTurnIsOK
<1>2. MembersOf(q.turn.msgs) \subseteq Held(q)
  BY Fields DEF Held
<1>3. ASSUME NEW acc \in Seq(Messages), NEW rn \in Seq(Messages),
             ObjectInOrder(q, acc, rn), Sorted(rn, acc)
      PROVE  ObjectInOrder(p, acc, rn \o q.turn.msgs) /\ Sorted(rn \o q.turn.msgs, acc)
  BY <1>3, AfterTurnInOrder
<1>4. ASSUME ObjectWhole(q)
      PROVE  /\ ObjectWhole(p)
             /\ MembersOf(q.items) \subseteq MembersOf(p.items) \cup MembersOf(q.turn.msgs)
  BY <1>4, AfterTurnIsWhole
<1> QED
  BY <1>1, <1>2, <1>3, <1>4 DEF Continues

(* New settings leave what is queued and claimed alone.                     *)
SameWork(q, p) ==
  p.items = q.items /\ p.turn = q.turn /\ p.groups = q.groups /\ p.dropped = q.dropped

LEMMA SameContinues ==
  ASSUME NEW q \in Queue, NEW p \in Queue, ObjectOK(q), SameWork(q, p)
  PROVE  Continues(q, p, <<>>)
<1>1. /\ MembersOf(<<>>) = {} /\ Distinct(<<>>)
      /\ \A rn \in Seq(Messages) : rn \o <<>> = rn
  BY EmptyMembers, ConcatEmptySeq DEF Distinct
<1>2. Claimed(p) = Claimed(q) /\ p.items = q.items /\ p.turn = q.turn /\ p.dropped = q.dropped
  BY DEF SameWork, Claimed
<1>3. Held(p) = Held(q)
  BY <1>2 DEF Held
<1>4. ObjectOK(p)
  BY <1>2 DEF ObjectOK
<1>5. ASSUME NEW acc, NEW rn, ObjectInOrder(q, acc, rn)
      PROVE  ObjectInOrder(p, acc, rn)
  BY <1>2, <1>3, <1>5 DEF ObjectInOrder
<1>6. ObjectWhole(q) => ObjectWhole(p)
  BY <1>2 DEF ObjectWhole
<1> QED
  BY <1>1, <1>2, <1>3, <1>4, <1>5, <1>6 DEF Continues

-----------------------------------------------------------------------------
(* All objects.                                                             *)

LEMMA DistinctConcat ==
  ASSUME NEW s \in Seq(Messages), NEW t \in Seq(Messages), Distinct(s), Distinct(t),
         MembersOf(s) \cap MembersOf(t) = {}
  PROVE  Distinct(s \o t)
<1> DEFINE r == s \o t
<1>1. /\ Len(s) \in Nat /\ Len(t) \in Nat /\ Len(r) = Len(s) + Len(t)
      /\ \A i \in 1..(Len(s) + Len(t)) : r[i] = IF i <= Len(s) THEN s[i] ELSE t[i - Len(s)]
  BY ConcatProperties, LenProperties
<1> HIDE DEF r
<1>2. ASSUME NEW i \in 1..Len(r)
      PROVE  \/ i \in 1..Len(s) /\ r[i] = s[i] /\ r[i] \in MembersOf(s)
             \/ i - Len(s) \in 1..Len(t) /\ r[i] = t[i - Len(s)] /\ r[i] \in MembersOf(t)
  <2>1. CASE i <= Len(s)
    <3>1. i \in 1..Len(s) /\ r[i] = s[i]
      BY <1>1, <2>1
    <3> QED
      BY <3>1 DEF MembersOf
  <2>2. CASE ~(i <= Len(s))
    <3>1. i - Len(s) \in 1..Len(t) /\ r[i] = t[i - Len(s)]
      BY <1>1, <2>2
    <3> QED
      BY <3>1 DEF MembersOf
  <2> QED
    BY <2>1, <2>2
<1>3. ASSUME NEW i \in 1..Len(r), NEW j \in 1..Len(r), r[i] = r[j]
      PROVE  i = j
  <2>1. CASE r[i] \in MembersOf(s)
    <3>1. i \in 1..Len(s) /\ j \in 1..Len(s) /\ s[i] = s[j]
      BY <1>2, <1>3, <2>1
    <3> QED
      BY <3>1 DEF Distinct
  <2>2. CASE r[i] \notin MembersOf(s)
    <3>1. i - Len(s) \in 1..Len(t) /\ j - Len(s) \in 1..Len(t) /\ t[i - Len(s)] = t[j - Len(s)]
      BY <1>2, <1>3, <2>2
    <3>2. i - Len(s) = j - Len(s)
      BY <3>1 DEF Distinct
    <3> QED
      BY <1>1, <3>2
  <2> QED
    BY <2>1, <2>2
<1> QED
  BY <1>3 DEF Distinct, r

(* Object o becomes p, which takes in N and has run G.                      *)
LEMMA ApartKeeps ==
  ASSUME NEW qs \in [Objects -> Queue], NEW known, NEW acc, NEW rn \in Seq(Messages),
         Apart(qs, known, acc, rn),
         NEW o \in Objects, NEW p \in Queue, ObjectOK(p),
         NEW N, N \cap known = {}, Held(p) \subseteq Held(qs[o]) \cup N,
         NEW G \in Seq(Messages), Distinct(G), MembersOf(G) \subseteq Held(qs[o]),
         Held(p) \cap MembersOf(G) = {},
         NEW acc2, MembersOf(acc2) \subseteq known \cup N
  PROVE  Apart([qs EXCEPT ![o] = p], known \cup N, acc2, rn \o G)
<1> DEFINE qs2 == [qs EXCEPT ![o] = p]
           H(x) == Held(qs[x])
           H2(x) == Held(qs2[x])
<1>1. /\ \A x \in Objects : ObjectOK(qs[x]) /\ H(x) \subseteq known /\ H(x) \cap MembersOf(rn) = {}
      /\ \A x, y \in Objects : x # y => H(x) \cap H(y) = {}
      /\ MembersOf(rn) \subseteq known /\ Distinct(rn)
  BY DEF Apart
<1>2. qs2[o] = p /\ \A x \in Objects : x # o => qs2[x] = qs[x]
  OBVIOUS
<1>3. MembersOf(rn \o G) = MembersOf(rn) \cup MembersOf(G)
  BY ConcatMembers
<1>4. Distinct(rn \o G)
  <2>1. MembersOf(rn) \cap MembersOf(G) = {}
    BY <1>1
  <2> QED
    BY <1>1, <2>1, DistinctConcat
<1> HIDE DEF qs2
<1>5. H2(o) \subseteq H(o) \cup N /\ \A x \in Objects : x # o => H2(x) = H(x)
  BY <1>2
<1>6. \A x \in Objects : ObjectOK(qs2[x])
  BY <1>1, <1>2
<1>7. H2(o) \cap MembersOf(G) = {}
  BY <1>2
<1> HIDE DEF H, H2
<1>8. MembersOf(G) \subseteq H(o)
  BY DEF H
<1>9. ASSUME NEW x \in Objects
      PROVE  H2(x) \subseteq known \cup N /\ H2(x) \cap MembersOf(rn \o G) = {}
  <2>1. CASE x = o
    BY <1>1, <1>3, <1>5, <1>7, <2>1
  <2>2. CASE x # o
    BY <1>1, <1>3, <1>5, <1>8, <2>2
  <2> QED
    BY <2>1, <2>2
<1>10. ASSUME NEW x \in Objects, NEW y \in Objects, x # y
       PROVE  H2(x) \cap H2(y) = {}
  <2>1. CASE x = o
    BY <1>1, <1>5, <1>10, <2>1
  <2>2. CASE y = o
    BY <1>1, <1>5, <1>10, <2>2
  <2>3. CASE x # o /\ y # o
    BY <1>1, <1>5, <1>10, <2>3
  <2> QED
    BY <2>1, <2>2, <2>3
<1>11. MembersOf(rn \o G) \subseteq known \cup N
  BY <1>1, <1>3, <1>8
<1> QED
  BY <1>4, <1>6, <1>9, <1>10, <1>11 DEF Apart, H2, qs2

LEMMA ObjectsAreFinite ==
  /\ IsFiniteSet(Objects) /\ Cardinality(Objects) = MaxClears + 1
  /\ \A S : S \subseteq Objects => IsFiniteSet(S) /\ Cardinality(S) \in Nat
<1>1. IsFiniteSet(Objects) /\ Cardinality(Objects) = MaxClears + 1
  BY ClearsAssumption, FS_Interval DEF Objects
<1> QED
  BY <1>1, FS_Subset, FS_CardinalityType

LEMMA FewerStrays ==
  ASSUME NEW S, S \subseteq Objects, NEW T, T \subseteq S, NEW n \in Nat, Cardinality(S) <= n
  PROVE  Cardinality(T) <= n
<1>1. /\ IsFiniteSet(S) /\ Cardinality(S) \in Nat
      /\ Cardinality(T) \in Nat /\ Cardinality(T) <= Cardinality(S)
  BY ObjectsAreFinite, FS_Subset
<1> QED
  BY <1>1

(* Before the first clear the registry's object is the only one at work.    *)
LEMMA NoStrays ==
  ASSUME NEW qs, NEW c, StraysCost(qs, c, 0), NEW o \in Objects, o # c
  PROVE  qs[o].drain = "idle"
<1>1. Strays(qs, c) \subseteq Objects
  BY DEF Strays
<1>2. Strays(qs, c) = {}
  BY <1>1, ObjectsAreFinite, FS_EmptySet DEF StraysCost
<1> QED
  BY <1>2 DEF Strays

LEMMA ContinueKeeps ==
  ASSUME NEW qs, NEW c \in {0} \cup Objects, NEW known, NEW acc \in Seq(Messages),
         NEW rn \in Seq(Messages), NEW ev, NEW cl \in Nat,
         QInv(qs, c, known, acc, rn, ev, cl),
         NEW o \in Objects, o = c \/ qs[o].drain # "idle",
         NEW p \in Queue, NEW G \in Seq(Messages), Continues(qs[o], p, G)
  PROVE  QInv([qs EXCEPT ![o] = p], c, known, acc, rn \o G, ev, cl)
<1> DEFINE qs2 == [qs EXCEPT ![o] = p]
           q == qs[o]
<1>1. /\ qs \in [Objects -> Queue] /\ Apart(qs, known, acc, rn) /\ StraysCost(qs, c, cl)
      /\ Single(qs, c, acc, rn, ev, cl)
  BY DEF QInv
<1>2. qs2 \in [Objects -> Queue] /\ qs2[o] = p /\ \A x \in Objects : x # o => qs2[x] = qs[x]
  BY <1>1
<1>3. Apart(qs2, known, acc, rn \o G)
  <2>1. /\ ObjectOK(p) /\ Held(p) \subseteq Held(qs[o]) /\ MembersOf(G) \subseteq Held(qs[o])
        /\ Held(p) \cap MembersOf(G) = {} /\ Distinct(G)
    BY DEF Continues
  <2>2. MembersOf(acc) \subseteq known
    BY <1>1 DEF Apart
  <2>3. Apart(qs2, known \cup {}, acc, rn \o G)
    BY <1>1, <2>1, <2>2, ApartKeeps
  <2> QED
    BY <2>3
<1> HIDE DEF qs2
<1>4. StraysCost(qs2, c, cl)
  <2>1. Strays(qs2, c) \subseteq Strays(qs, c) /\ Strays(qs, c) \subseteq Objects
    BY <1>2 DEF Strays
  <2> QED
    BY <1>1, <2>1, FewerStrays DEF StraysCost
<1>5. ASSUME cl = 0
      PROVE  /\ Sorted(rn \o G, acc)
             /\ c # 0 => ObjectInOrder(qs2[c], acc, rn \o G)
             /\ ev = {} => /\ c # 0 => ObjectWhole(qs2[c])
                           /\ \A m \in MembersOf(acc) :
                                m \in MembersOf(rn \o G) \/ (c # 0 /\ m \in MembersOf(qs2[c].items))
  <2>1. o = c
    BY <1>1, <1>5, NoStrays
  <2>2. /\ Sorted(rn, acc) /\ ObjectInOrder(q, acc, rn)
        /\ ev = {} => /\ ObjectWhole(q)
                      /\ \A m \in MembersOf(acc) : m \in MembersOf(rn) \cup MembersOf(q.items)
    BY <1>1, <1>5, <2>1 DEF Single, Objects
  <2>3. MembersOf(rn \o G) = MembersOf(rn) \cup MembersOf(G)
    BY ConcatMembers
  <2>4. ObjectInOrder(p, acc, rn \o G) /\ Sorted(rn \o G, acc)
    BY <2>2 DEF Continues
  <2>5. ObjectWhole(q) =>
          ObjectWhole(p) /\ MembersOf(q.items) \subseteq MembersOf(p.items) \cup MembersOf(G)
    BY DEF Continues
  <2>6. qs2[c] = p /\ c # 0
    BY <1>2, <2>1 DEF Objects
  <2> QED
    BY <2>2, <2>3, <2>4, <2>5, <2>6
<1>6. Single(qs2, c, acc, rn \o G, ev, cl)
  BY <1>5 DEF Single
<1> QED
  BY <1>2, <1>3, <1>4, <1>6 DEF QInv, qs2

LEMMA GrowKeeps ==
  ASSUME NEW qs, NEW c \in Objects, NEW known, NEW acc \in Seq(Messages),
         NEW rn \in Seq(Messages), NEW ev, NEW cl \in Nat,
         QInv(qs, c, known, acc, rn, ev, cl),
         NEW p \in Queue, NEW n \in Nat, NEW m \in Messages, Grows(qs[c], p, n, m), m \notin known,
         NEW ev2, ev2 = {} => ev = {} /\ n = 0 /\ p.dropped = qs[c].dropped
  PROVE  QInv([qs EXCEPT ![c] = p], c, known \cup {m}, Append(acc, m), rn, ev2, cl)
<1> DEFINE qs2 == [qs EXCEPT ![c] = p]
           q == qs[c]
           acc2 == Append(acc, m)
<1>1. /\ qs \in [Objects -> Queue] /\ Apart(qs, known, acc, rn) /\ StraysCost(qs, c, cl)
      /\ Single(qs, c, acc, rn, ev, cl)
  BY DEF QInv
<1>2. qs2 \in [Objects -> Queue] /\ qs2[c] = p /\ \A x \in Objects : x # c => qs2[x] = qs[x]
  BY <1>1
<1>3. /\ ObjectOK(q) /\ Held(q) \subseteq known /\ q \in Queue
      /\ MembersOf(rn) \subseteq known /\ MembersOf(acc) \subseteq known
  BY <1>1 DEF Apart
<1>4. /\ ObjectOK(p) /\ Held(p) \subseteq Held(q) \cup {m}
      /\ n = 0 => MembersOf(p.items) = MembersOf(q.items) \cup {m}
  <2>1. m \notin Held(q) /\ Grows(q, p, n, m)
    BY <1>3
  <2> HIDE DEF q
  <2> QED
    BY <1>3, <2>1, GrowsIsOK
<1>5. MembersOf(acc2) = MembersOf(acc) \cup {m}
  BY AppendMembers
<1>6. Apart(qs2, known \cup {m}, acc2, rn)
  <2>1. /\ <<>> \in Seq(Messages) /\ Distinct(<<>>) /\ MembersOf(<<>>) = {} /\ rn \o <<>> = rn
    BY EmptyMembers, ConcatEmptySeq DEF Distinct
  <2>2. MembersOf(acc2) \subseteq known \cup {m} /\ {m} \cap known = {}
    BY <1>3, <1>5
  <2>3. Apart(qs2, known \cup {m}, acc2, rn \o <<>>)
    BY <1>1, <1>4, <2>1, <2>2, ApartKeeps
  <2> QED
    BY <2>1, <2>3
<1> HIDE DEF qs2, acc2
<1>7. StraysCost(qs2, c, cl)
  <2>1. Strays(qs2, c) = Strays(qs, c)
    BY <1>2 DEF Strays
  <2> QED
    BY <1>1, <2>1 DEF StraysCost
<1>8. ASSUME cl = 0
      PROVE  /\ Sorted(rn, acc2)
             /\ ObjectInOrder(p, acc2, rn)
             /\ ev2 = {} => /\ ObjectWhole(p)
                            /\ \A x \in MembersOf(acc2) :
                                 x \in MembersOf(rn) \/ x \in MembersOf(p.items)
  <2>1. /\ Sorted(rn, acc) /\ ObjectInOrder(q, acc, rn)
        /\ ev = {} => /\ ObjectWhole(q)
                      /\ \A x \in MembersOf(acc) : x \in MembersOf(rn) \cup MembersOf(q.items)
    BY <1>1, <1>8 DEF Single, Objects
  <2>2. ObjectInOrder(p, acc2, rn) /\ Sorted(rn, acc2)
    BY <1>3, <2>1, GrowsInOrder DEF acc2
  <2>3. ASSUME ev2 = {}
        PROVE  ObjectWhole(p)
    BY <1>3, <2>1, <2>3, GrowsIsWhole
  <2> QED
    BY <1>4, <1>5, <2>1, <2>2, <2>3
<1>9. Single(qs2, c, acc2, rn, ev2, cl)
  BY <1>2, <1>8 DEF Single, Objects
<1> QED
  BY <1>2, <1>6, <1>7, <1>9 DEF QInv, qs2, acc2

(* An object that is new to the registry has nothing. *)
LEMMA CreateKeeps ==
  ASSUME NEW qs, NEW known, NEW acc \in Seq(Messages),
         NEW rn \in Seq(Messages), NEW ev, NEW cl \in Nat,
         QInv(qs, 0, known, acc, rn, ev, cl),
         NEW o \in Objects, NEW p \in Queue, SameWork(NewQueue, p)
  PROVE  QInv([qs EXCEPT ![o] = p], o, known, acc, rn, ev, cl)
<1> DEFINE qs2 == [qs EXCEPT ![o] = p]
<1>1. /\ qs \in [Objects -> Queue] /\ Apart(qs, known, acc, rn) /\ StraysCost(qs, 0, cl)
      /\ Single(qs, 0, acc, rn, ev, cl)
  BY DEF QInv
<1>2. qs2 \in [Objects -> Queue] /\ qs2[o] = p /\ \A x \in Objects : x # o => qs2[x] = qs[x]
  BY <1>1
<1>3. /\ p.items = <<>> /\ p.dropped = {} /\ p.turn = NoTurn /\ p.groups = <<>>
      /\ p.turn.msgs = <<>> /\ p.turn.pops = 0
  BY DEF SameWork, NewQueue, NoTurn
<1>4. Claimed(p) = <<>> /\ Held(p) = {} /\ MembersOf(<<>>) = {} /\ Len(<<>>) = 0
  BY <1>3, EmptyMembers DEF Claimed, Held
<1>5. ObjectOK(p)
  BY <1>3, <1>4 DEF ObjectOK, Distinct
<1>6. Apart(qs2, known, acc, rn)
  <2>1. /\ <<>> \in Seq(Messages) /\ Distinct(<<>>) /\ rn \o <<>> = rn
    BY EmptyMembers, ConcatEmptySeq DEF Distinct
  <2>2. MembersOf(acc) \subseteq known
    BY <1>1 DEF Apart
  <2>3. Apart(qs2, known \cup {}, acc, rn \o <<>>)
    BY <1>1, <1>4, <1>5, <2>1, <2>2, ApartKeeps
  <2> QED
    BY <2>1, <2>3
<1> HIDE DEF qs2
<1>7. StraysCost(qs2, o, cl)
  <2>1. Strays(qs2, o) \subseteq Strays(qs, 0) /\ Strays(qs, 0) \subseteq Objects
    BY <1>2 DEF Strays, Objects
  <2> QED
    BY <1>1, <2>1, FewerStrays DEF StraysCost
<1>8. ObjectInOrder(p, acc, rn) /\ ObjectWhole(p)
  BY <1>3, <1>4 DEF ObjectInOrder, ObjectWhole, Sorted
<1>9. Single(qs2, o, acc, rn, ev, cl)
  BY <1>1, <1>2, <1>8 DEF Single, Objects
<1> QED
  BY <1>2, <1>6, <1>7, <1>9 DEF QInv, qs2

(* A clear sets the object loose, and with it the drain that works on it.   *)
LEMMA ClearKeeps ==
  ASSUME NEW qs, NEW c \in Objects, NEW known, NEW acc \in Seq(Messages),
         NEW rn \in Seq(Messages), NEW ev, NEW cl \in Nat,
         QInv(qs, c, known, acc, rn, ev, cl),
         NEW p \in Queue, p.items = <<>>, p.turn = qs[c].turn, p.groups = qs[c].groups
  PROVE  QInv([qs EXCEPT ![c] = p], 0, known, acc, rn, ev, cl + 1)
<1> DEFINE qs2 == [qs EXCEPT ![c] = p]
           q == qs[c]
<1>1. /\ qs \in [Objects -> Queue] /\ Apart(qs, known, acc, rn) /\ StraysCost(qs, c, cl)
  BY DEF QInv
<1>2. qs2 \in [Objects -> Queue] /\ qs2[c] = p /\ \A x \in Objects : x # c => qs2[x] = qs[x]
  BY <1>1
<1>3. /\ Claimed(p) = Claimed(q) /\ Len(p.items) = 0 /\ MembersOf(p.items) = {}
      /\ p.turn = q.turn
  BY EmptyMembers DEF Claimed
<1>4. Held(p) \subseteq Held(q)
  BY <1>3 DEF Held
<1>5. ObjectOK(p)
  BY <1>1, <1>3 DEF ObjectOK, Distinct, Apart
<1>6. Apart(qs2, known, acc, rn)
  <2>1. /\ <<>> \in Seq(Messages) /\ Distinct(<<>>) /\ MembersOf(<<>>) = {} /\ rn \o <<>> = rn
    BY EmptyMembers, ConcatEmptySeq DEF Distinct
  <2>2. MembersOf(acc) \subseteq known
    BY <1>1 DEF Apart
  <2>3. Apart(qs2, known \cup {}, acc, rn \o <<>>)
    BY <1>1, <1>4, <1>5, <2>1, <2>2, ApartKeeps
  <2> QED
    BY <2>1, <2>3
<1> HIDE DEF qs2
<1>7. StraysCost(qs2, 0, cl + 1)
  <2>1. /\ Strays(qs2, 0) \subseteq Strays(qs, c) \cup {c}
        /\ Strays(qs, c) \subseteq Objects
    BY <1>2 DEF Strays
  <2>2. /\ IsFiniteSet(Strays(qs, c)) /\ Cardinality(Strays(qs, c)) \in Nat
        /\ Cardinality(Strays(qs, c)) <= cl
    BY <1>1, <2>1, ObjectsAreFinite DEF StraysCost
  <2>3. Cardinality(Strays(qs, c) \cup {c}) <= cl + 1
    <3> DEFINE S == Strays(qs, c)
    <3> HIDE DEF S
    <3>1. IsFiniteSet(S) /\ Cardinality(S) \in Nat /\ Cardinality(S) <= cl
      BY <2>2 DEF S
    <3>2. Cardinality(S \cup {c}) = IF c \in S THEN Cardinality(S) ELSE Cardinality(S) + 1
      BY <3>1, FS_AddElement
    <3> QED
      BY <3>1, <3>2 DEF S
  <2>4. Strays(qs, c) \cup {c} \subseteq Objects
    BY <2>1
  <2> QED
    BY <2>1, <2>3, <2>4, FewerStrays DEF StraysCost
<1>8. Single(qs2, 0, acc, rn, ev, cl + 1)
  BY DEF Single
<1> QED
  BY <1>2, <1>6, <1>7, <1>8 DEF QInv, qs2

-----------------------------------------------------------------------------
(* Drains.                                                                  *)

LEMMA NoTurnIsOK == NoTurn \in Turn /\ <<>> \in Seq(Messages)
BY EmptyMembers DEF NoTurn, Turn

LEMMA DebouncingIs ==
  ASSUME NEW q \in Queue
  PROVE  LET p == Debouncing(q)
         IN  /\ p \in Queue /\ p.items = q.items /\ p.dropped = q.dropped
             /\ p.turn = NoTurn /\ p.groups = <<>>
BY NoTurnIsOK DEF Debouncing, Queue

LEMMA IdleIs ==
  ASSUME NEW q \in Queue
  PROVE  LET p == Idle(q)
         IN  /\ p \in Queue /\ p.items = q.items /\ p.dropped = q.dropped
             /\ p.turn = NoTurn /\ p.groups = <<>> /\ p.drain = "idle"
BY NoTurnIsOK DEF Idle, Queue

(* An object that gives up its claim goes on. *)
LEMMA UnclaimedContinues ==
  ASSUME NEW q \in Queue, NEW p \in Queue, ObjectOK(q), p.items = q.items,
         p.dropped \in {{}, q.dropped}, p.turn = NoTurn, p.groups = <<>>
  PROVE  Continues(q, p, <<>>)
<1>1. ClaimsPrefix(p) /\ p.turn.pops = Len(p.turn.msgs)
  BY NothingClaimed
<1>2. ObjectWhole(q) => p.dropped = {}
  BY DEF ObjectWhole
<1> QED
  BY <1>1, <1>2, ReclaimContinues

(* A queue without work may be deleted: all it took in has run.             *)
LEMMA DeleteKeeps ==
  ASSUME NEW qs, NEW c \in {0} \cup Objects, NEW known, NEW acc \in Seq(Messages),
         NEW rn \in Seq(Messages), NEW ev, NEW cl \in Nat,
         QInv(qs, c, known, acc, rn, ev, cl),
         cl = 0 /\ c # 0 => qs[c].items = <<>>,
         StraysCost(qs, 0, cl)
  PROVE  QInv(qs, 0, known, acc, rn, ev, cl)
<1>1. ASSUME cl = 0
      PROVE  /\ Sorted(rn, acc)
             /\ ev = {} => \A m \in MembersOf(acc) : m \in MembersOf(rn)
  <2>1. c # 0 => MembersOf(qs[c].items) = {}
    BY <1>1, EmptyMembers
  <2> QED
    BY <1>1, <2>1 DEF QInv, Single
<1>2. Single(qs, 0, acc, rn, ev, cl)
  BY <1>1 DEF Single
<1> QED
  BY <1>2 DEF QInv

LEMMA ScheduleKeeps ==
  ASSUME NEW qs, NEW c \in {0} \cup Objects, NEW known, NEW acc \in Seq(Messages),
         NEW rn \in Seq(Messages), NEW ev, NEW cl \in Nat,
         QInv(qs, c, known, acc, rn, ev, cl),
         ScheduleFor(c, qs)
  PROVE  QInv(queues', current', known, acc, rn, ev, cl) /\ current' \in {0} \cup Objects
<1>1. CASE c = 0 \/ qs[c].drain # "idle"
  BY <1>1 DEF ScheduleFor
<1>2. CASE ~(c = 0 \/ qs[c].drain # "idle") /\ HasWork(qs[c])
  <2> DEFINE p == Debouncing(qs[c])
  <2>1. c \in Objects /\ qs[c] \in Queue /\ ObjectOK(qs[c])
    BY <1>2 DEF QInv, Apart
  <2>2. p \in Queue /\ Continues(qs[c], p, <<>>)
    BY <2>1, DebouncingIs, UnclaimedContinues
  <2>3. queues' = [qs EXCEPT ![c] = p] /\ current' = c
    BY <1>2 DEF ScheduleFor
  <2> HIDE DEF p
  <2>4. <<>> \in Seq(Messages) /\ rn \o <<>> = rn
    BY EmptyMembers, ConcatEmptySeq
  <2>5. QInv([qs EXCEPT ![c] = p], c, known, acc, rn \o <<>>, ev, cl)
    BY <2>1, <2>2, <2>4, ContinueKeeps
  <2> QED
    BY <2>3, <2>4, <2>5
<1>3. CASE ~(c = 0 \/ qs[c].drain # "idle") /\ ~HasWork(qs[c])
  <2>1. queues' = qs /\ current' = 0 /\ qs[c].items = <<>>
    BY <1>3 DEF ScheduleFor, HasWork
  <2>2. Strays(qs, 0) \subseteq Strays(qs, c) /\ Strays(qs, c) \subseteq Objects
    BY <1>3 DEF Strays
  <2>3. StraysCost(qs, 0, cl)
    BY <2>2, FewerStrays DEF StraysCost, QInv
  <2> QED
    BY <2>1, <2>3, DeleteKeeps
<1> QED
  BY <1>1, <1>2, <1>3

(* A drain over which the queue is left as q: the object is idle before the *)
(* registry's is looked at, and that may be another.                        *)
LEMMA EndDrainKeeps ==
  ASSUME NEW known, NEW acc \in Seq(Messages), NEW rn \in Seq(Messages), NEW ev, NEW cl \in Nat,
         current \in {0} \cup Objects, queues \in [Objects -> Queue],
         StraysCost(queues, current, cl),
         NEW o \in Objects, queues[o].drain # "idle", NEW q \in Queue,
         QInv([queues EXCEPT ![o] = Idle(q)], current, known, acc, rn, ev, cl),
         EndDrain(o, q)
  PROVE  QInv(queues', current', known, acc, rn, ev, cl) /\ current' \in {0} \cup Objects
<1> DEFINE qs == [queues EXCEPT ![o] = Idle(q)]
<1>1. CASE HasWork(q)
  <2>1. ScheduleFor(current, qs)
    BY <1>1 DEF EndDrain, Schedule
  <2> HIDE DEF qs
  <2>2. QInv(qs, current, known, acc, rn, ev, cl)
    BY DEF qs
  <2> QED
    BY <2>1, <2>2, ScheduleKeeps
<1>2. CASE ~HasWork(q)
  <2>1. queues' = qs /\ current' = 0 /\ q.items = <<>>
    BY <1>2 DEF EndDrain, HasWork
  <2>2. qs[o] = Idle(q) /\ qs[o].items = <<>> /\ qs[o].drain = "idle"
    BY <2>1, IdleIs
  <2>3. \A x \in Objects : x # o => qs[x] = queues[x]
    OBVIOUS
  <2>4. QInv(qs, current, known, acc, rn, ev, cl)
    OBVIOUS
  <2> HIDE DEF qs
  <2>5. cl = 0 => current = o
    BY NoStrays
  <2>6. StraysCost(qs, 0, cl)
    <3> DEFINE S == Strays(queues, current)
               T == Strays(qs, 0)
    <3>1. S \subseteq Objects /\ T \subseteq (S \cup {current}) \ {o} /\ T \subseteq Objects
      BY <2>2, <2>3 DEF Strays
    <3>2. IsFiniteSet(S) /\ Cardinality(S) \in Nat /\ Cardinality(S) <= cl
      BY <3>1, ObjectsAreFinite DEF StraysCost
    <3>3. o # current => o \in S
      BY DEF Strays
    <3> HIDE DEF S, T
    <3>4. CASE o = current
      <4>1. T \subseteq S
        BY <3>1, <3>4
      <4> QED
        BY <3>1, <3>2, <4>1, FewerStrays DEF T, StraysCost
    <3>5. CASE o # current
      <4> DEFINE R == S \ {o}
      <4>1. /\ IsFiniteSet(R) /\ Cardinality(R) = Cardinality(S) - 1
        BY <3>2, <3>3, <3>5, FS_RemoveElement
      <4> HIDE DEF R
      <4>2. /\ IsFiniteSet(R \cup {current})
            /\ Cardinality(R \cup {current}) =
                 IF current \in R THEN Cardinality(R) ELSE Cardinality(R) + 1
        BY <4>1, FS_AddElement
      <4>3. T \subseteq R \cup {current}
        BY <3>1 DEF R
      <4>4. Cardinality(T) <= Cardinality(R \cup {current}) /\ Cardinality(T) \in Nat
        BY <3>1, <4>2, <4>3, FS_Subset, ObjectsAreFinite
      <4>5. Cardinality(T) <= cl
        BY <3>2, <4>1, <4>2, <4>4
      <4> QED
        BY <4>5 DEF T, StraysCost
    <3> QED
      BY <3>4, <3>5
  <2> QED
    BY <2>1, <2>2, <2>4, <2>5, <2>6, DeleteKeeps
<1> QED
  BY <1>1, <1>2

-----------------------------------------------------------------------------
(* What a drain claims.                                                     *)

LEMMA RunItemIs ==
  ASSUME NEW q \in Queue, q.items # <<>>
  PROVE  LET p == RunItem(q)
         IN  /\ p \in Queue /\ p.items = q.items /\ p.dropped = q.dropped /\ p.drain = "running"
             /\ ClaimsPrefix(p) /\ p.turn.pops = Len(p.turn.msgs)
<1> DEFINE p == RunItem(q)
           m == Head(q.items)
<1>1. /\ q.items \in Seq(Messages) /\ Len(q.items) \in Nat \ {0} /\ m = q.items[1] /\ m \in Messages
  BY Fields, EmptySeq, HeadTailProperties
<1>2. <<m>> \in Seq(Messages) /\ Len(<<m>>) = 1 /\ <<m>>[1] = m /\ <<>> \in Seq(Messages)
  BY <1>1, EmptySeq
<1> HIDE DEF m
<1>3. [msgs |-> <<m>>, pops |-> 1, summary |-> FALSE, alone |-> TRUE] \in Turn
  BY <1>2 DEF Turn
<1>4. /\ p \in Queue /\ p.items = q.items /\ p.dropped = q.dropped /\ p.drain = "running"
      /\ p.turn = [msgs |-> <<m>>, pops |-> 1, summary |-> FALSE, alone |-> TRUE] /\ p.groups = <<>>
  BY <1>2, <1>3 DEF RunItem, Queue, m
<1> HIDE DEF p
<1>5. p.turn.msgs = <<m>> /\ p.turn.pops = 1
  BY <1>4
<1>6. Claimed(p) = <<m>>
  BY <1>2, <1>4, <1>5, ConcatEmptySeq DEF Claimed
<1>7. MembersOf(<<m>>) = {m}
  BY <1>2 DEF MembersOf
<1>8. ClaimsPrefix(p)
  BY <1>1, <1>2, <1>4, <1>5, <1>6, <1>7 DEF ClaimsPrefix
<1> QED
  BY <1>2, <1>4, <1>5, <1>8 DEF p

LEMMA RunSummaryIs ==
  ASSUME NEW q \in Queue, NEW n \in Nat
  PROVE  LET p == RunSummary(q, n)
         IN  /\ p \in Queue /\ p.items = q.items /\ p.dropped = q.dropped /\ p.drain = "running"
             /\ ClaimsPrefix(p)
<1> DEFINE p == RunSummary(q, n)
<1>1. [msgs |-> <<>>, pops |-> n, summary |-> TRUE, alone |-> n > 0] \in Turn
  BY EmptyMembers DEF Turn
<1>2. /\ p \in Queue /\ p.items = q.items /\ p.dropped = q.dropped /\ p.drain = "running"
      /\ p.turn = [msgs |-> <<>>, pops |-> n, summary |-> TRUE, alone |-> n > 0] /\ p.groups = <<>>
  BY <1>1, EmptyMembers DEF RunSummary, Queue
<1> HIDE DEF p
<1>3. p.turn.msgs = <<>> /\ p.turn.pops = n
  BY <1>2
<1>4. Claimed(p) = <<>>
  BY <1>2, <1>3, EmptyMembers DEF Claimed
<1>5. ClaimsPrefix(p)
  BY <1>3, <1>4, EmptyMembers DEF ClaimsPrefix
<1> QED
  BY <1>2, <1>5 DEF p

LEMMA RunGroupIs ==
  ASSUME NEW q \in Queue, NEW items \in Seq(Messages), items # <<>>, NEW summary \in BOOLEAN
  PROVE  LET p == RunGroup(q, items, summary)
         IN  /\ p \in Queue /\ p.items = q.items /\ p.dropped = q.dropped /\ p.drain = "running"
             /\ Claimed(p) = items /\ p.turn.pops = Len(p.turn.msgs)
             /\ \A m, n \in MembersOf(p.turn.msgs) : Auth[m] = Auth[n]
<1> DEFINE p == RunGroup(q, items, summary)
           group == FirstGroup(items)
<1>1. PICK e \in 1..Len(items) : /\ group = SubSeq(items, 1, e)
                                 /\ \A i \in 1..e : Auth[items[i]] = Auth[items[1]]
  BY FirstGroupIs
<1>2. /\ group \in Seq(Messages) /\ Len(group) = e /\ e \in Nat
      /\ \A i \in 1..e : group[i] = items[i]
      /\ group \o DropFirst(items, e) = items
  BY <1>1, SplitAt, LenProperties
<1>3. DropFirst(items, Len(group)) \in Seq(Messages)
  BY <1>2, DropFirstIs
<1> HIDE DEF group
<1>4. [msgs |-> group, pops |-> Len(group), summary |-> summary, alone |-> FALSE] \in Turn
  BY <1>2 DEF Turn
<1>5. /\ p \in Queue /\ p.items = q.items /\ p.dropped = q.dropped /\ p.drain = "running"
      /\ p.turn = [msgs |-> group, pops |-> Len(group), summary |-> summary, alone |-> FALSE]
      /\ p.groups = DropFirst(items, Len(group))
  BY <1>3, <1>4 DEF RunGroup, Queue, group
<1> HIDE DEF p
<1>6. p.turn.msgs = group /\ p.turn.pops = Len(group)
  BY <1>5
<1>7. Claimed(p) = items
  BY <1>2, <1>5, <1>6 DEF Claimed
<1>8. \A m, n \in MembersOf(group) : Auth[m] = Auth[n]
  BY <1>1, <1>2 DEF MembersOf
<1> QED
  BY <1>5, <1>6, <1>7, <1>8 DEF p

(* An answer leaves what is queued and claimed alone. *)
LEMMA AnsweringIs ==
  ASSUME NEW q \in Queue, NEW answer \in Answers
  PROVE  LET p == Answering(q, answer)
         IN  p \in Queue /\ SameWork(q, p) /\ p.drain = answer
BY DEF Answering, Queue, SameWork

(* What a drain claims, if it claims anything, is the front of the queue.   *)
LEMMA ClaimContinues ==
  ASSUME NEW q \in Queue, ObjectOK(q), NEW p \in Queue, p.items = q.items, p.dropped = q.dropped,
         ClaimsPrefix(p), ObjectWhole(q) => p.turn.pops = Len(p.turn.msgs)
  PROVE  Continues(q, p, <<>>)
<1>1. ObjectWhole(q) => p.dropped = {}
  BY DEF ObjectWhole
<1> QED
  BY <1>1, ReclaimContinues

LEMMA SummaryContinues ==
  ASSUME NEW q \in Queue, ObjectOK(q), PendingSummary(q), NEW n \in Nat
  PROVE  RunSummary(q, n) \in Queue /\ Continues(q, RunSummary(q, n), <<>>)
<1> DEFINE p == RunSummary(q, n)
<1>1. p \in Queue /\ p.items = q.items /\ p.dropped = q.dropped /\ ClaimsPrefix(p)
  BY RunSummaryIs
<1>2. ~ObjectWhole(q)
  BY DEF PendingSummary, ObjectWhole
<1> HIDE DEF p
<1> QED
  BY <1>1, <1>2, ClaimContinues DEF p

LEMMA NextStepContinues ==
  ASSUME NEW q \in Queue, ObjectOK(q)
  PROVE  NextStep(q) \in Queue /\ Continues(q, NextStep(q), <<>>)
<1> DEFINE p == NextStep(q)
           q2 == [q EXCEPT !.forceIndividual = @ \/ HasCrossChannelItems(q.items)]
<1>1. q2 \in Queue /\ q2.items = q.items /\ SameWork(q, q2)
  BY DEF Queue, SameWork
<1>2. \/ \E answer \in Answers : p = Answering(q, answer) \/ p = Answering(q2, answer)
      \/ q.items # <<>> /\ (p = RunItem(q) \/ p = RunItem(q2))
      \/ PendingSummary(q) /\ p = RunSummary(q, 1)
  <2>1. CASE q.mode = "collect"
    <3>1. p = CollectStep(q)
      BY <2>1 DEF NextStep
    <3>2. \/ p = Answering(q2, "skipped") \/ p = Answering(q2, "empty")
          \/ q.items # <<>> /\ p = RunItem(q2)
      BY <3>1, <1>1 DEF CollectStep
    <3> HIDE DEF p, q2
    <3> QED
      BY <3>2 DEF Answers
  <2>2. CASE q.mode # "collect"
    <3>1. p = FollowupStep(q)
      BY <2>2 DEF NextStep
    <3>2. \/ p = Answering(q, "none")
          \/ q.items # <<>> /\ p = RunItem(q)
          \/ PendingSummary(q) /\ p = RunSummary(q, 1)
      BY <3>1 DEF FollowupStep
    <3> HIDE DEF p, q2
    <3> QED
      BY <3>2 DEF Answers
  <2> QED
    BY <2>1, <2>2
<1> HIDE DEF p, q2
<1>3. ASSUME NEW answer \in Answers, NEW r \in Queue, SameWork(q, r), p = Answering(r, answer)
      PROVE  p \in Queue /\ Continues(q, p, <<>>)
  <2>1. p \in Queue /\ SameWork(r, p)
    BY <1>3, AnsweringIs
  <2>2. SameWork(q, p)
    BY <1>3, <2>1 DEF SameWork
  <2> QED
    BY <2>1, <2>2, SameContinues
<1>4. ASSUME NEW r \in Queue, SameWork(q, r), q.items # <<>>, p = RunItem(r)
      PROVE  p \in Queue /\ Continues(q, p, <<>>)
  <2>1. r.items = q.items /\ r.dropped = q.dropped
    BY <1>4 DEF SameWork
  <2>2. /\ p \in Queue /\ p.items = r.items /\ p.dropped = r.dropped
        /\ ClaimsPrefix(p) /\ p.turn.pops = Len(p.turn.msgs)
    BY <1>4, <2>1, RunItemIs
  <2> QED
    BY <2>1, <2>2, ClaimContinues
<1>5. SameWork(q, q)
  BY DEF SameWork
<1>6. p \in Queue /\ Continues(q, p, <<>>)
  BY <1>1, <1>2, <1>3, <1>4, <1>5, SummaryContinues
<1> QED
  BY <1>6 DEF p

(* The batch is all that is queued. *)
LEMMA BatchContinues ==
  ASSUME NEW q \in Queue, ObjectOK(q), q.items # <<>>
  PROVE  LET p == RunGroup(q, q.items, PendingSummary(q))
         IN  p \in Queue /\ Continues(q, p, <<>>)
<1> DEFINE p == RunGroup(q, q.items, PendingSummary(q))
<1>1. PendingSummary(q) \in BOOLEAN /\ q.items \in Seq(Messages)
  BY Fields DEF PendingSummary
<1>2. /\ p \in Queue /\ p.items = q.items /\ p.dropped = q.dropped
      /\ Claimed(p) = q.items /\ p.turn.pops = Len(p.turn.msgs)
      /\ \A m, n \in MembersOf(p.turn.msgs) : Auth[m] = Auth[n]
  BY <1>1, RunGroupIs
<1> HIDE DEF p
<1>3. Len(q.items) \in Nat /\ Len(p.turn.msgs) \in Nat
  BY <1>2, Fields
<1>4. ClaimsPrefix(p)
  BY <1>2, <1>3 DEF ClaimsPrefix
<1>5. Continues(q, p, <<>>)
  BY <1>2, <1>4, ClaimContinues
<1> QED
  BY <1>2, <1>5 DEF p

LEMMA SummaryToldIs ==
  ASSUME NEW q \in Queue
  PROVE  LET p == SummaryTold(q)
         IN  /\ p \in Queue /\ p.items = q.items /\ p.turn = q.turn /\ p.groups = q.groups
             /\ p.dropped \in {{}, q.dropped} /\ p.drain = q.drain /\ p.late = q.late
BY DEF SummaryTold, Queue

LEMMA UsedUpIs ==
  ASSUME NEW q \in Queue
  PROVE  LET p == UsedUp(q)
         IN  /\ p \in Queue /\ p.items = DropFirst(q.items, q.turn.pops) /\ p.turn = q.turn
             /\ p.groups = q.groups /\ p.drain = q.drain /\ p.dropped = q.dropped /\ p.late = q.late
<1>1. DropFirst(q.items, q.turn.pops) \in Seq(Messages)
  BY Fields, DropFirstIs
<1> QED
  BY <1>1 DEF UsedUp, Queue

LEMMA DrainedIs ==
  ASSUME NEW q \in Queue
  PROVE  LET p == Drained(q)
         IN  /\ p \in Queue /\ p.items = q.items /\ p.groups = q.groups /\ p.dropped = q.dropped
             /\ p.turn.msgs = <<>> /\ p.turn.pops = 0 /\ p.drain = "drained" /\ p.late = q.late
<1>1. q.turn.summary \in BOOLEAN
  BY DEF Queue, Turn
<1>2. /\ [NoTurn EXCEPT !.summary = q.turn.summary] \in Turn
      /\ [NoTurn EXCEPT !.summary = q.turn.summary].msgs = <<>>
      /\ [NoTurn EXCEPT !.summary = q.turn.summary].pops = 0
  BY <1>1, EmptyMembers DEF NoTurn, Turn
<1> QED
  BY <1>2 DEF Drained, Queue, Answers

(* The groups that are left, if any, are what is claimed next.              *)
LEMMA NextGroupContinues ==
  ASSUME NEW q \in Queue, ObjectOK(q), q.groups # <<>>
  PROVE  LET p == RunGroup(SummaryTold(UsedUp(q)), UsedUp(q).groups, FALSE)
         IN  p \in Queue /\ Continues(q, p, q.turn.msgs)
<1> DEFINE u == UsedUp(q)
           v == SummaryTold(u)
           p == RunGroup(v, u.groups, FALSE)
<1>1. /\ u \in Queue /\ u.items = DropFirst(q.items, q.turn.pops) /\ u.groups = q.groups
      /\ u.dropped = q.dropped
  BY UsedUpIs
<1> HIDE DEF u
<1>2. /\ v \in Queue /\ v.items = u.items /\ v.dropped \in {{}, u.dropped}
      /\ u.groups \in Seq(Messages) /\ u.groups # <<>>
  BY <1>1, SummaryToldIs, Fields
<1> HIDE DEF v
<1>3. /\ p \in Queue /\ p.items = v.items /\ p.dropped = v.dropped
      /\ Claimed(p) = u.groups /\ p.turn.pops = Len(p.turn.msgs)
      /\ \A m, n \in MembersOf(p.turn.msgs) : Auth[m] = Auth[n]
  BY <1>2, RunGroupIs
<1> HIDE DEF p
<1>4. AfterTurn(q, p)
  <2>1. Len(p.turn.msgs) \in Nat
    BY <1>3, Fields
  <2> QED
    BY <1>1, <1>2, <1>3, <2>1 DEF AfterTurn
<1>5. ObjectWhole(q) => p.dropped = {}
  BY <1>1, <1>2, <1>3 DEF ObjectWhole
<1>6. Continues(q, p, q.turn.msgs)
  BY <1>3, <1>4, <1>5, TurnContinues
<1> QED
  BY <1>3, <1>6 DEF p, u, v

(* Or the drain goes on without a turn. *)
LEMMA LastGroupContinues ==
  ASSUME NEW q \in Queue, ObjectOK(q),
         NEW p \in Queue, p.items = DropFirst(q.items, q.turn.pops), p.dropped \in {{}, q.dropped},
         p.turn.msgs = <<>>, p.turn.pops = 0, p.groups = q.groups
  PROVE  Continues(q, p, q.turn.msgs)
<1>1. Claimed(p) = q.groups /\ Len(p.turn.msgs) = 0 /\ MembersOf(p.turn.msgs) = {}
  <2>1. <<>> \o q.groups = q.groups
    BY Fields, ConcatEmptySeq
  <2> QED
    BY <2>1, EmptyMembers DEF Claimed
<1>2. AfterTurn(q, p)
  BY <1>1 DEF AfterTurn
<1>3. ObjectWhole(q) => p.dropped = {}
  BY DEF ObjectWhole
<1> QED
  BY <1>1, <1>2, <1>3, TurnContinues

-----------------------------------------------------------------------------
(* Enqueueing.                                                              *)

LEMMA NewQueueIs == NewQueue \in Queue
BY NoTurnIsOK, CapAssumption DEF NewQueue, Queue, Modes, DropPolicies

LEMMA ApplySettingsIs ==
  ASSUME NEW q \in Queue, NEW s \in Settings
  PROVE  ApplySettings(q, s) \in Queue /\ SameWork(q, ApplySettings(q, s))
<1>1. /\ s.mode \in Modes /\ s.dropPolicy \in DropPolicies /\ s.cap \in Nat
  BY SettingsAssumption
<1>2. EffectiveCap(q, s) \in Nat \ {0}
  BY <1>1, Fields DEF EffectiveCap
<1> QED
  BY <1>1, <1>2 DEF ApplySettings, Queue, SameWork

LEMMA PushIs ==
  ASSUME NEW q \in Queue, NEW m \in Messages
  PROVE  LET p == Push(MakeRoom(q), m)
         IN  /\ p \in Queue /\ Overflow(q) \in Nat /\ Grows(q, p, Overflow(q), m)
             /\ Overflowing(q) \in SUBSET Messages
             /\ Overflowing(q) = {} => Overflow(q) = 0 /\ p.dropped = q.dropped
<1> DEFINE k == Overflow(q)
           p == Push(MakeRoom(q), m)
<1>1. q.items \in Seq(Messages) /\ Len(q.items) \in Nat /\ q.cap \in Nat \ {0}
  BY Fields
<1>2. k = 0 \/ k \in 1..Len(q.items)
  BY <1>1 DEF Overflow, Full
<1>3. ASSUME k = 0
      PROVE  Overflowing(q) \in SUBSET Messages
  <2>1. SubSeq(q.items, 1, 0) = <<>>
    BY <1>1, SubSeqEmpty
  <2>2. Overflowing(q) = {}
    BY <1>3, <2>1, EmptyMembers DEF Overflowing
  <2> QED
    BY <2>2
<1>4. ASSUME k \in 1..Len(q.items)
      PROVE  Overflowing(q) # {} /\ Overflowing(q) \in SUBSET Messages
  <2> DEFINE g == SubSeq(q.items, 1, k)
  <2>1. g \in Seq(Messages) /\ Len(g) = k
    BY <1>1, <1>4, SplitAt
  <2> HIDE DEF g
  <2>2. \A i \in 1..Len(g) : g[i] \in Messages
    BY <2>1, ElementOfSeq
  <2>3. 1 \in 1..Len(g)
    BY <1>1, <1>4, <2>1
  <2>4. Overflowing(q) = MembersOf(g)
    BY DEF Overflowing, g
  <2> QED
    BY <2>2, <2>3, <2>4 DEF MembersOf
<1>5. k \in Nat /\ Overflowing(q) \in SUBSET Messages /\ (Overflowing(q) = {} => k = 0)
  BY <1>1, <1>2, <1>3, <1>4
<1>6. DropFirst(q.items, k) \in Seq(Messages)
  BY <1>1, <1>5, DropFirstIs
<1>7. Append(DropFirst(q.items, k), m) \in Seq(Messages)
  BY <1>6, AppendProperties
<1>8. /\ p \in Queue /\ p.items = Append(DropFirst(q.items, k), m)
      /\ p.turn = q.turn /\ p.groups = q.groups
      /\ p.dropped = IF q.dropPolicy = "summarize" THEN q.dropped \cup Overflowing(q) ELSE q.dropped
  <2> DEFINE r == MakeRoom(q)
  <2> HIDE DEF k
  <2>1. /\ r \in Queue /\ r.items = DropFirst(q.items, k) /\ r.turn = q.turn /\ r.groups = q.groups
        /\ r.dropped = IF q.dropPolicy = "summarize" THEN q.dropped \cup Overflowing(q) ELSE q.dropped
    BY <1>5, <1>6 DEF MakeRoom, Queue, k
  <2> HIDE DEF r
  <2>2. Append(r.items, m) \in Seq(Messages)
    BY <1>7, <2>1
  <2>3. /\ Push(r, m) \in Queue /\ Push(r, m).items = Append(r.items, m) /\ Push(r, m).turn = r.turn
        /\ Push(r, m).groups = r.groups /\ Push(r, m).dropped = r.dropped
    BY <2>1, <2>2 DEF Push, Queue
  <2> QED
    BY <2>1, <2>3 DEF r
<1> HIDE DEF k, p
<1>9. Grows(q, p, k, m) /\ (Overflowing(q) = {} => p.dropped = q.dropped)
  BY <1>8 DEF Grows
<1> QED
  BY <1>5, <1>8, <1>9 DEF k, p

(* There is an object for a key that has none.                              *)
LEMMA FreeObjectIs ==
  ASSUME StraysCost(queues, 0, clears), clears \in 0..MaxClears
  PROVE  FreeObject \in Objects
<1>1. \E o \in Objects : queues[o].drain = "idle"
  <2> SUFFICES ASSUME \A o \in Objects : queues[o].drain # "idle" PROVE FALSE
    OBVIOUS
  <2>1. Strays(queues, 0) = Objects
    BY DEF Strays, Objects
  <2> QED
    BY <2>1, ObjectsAreFinite, ClearsAssumption DEF StraysCost
<1> QED
  BY <1>1 DEF FreeObject

(* What an enqueue leaves, and perhaps schedules. *)
LEMMA StoreKeeps ==
  ASSUME NEW qs, NEW o \in Objects, NEW known, NEW acc \in Seq(Messages),
         NEW rn \in Seq(Messages), NEW ev, NEW cl \in Nat,
         QInv(qs, o, known, acc, rn, ev, cl), NEW isActive \in BOOLEAN,
         IF isActive THEN queues' = qs /\ current' = o ELSE ScheduleFor(o, qs)
  PROVE  QInv(queues', current', known, acc, rn, ev, cl) /\ current' \in {0} \cup Objects
<1>1. CASE isActive
  BY <1>1
<1>2. CASE ~isActive
  BY <1>2, ScheduleKeeps
<1> QED
  BY <1>1, <1>2

LEMMA EnqueueKeeps ==
  ASSUME IInv, NEW m \in Messages, NEW s \in Settings, NEW isActive \in BOOLEAN,
         Enqueue(m, s, isActive)
  PROVE  IInv'
<1> DEFINE o == IF current = 0 THEN FreeObject ELSE current
           q == ApplySettings(IF current = 0 THEN NewQueue ELSE queues[o], s)
           qs == [queues EXCEPT ![o] = q]
           Stored(p) == IF isActive THEN queues' = [queues EXCEPT ![o] = p] /\ current' = o
                                    ELSE ScheduleFor(o, [queues EXCEPT ![o] = p])
           refusing == [q EXCEPT !.lastRun = TRUE]
           pushed == Push(MakeRoom(q), m)
<1>1. /\ queues \in [Objects -> Queue] /\ current \in {0} \cup Objects /\ recent \in SUBSET Messages
      /\ run \in {"none", "active", "finalizing"} /\ clears \in 0..MaxClears /\ clears \in Nat
      /\ accepted \in Seq(Messages) /\ ran \in Seq(Messages)
      /\ evicted \in SUBSET Messages /\ cleared \in SUBSET Messages
      /\ QInv(queues, current, recent, accepted, ran, evicted, clears)
  BY ClearsAssumption DEF IInv, TypeOK
<1>2. /\ \/ Stored(q) /\ UNCHANGED <<recent, accepted, evicted>>
         \/ Stored(refusing) /\ UNCHANGED <<recent, accepted, evicted>>
         \/ /\ Stored(pushed) /\ m \notin recent /\ recent' = recent \cup {m}
            /\ accepted' = Append(accepted, m) /\ evicted' = evicted \cup Overflowing(q)
      /\ UNCHANGED <<ran, cleared, run, clears>>
  BY DEF Enqueue, history
<1>3. o \in Objects
  <2>1. CASE current = 0
    BY <1>1, <2>1, FreeObjectIs DEF QInv
  <2>2. CASE current # 0
    BY <1>1, <2>2
  <2> QED
    BY <2>1, <2>2
<1>4. q \in Queue /\ QInv(qs, o, recent, accepted, ran, evicted, clears)
  <2>1. CASE current = 0
    <3>1. q = ApplySettings(NewQueue, s)
      BY <2>1
    <3>2. q \in Queue /\ SameWork(NewQueue, q)
      BY <3>1, NewQueueIs, ApplySettingsIs
    <3> HIDE DEF q, o
    <3>3. QInv(queues, 0, recent, accepted, ran, evicted, clears)
      BY <1>1, <2>1
    <3>4. QInv(qs, o, recent, accepted, ran, evicted, clears)
      BY <1>1, <1>3, <3>2, <3>3, CreateKeeps
    <3> QED
      BY <3>2, <3>4
  <2>2. CASE current # 0
    <3>1. q = ApplySettings(queues[o], s) /\ o = current /\ queues[o] \in Queue
      BY <1>1, <1>3, <2>2
    <3>2. q \in Queue /\ SameWork(queues[o], q)
      BY <3>1, ApplySettingsIs
    <3> HIDE DEF q
    <3>3. Continues(queues[o], q, <<>>)
      BY <1>1, <1>3, <3>1, <3>2, SameContinues DEF QInv, Apart
    <3>4. <<>> \in Seq(Messages) /\ ran \o <<>> = ran
      BY <1>1, EmptyMembers, ConcatEmptySeq
    <3> HIDE DEF o
    <3>5. QInv(qs, current, recent, accepted, ran \o <<>>, evicted, clears)
      BY <1>1, <1>3, <3>1, <3>2, <3>3, <3>4, ContinueKeeps
    <3> QED
      BY <3>1, <3>2, <3>4, <3>5
  <2> QED
    BY <2>1, <2>2
<1> HIDE DEF o, q
<1>5. \A p : [qs EXCEPT ![o] = p] = [queues EXCEPT ![o] = p]
  BY <1>1
<1>6. qs[o] = q
  BY <1>1, <1>3
<1> HIDE DEF qs
<1> DEFINE Rest == /\ QInv(queues', current', recent', accepted', ran', evicted', clears')
                   /\ current' \in {0} \cup Objects /\ recent' \in SUBSET Messages
                   /\ accepted' \in Seq(Messages) /\ evicted' \in SUBSET Messages
<1>7. ASSUME Stored(q), UNCHANGED <<recent, accepted, evicted>>
      PROVE  Rest
  <2>1. QInv(queues', current', recent, accepted, ran, evicted, clears)
          /\ current' \in {0} \cup Objects
    BY <1>1, <1>3, <1>4, <1>7, StoreKeeps DEF qs
  <2> QED
    BY <1>1, <1>2, <1>7, <2>1
<1>8. ASSUME Stored(refusing), UNCHANGED <<recent, accepted, evicted>>
      PROVE  Rest
  <2>1. refusing \in Queue /\ SameWork(q, refusing)
    BY <1>4 DEF Queue, SameWork
  <2> HIDE DEF refusing
  <2>2. Continues(qs[o], refusing, <<>>)
    BY <1>3, <1>4, <1>6, <2>1, SameContinues DEF QInv, Apart
  <2>3. <<>> \in Seq(Messages) /\ ran \o <<>> = ran
    BY <1>1, EmptyMembers, ConcatEmptySeq
  <2>4. QInv([qs EXCEPT ![o] = refusing], o, recent, accepted, ran \o <<>>, evicted, clears)
    BY <1>1, <1>3, <1>4, <2>1, <2>2, <2>3, ContinueKeeps
  <2>5. QInv([queues EXCEPT ![o] = refusing], o, recent, accepted, ran, evicted, clears)
    BY <1>5, <2>3, <2>4
  <2>6. QInv(queues', current', recent, accepted, ran, evicted, clears)
          /\ current' \in {0} \cup Objects
    BY <1>1, <1>3, <1>8, <2>5, StoreKeeps
  <2> QED
    BY <1>1, <1>2, <1>8, <2>6
<1>9. ASSUME Stored(pushed), m \notin recent, recent' = recent \cup {m},
             accepted' = Append(accepted, m), evicted' = evicted \cup Overflowing(q)
      PROVE  Rest
  <2> DEFINE n == Overflow(q)
  <2>1. /\ pushed \in Queue /\ n \in Nat /\ Grows(q, pushed, n, m)
        /\ Overflowing(q) \in SUBSET Messages
        /\ Overflowing(q) = {} => n = 0 /\ pushed.dropped = q.dropped
    BY <1>4, PushIs
  <2> HIDE DEF n, pushed
  <2>2. evicted' = {} => evicted = {} /\ n = 0 /\ pushed.dropped = qs[o].dropped
    BY <1>6, <1>9, <2>1
  <2>3. Grows(qs[o], pushed, n, m)
    BY <1>6, <2>1
  <2>4. QInv([qs EXCEPT ![o] = pushed], o, recent \cup {m}, Append(accepted, m), ran, evicted', clears)
    BY <1>1, <1>3, <1>4, <1>9, <2>1, <2>2, <2>3, GrowKeeps
  <2>5. QInv([queues EXCEPT ![o] = pushed], o, recent', accepted', ran, evicted', clears)
    BY <1>5, <1>9, <2>4
  <2>6. accepted' \in Seq(Messages)
    BY <1>1, <1>9, AppendProperties
  <2>7. QInv(queues', current', recent', accepted', ran, evicted', clears)
          /\ current' \in {0} \cup Objects
    BY <1>1, <1>3, <1>9, <2>5, <2>6, StoreKeeps
  <2> QED
    BY <1>1, <1>2, <1>9, <2>1, <2>6, <2>7
<1>10. Rest
  BY <1>2, <1>7, <1>8, <1>9
<1>11. queues' \in [Objects -> Queue]
  BY <1>10 DEF QInv
<1> QED
  BY <1>1, <1>2, <1>10, <1>11 DEF IInv, TypeOK

-----------------------------------------------------------------------------
(* The other actions.                                                       *)

(* A step of a drain of o, that leaves its queue as u and goes on or ends,  *)
(* and has run G.                                                           *)
LEMMA DrainKeeps ==
  ASSUME IInv, NEW o \in Objects, queues[o].drain # "idle", NEW u \in Queue,
         NEW G \in Seq(Messages), ran' = ran \o G,
         \/ /\ Continues(queues[o], u, G)
            /\ queues' = [queues EXCEPT ![o] = u] /\ current' = current
         \/ Continues(queues[o], Idle(u), G) /\ EndDrain(o, u),
         UNCHANGED <<recent, run, clears, accepted, evicted, cleared>>
  PROVE  IInv'
<1>1. /\ queues \in [Objects -> Queue] /\ current \in {0} \cup Objects /\ clears \in Nat
      /\ accepted \in Seq(Messages) /\ ran \in Seq(Messages)
      /\ QInv(queues, current, recent, accepted, ran, evicted, clears)
  BY ClearsAssumption DEF IInv, TypeOK
<1>2. ran \o G \in Seq(Messages)
  BY <1>1, ConcatProperties
<1>3. ASSUME NEW p \in Queue, Continues(queues[o], p, G)
      PROVE  QInv([queues EXCEPT ![o] = p], current, recent, accepted, ran \o G, evicted, clears)
  BY <1>1, <1>3, ContinueKeeps
<1>4. CASE /\ Continues(queues[o], u, G)
           /\ queues' = [queues EXCEPT ![o] = u] /\ current' = current
  <2>1. QInv(queues', current', recent, accepted, ran \o G, evicted, clears)
    BY <1>3, <1>4
  <2> QED
    BY <1>1, <1>2, <1>4, <2>1 DEF IInv, TypeOK, QInv
<1>5. CASE Continues(queues[o], Idle(u), G) /\ EndDrain(o, u)
  <2>1. Idle(u) \in Queue
    BY IdleIs
  <2>2. QInv([queues EXCEPT ![o] = Idle(u)], current, recent, accepted, ran \o G, evicted, clears)
    BY <1>3, <1>5, <2>1
  <2>3. StraysCost(queues, current, clears)
    BY <1>1 DEF QInv
  <2>4. /\ QInv(queues', current', recent, accepted, ran \o G, evicted, clears)
        /\ current' \in {0} \cup Objects
    BY <1>1, <1>2, <1>5, <2>2, <2>3, EndDrainKeeps
  <2> QED
    BY <1>1, <1>2, <2>4 DEF IInv, TypeOK, QInv
<1> QED
  BY <1>4, <1>5

LEMMA ObjectIs ==
  ASSUME IInv, NEW o \in Objects
  PROVE  /\ queues[o] \in Queue /\ ObjectOK(queues[o])
         /\ <<>> \in Seq(Messages) /\ ran \o <<>> = ran
<1>1. queues \in [Objects -> Queue] /\ Apart(queues, recent, accepted, ran) /\ ran \in Seq(Messages)
  BY DEF IInv, QInv, TypeOK
<1> QED
  BY <1>1, EmptyMembers, ConcatEmptySeq DEF Apart

(* A drain that ends without a run gives up its claim. *)
LEMMA EndKeeps ==
  ASSUME IInv, NEW o \in Objects, queues[o].drain # "idle",
         NEW u \in Queue, u.items = queues[o].items, u.dropped \in {{}, queues[o].dropped},
         \/ EndDrain(o, u)
         \/ queues' = [queues EXCEPT ![o] = Debouncing(u)] /\ current' = current,
         UNCHANGED <<recent, run, clears, accepted, ran, evicted, cleared>>
  PROVE  IInv'
<1>1. /\ queues[o] \in Queue /\ ObjectOK(queues[o]) /\ <<>> \in Seq(Messages) /\ ran' = ran \o <<>>
  BY ObjectIs
<1>2. Continues(queues[o], Idle(u), <<>>)
  BY <1>1, IdleIs, UnclaimedContinues
<1>3. Debouncing(u) \in Queue /\ Continues(queues[o], Debouncing(u), <<>>)
  BY <1>1, DebouncingIs, UnclaimedContinues
<1> QED
  BY <1>1, <1>2, <1>3, DrainKeeps

LEMMA DebounceOverKeeps ==
  ASSUME IInv, NEW o \in Objects, DebounceOver(o)
  PROVE  IInv'
<1> DEFINE q == queues[o]
<1>1. q \in Queue /\ ObjectOK(q) /\ <<>> \in Seq(Messages) /\ ran \o <<>> = ran
  BY ObjectIs
<1>2. /\ q.drain # "idle"
      /\ EndDrain(o, q) \/ (queues' = [queues EXCEPT ![o] = NextStep(q)] /\ current' = current)
      /\ UNCHANGED <<recent, run, clears, accepted, ran, evicted, cleared>>
  BY DEF DebounceOver, history
<1>3. CASE EndDrain(o, q)
  BY <1>1, <1>2, <1>3, EndKeeps
<1>4. CASE queues' = [queues EXCEPT ![o] = NextStep(q)] /\ current' = current
  <2>1. NextStep(q) \in Queue /\ Continues(q, NextStep(q), <<>>)
    BY <1>1, NextStepContinues
  <2> QED
    BY <1>1, <1>2, <1>4, <2>1, DrainKeeps
<1> QED
  BY <1>2, <1>3, <1>4

LEMMA CollectKeeps ==
  ASSUME IInv, NEW o \in Objects, CollectBatch(o) \/ CollectSummary(o)
  PROVE  IInv'
<1> DEFINE q == queues[o]
<1>1. q \in Queue /\ ObjectOK(q) /\ <<>> \in Seq(Messages) /\ ran \o <<>> = ran
  BY ObjectIs
<1>2. /\ q.drain # "idle"
      /\ \/ /\ q.items # <<>> /\ current' = current
            /\ queues' = [queues EXCEPT ![o] = RunGroup(q, q.items, PendingSummary(q))]
         \/ /\ PendingSummary(q) /\ current' = current
            /\ queues' = [queues EXCEPT ![o] = RunSummary(q, 0)]
         \/ EndDrain(o, q)
      /\ UNCHANGED <<recent, run, clears, accepted, ran, evicted, cleared>>
  BY DEF CollectBatch, CollectSummary, history
<1>3. CASE EndDrain(o, q)
  BY <1>1, <1>2, <1>3, EndKeeps
<1>4. CASE /\ q.items # <<>> /\ current' = current
           /\ queues' = [queues EXCEPT ![o] = RunGroup(q, q.items, PendingSummary(q))]
  <2> DEFINE p == RunGroup(q, q.items, PendingSummary(q))
  <2>1. p \in Queue /\ Continues(q, p, <<>>)
    BY <1>1, <1>4, BatchContinues
  <2> HIDE DEF p
  <2>2. queues' = [queues EXCEPT ![o] = p]
    BY <1>4 DEF p
  <2> QED
    BY <1>1, <1>2, <1>4, <2>1, <2>2, DrainKeeps
<1>5. CASE /\ PendingSummary(q) /\ current' = current
           /\ queues' = [queues EXCEPT ![o] = RunSummary(q, 0)]
  <2>1. RunSummary(q, 0) \in Queue /\ Continues(q, RunSummary(q, 0), <<>>)
    BY <1>1, <1>5, SummaryContinues
  <2> QED
    BY <1>1, <1>2, <1>5, <2>1, DrainKeeps
<1> QED
  BY <1>2, <1>3, <1>4, <1>5

LEMMA AnswerKeeps ==
  ASSUME IInv, NEW o \in Objects, NothingDrained(o) \/ ItemDrained(o)
  PROVE  IInv'
<1> DEFINE q == queues[o]
           u == SummaryTold(q)
<1>1. q \in Queue
  BY ObjectIs
<1>2. u \in Queue /\ u.items = q.items /\ u.dropped \in {{}, q.dropped}
  BY <1>1, SummaryToldIs
<1>3. /\ q.drain # "idle"
      /\ UNCHANGED <<recent, run, clears, accepted, ran, evicted, cleared>>
      /\ \/ EndDrain(o, q)
         \/ EndDrain(o, u)
         \/ queues' = [queues EXCEPT ![o] = Debouncing(u)] /\ current' = current
  BY DEF NothingDrained, ItemDrained, GoRound, history
<1> HIDE DEF u
<1> QED
  BY <1>1, <1>2, <1>3, EndKeeps

LEMMA TurnSucceedsKeeps ==
  ASSUME IInv, NEW o \in Objects, TurnSucceeds(o)
  PROVE  IInv'
<1> DEFINE q == queues[o]
           u == UsedUp(q)
           v == SummaryTold(u)
           G == q.turn.msgs
<1>1. q \in Queue /\ ObjectOK(q) /\ G \in Seq(Messages)
  BY ObjectIs, Fields
<1>2. /\ u \in Queue /\ u.items = DropFirst(q.items, q.turn.pops) /\ u.turn = q.turn
      /\ u.groups = q.groups /\ u.drain = q.drain /\ u.dropped = q.dropped
  BY <1>1, UsedUpIs
<1>3. /\ v \in Queue /\ v.items = u.items /\ v.groups = u.groups /\ v.dropped \in {{}, u.dropped}
  BY <1>2, SummaryToldIs
<1>4. /\ q.drain # "idle" /\ ran' = ran \o G
      /\ UNCHANGED <<recent, run, clears, accepted, evicted, cleared>>
      /\ \/ queues' = [queues EXCEPT ![o] = Drained(u)] /\ current' = current
         \/ /\ u.groups # <<>> /\ current' = current
            /\ queues' = [queues EXCEPT ![o] = RunGroup(v, u.groups, FALSE)]
         \/ /\ u.groups = <<>> /\ current' = current
            /\ queues' = [queues EXCEPT ![o] = Debouncing(v)]
         \/ u.groups = <<>> /\ EndDrain(o, v)
  <2>1. u.drain = "running" /\ ran' = ran \o u.turn.msgs
    BY DEF TurnSucceeds
  <2>2. /\ UNCHANGED <<recent, run, clears, accepted, evicted, cleared>>
        /\ \/ queues' = [queues EXCEPT ![o] = Drained(u)] /\ current' = current
           \/ /\ u.groups # <<>> /\ current' = current
              /\ queues' = [queues EXCEPT ![o] = RunGroup(v, u.groups, FALSE)]
           \/ u.groups = <<>> /\ GoRound(o, v)
    BY DEF TurnSucceeds
  <2> HIDE DEF u, v
  <2> QED
    BY <1>2, <2>1, <2>2 DEF GoRound
<1> HIDE DEF v
<1>5. CASE queues' = [queues EXCEPT ![o] = Drained(u)] /\ current' = current
  <2> DEFINE p == Drained(u)
  <2>1. /\ p \in Queue /\ p.items = u.items /\ p.groups = u.groups /\ p.dropped = u.dropped
        /\ p.turn.msgs = <<>> /\ p.turn.pops = 0
    BY <1>2, DrainedIs
  <2> HIDE DEF p
  <2>2. Continues(q, p, G)
    BY <1>1, <1>2, <2>1, LastGroupContinues
  <2>3. queues' = [queues EXCEPT ![o] = p]
    BY <1>5 DEF p
  <2> QED
    BY <1>1, <1>4, <1>5, <2>1, <2>2, <2>3, DrainKeeps
<1>6. CASE /\ u.groups # <<>> /\ current' = current
           /\ queues' = [queues EXCEPT ![o] = RunGroup(v, u.groups, FALSE)]
  <2> DEFINE p == RunGroup(v, u.groups, FALSE)
  <2>1. p \in Queue /\ Continues(q, p, G)
    BY <1>1, <1>2, <1>6, NextGroupContinues DEF v
  <2> HIDE DEF p
  <2>2. queues' = [queues EXCEPT ![o] = p]
    BY <1>6 DEF p
  <2> QED
    BY <1>1, <1>4, <1>6, <2>1, <2>2, DrainKeeps
<1>7. ASSUME u.groups = <<>>, NEW p \in Queue, p.items = v.items, p.dropped = v.dropped,
             p.turn = NoTurn, p.groups = <<>>
      PROVE  Continues(q, p, G)
  <2>1. p.turn.msgs = <<>> /\ p.turn.pops = 0
    BY <1>7 DEF NoTurn
  <2>2. p.items = DropFirst(q.items, q.turn.pops) /\ p.dropped \in {{}, q.dropped} /\ p.groups = q.groups
    BY <1>2, <1>3, <1>7
  <2> QED
    BY <1>1, <2>1, <2>2, LastGroupContinues
<1>8. CASE /\ u.groups = <<>> /\ current' = current
           /\ queues' = [queues EXCEPT ![o] = Debouncing(v)]
  <2>1. Debouncing(v) \in Queue /\ Continues(q, Debouncing(v), G)
    BY <1>3, <1>7, <1>8, DebouncingIs
  <2> QED
    BY <1>1, <1>4, <1>8, <2>1, DrainKeeps
<1>9. CASE u.groups = <<>> /\ EndDrain(o, v)
  <2>1. Continues(q, Idle(v), G)
    BY <1>3, <1>7, <1>9, IdleIs
  <2> QED
    BY <1>1, <1>3, <1>4, <1>9, <2>1, DrainKeeps
<1> QED
  BY <1>4, <1>5, <1>6, <1>8, <1>9

LEMMA TurnFailsKeeps ==
  ASSUME IInv, NEW o \in Objects, TurnFails(o)
  PROVE  IInv'
<1>1. queues[o] \in Queue
  BY ObjectIs
<1>2. /\ queues[o].drain # "idle" /\ EndDrain(o, queues[o])
      /\ UNCHANGED <<recent, run, clears, accepted, ran, evicted, cleared>>
  BY DEF TurnFails, history
<1> QED
  BY <1>1, <1>2, EndKeeps

LEMMA FinalizeKeeps ==
  ASSUME IInv, FinalizeWithFollowup
  PROVE  IInv'
<1>1. /\ queues \in [Objects -> Queue] /\ current \in {0} \cup Objects /\ clears \in Nat
      /\ accepted \in Seq(Messages) /\ ran \in Seq(Messages)
      /\ QInv(queues, current, recent, accepted, ran, evicted, clears)
  BY ClearsAssumption DEF IInv, TypeOK
<1>2. /\ run' = "none" /\ ScheduleFor(current, queues)
      /\ UNCHANGED <<recent, clears, accepted, ran, evicted, cleared>>
  BY DEF FinalizeWithFollowup, Schedule, history
<1>3. /\ QInv(queues', current', recent, accepted, ran, evicted, clears)
      /\ current' \in {0} \cup Objects
  BY <1>1, <1>2, ScheduleKeeps
<1> QED
  BY <1>1, <1>2, <1>3 DEF IInv, TypeOK, QInv

LEMMA ClearSessionQueuesKeeps ==
  ASSUME IInv, ClearSessionQueues
  PROVE  IInv'
<1> DEFINE q == queues[current]
           p == [q EXCEPT !.items = <<>>, !.dropped = {}, !.lastRun = FALSE]
<1>1. /\ queues \in [Objects -> Queue] /\ current \in Objects /\ clears \in Nat
      /\ accepted \in Seq(Messages) /\ ran \in Seq(Messages)
      /\ QInv(queues, current, recent, accepted, ran, evicted, clears)
      /\ clears + 1 \in 0..MaxClears
  BY ClearsAssumption DEF IInv, TypeOK, ClearSessionQueues
<1>2. /\ queues' = [queues EXCEPT ![current] = p] /\ current' = 0 /\ clears' = clears + 1
      /\ cleared' = cleared \cup MembersOf(q.items) \cup q.dropped
      /\ UNCHANGED <<recent, run, accepted, ran, evicted>>
  BY <1>1 DEF ClearSessionQueues
<1>3. q \in Queue
  BY <1>1
<1>4. p \in Queue /\ p.items = <<>> /\ p.turn = q.turn /\ p.groups = q.groups
  BY <1>3, EmptyMembers DEF Queue
<1> HIDE DEF p
<1>5. QInv(queues', 0, recent, accepted, ran, evicted, clears + 1)
  BY <1>1, <1>2, <1>4, ClearKeeps
<1>6. cleared' \in SUBSET Messages
  <2>1. /\ q.items \in Seq(Messages) /\ q.dropped \in SUBSET Messages
        /\ cleared \in SUBSET Messages
    BY <1>3, Fields DEF IInv, TypeOK
  <2>2. \A i \in 1..Len(q.items) : q.items[i] \in Messages
    BY <2>1, ElementOfSeq
  <2> QED
    BY <1>2, <2>1, <2>2 DEF MembersOf
<1> QED
  BY <1>1, <1>2, <1>5, <1>6 DEF IInv, TypeOK, QInv

LEMMA RunKeeps ==
  ASSUME IInv, RunBegins \/ RunOver \/ UNCHANGED vars
  PROVE  IInv'
BY DEF IInv, TypeOK, RunBegins, RunOver, vars, history

LEMMA InitIInv == Init => IInv
<1> SUFFICES ASSUME Init PROVE IInv
  OBVIOUS
<1>1. /\ queues = [o \in Objects |-> NewQueue] /\ current = 0 /\ recent = {} /\ run = "active"
      /\ clears = 0 /\ accepted = <<>> /\ ran = <<>> /\ evicted = {} /\ cleared = {}
  BY DEF Init
<1>2. queues \in [Objects -> Queue]
  BY <1>1, NewQueueIs
<1>3. /\ NewQueue.items = <<>> /\ NewQueue.turn = NoTurn /\ NewQueue.groups = <<>>
      /\ NewQueue.drain = "idle" /\ NoTurn.msgs = <<>> /\ NoTurn.pops = 0
  BY DEF NewQueue, NoTurn
<1>4. <<>> \in Seq(Messages) /\ Len(<<>>) = 0 /\ MembersOf(<<>>) = {} /\ <<>> \o <<>> = <<>>
  BY EmptyMembers
<1>5. Claimed(NewQueue) = <<>>
  BY <1>3, <1>4 DEF Claimed
<1>6. Held(NewQueue) = {}
  BY <1>3, <1>4, <1>5 DEF Held
<1>7. ObjectOK(NewQueue)
  BY <1>3, <1>4, <1>5 DEF ObjectOK, Distinct
<1>8. \A o \in Objects : queues[o] = NewQueue
  BY <1>1
<1>9. Apart(queues, {}, <<>>, <<>>)
  BY <1>4, <1>6, <1>7, <1>8 DEF Apart, Distinct
<1>10. StraysCost(queues, 0, 0)
  <2>1. Strays(queues, 0) = {}
    BY <1>3, <1>8 DEF Strays
  <2> QED
    BY <2>1, FS_EmptySet DEF StraysCost
<1>11. Single(queues, 0, <<>>, <<>>, {}, 0)
  BY <1>4 DEF Single, Sorted
<1> QED
  BY <1>1, <1>2, <1>4, <1>9, <1>10, <1>11, ClearsAssumption DEF IInv, TypeOK, QInv

LEMMA NextIInv == IInv /\ [Next]_vars => IInv'
<1> SUFFICES ASSUME IInv, [Next]_vars PROVE IInv'
  OBVIOUS
<1>1. CASE \E m \in Messages, s \in Settings, isActive \in BOOLEAN : Enqueue(m, s, isActive)
  BY <1>1, EnqueueKeeps
<1>2. CASE RunBegins \/ RunOver \/ UNCHANGED vars
  BY <1>2, RunKeeps
<1>3. CASE FinalizeWithFollowup
  BY <1>3, FinalizeKeeps
<1>4. CASE \E o \in Objects : DrainStep(o) \/ TurnSucceeds(o) \/ TurnFails(o)
  BY <1>4, DebounceOverKeeps, CollectKeeps, AnswerKeeps, TurnSucceedsKeeps, TurnFailsKeeps DEF DrainStep
<1>5. CASE ClearSessionQueues
  BY <1>5, ClearSessionQueuesKeeps
<1> QED
  BY <1>1, <1>2, <1>3, <1>4, <1>5 DEF Next

-----------------------------------------------------------------------------
(* Targets.  What was queued when the targets were compared is of one, and  *)
(* what came later is known to be late, up to the end of the batch.         *)

OneTarget(S) == \A m, n \in S : Route[m] = Route[n]

Told(q) ==
  /\ OneTarget(MembersOf(Claimed(q)) \ q.late)
  /\ q.drain = "skipped" => OneTarget(MembersOf(q.items) \ q.late)

AllTold(qs) == \A o \in Objects : Told(qs[o])

TInv == AllTold(queues)

(* The messages of items that are not of different routes are of one.       *)
LEMMA OneRoute ==
  ASSUME NEW items \in Seq(Messages), ~HasCrossChannelItems(items)
  PROVE  \A m, n \in MembersOf(items) : Route[m] = Route[n]
<1> DEFINE routes == {Route[m] : m \in MembersOf(items)}
<1>1. ~(Cardinality(routes) > 1)
  BY DEF HasCrossChannelItems
<1>2. IsFiniteSet(routes)
  <2> DEFINE f == [i \in 1..Len(items) |-> Route[items[i]]]
  <2>1. f \in Surjection(1..Len(items), routes)
    BY DEF Surjection, MembersOf
  <2>2. IsFiniteSet(1..Len(items))
    BY LenProperties, FS_Interval
  <2> QED
    BY <2>1, <2>2, FS_Surjection
<1> HIDE DEF routes
<1>3. Cardinality(routes) \in Nat
  BY <1>2, FS_CardinalityType
<1>4. \A a, b \in routes : a = b
  <2> SUFFICES ASSUME NEW a \in routes, NEW b \in routes, a # b PROVE FALSE
    OBVIOUS
  <2>1. Cardinality({a, b}) = 2
    <3>1. IsFiniteSet({a}) /\ Cardinality({a}) = 1
      BY FS_Singleton
    <3>2. Cardinality({a} \cup {b}) = IF b \in {a} THEN 1 ELSE 1 + 1
      BY <3>1, FS_AddElement
    <3>3. Cardinality({a} \cup {b}) = 2
      BY <3>2
    <3>4. {a, b} = {a} \cup {b}
      OBVIOUS
    <3> QED
      BY <3>3, <3>4
  <2>2. Cardinality({a, b}) <= Cardinality(routes)
    BY <1>2, FS_Subset
  <2> QED
    BY <1>1, <1>3, <2>1, <2>2
<1> QED
  BY <1>4 DEF routes

(* A claim and a queue that only shrink, with the late known as before.     *)
LEMMA TellsAsBefore ==
  ASSUME NEW q, NEW p, Told(q), MembersOf(Claimed(p)) \subseteq MembersOf(Claimed(q)),
         q.late \subseteq p.late,
         p.drain = "skipped" =>
           q.drain = "skipped" /\ MembersOf(p.items) \ p.late \subseteq MembersOf(q.items) \ q.late
  PROVE  Told(p)
BY DEF Told, OneTarget

LEMMA NothingToTell ==
  ASSUME NEW p \in Queue, p.turn.msgs = <<>>, p.groups = <<>>, p.drain # "skipped"
  PROVE  Told(p)
<1>1. MembersOf(Claimed(p)) = {}
  BY EmptyMembers DEF Claimed
<1> QED
  BY <1>1 DEF Told, OneTarget

LEMMA IdleTells ==
  ASSUME NEW q \in Queue
  PROVE  Told(Idle(q)) /\ Told(Debouncing(q))
<1>1. /\ Idle(q) \in Queue /\ Idle(q).turn = NoTurn /\ Idle(q).groups = <<>>
      /\ Idle(q).drain = "idle"
  BY IdleIs
<1>2. /\ Debouncing(q) \in Queue /\ Debouncing(q).turn = NoTurn /\ Debouncing(q).groups = <<>>
      /\ Debouncing(q).drain = "debounce"
  BY DebouncingIs DEF Debouncing, Queue
<1>3. NoTurn.msgs = <<>>
  BY DEF NoTurn
<1> QED
  BY <1>1, <1>2, <1>3, NothingToTell

LEMMA ItemTells ==
  ASSUME NEW q \in Queue, q.items # <<>>
  PROVE  Told(RunItem(q))
<1> DEFINE p == RunItem(q)
           m == Head(q.items)
<1>1. m \in Messages
  BY Fields, EmptySeq, HeadTailProperties
<1>2. p.turn.msgs = <<m>> /\ p.groups = <<>> /\ p.drain = "running"
  BY DEF RunItem, Queue
<1> HIDE DEF p, m
<1>3. <<m>> \in Seq(Messages) /\ Len(<<m>>) = 1 /\ <<m>>[1] = m
  BY <1>1
<1>4. Claimed(p) = <<m>>
  BY <1>2, <1>3, ConcatEmptySeq DEF Claimed
<1>5. MembersOf(Claimed(p)) = {m}
  BY <1>3, <1>4 DEF MembersOf
<1>6. Told(p)
  BY <1>2, <1>5 DEF Told, OneTarget
<1> QED
  BY <1>6 DEF p

LEMMA SummaryTells ==
  ASSUME NEW q \in Queue, NEW n \in Nat
  PROVE  Told(RunSummary(q, n))
<1> DEFINE p == RunSummary(q, n)
<1>1. p \in Queue
  BY RunSummaryIs
<1>2. p.turn.msgs = <<>> /\ p.groups = <<>> /\ p.drain = "running"
  BY DEF RunSummary, Queue
<1> HIDE DEF p
<1>3. Told(p)
  BY <1>1, <1>2, NothingToTell
<1> QED
  BY <1>3 DEF p

(* A drain that debounced has compared the targets, or claims one message.  *)
LEMMA NextStepTells ==
  ASSUME NEW q \in Queue, Told(q)
  PROVE  Told(NextStep(q))
<1> DEFINE q2 == [q EXCEPT !.forceIndividual = @ \/ HasCrossChannelItems(q.items)]
<1>1. /\ q2 \in Queue /\ q2.items = q.items /\ q2.turn = q.turn /\ q2.groups = q.groups
      /\ q2.late = q.late
      /\ ~q2.forceIndividual => ~HasCrossChannelItems(q.items)
  BY DEF Queue
<1>2. ASSUME NEW r \in Queue, r.items = q.items, r.turn = q.turn, r.groups = q.groups,
             r.late = q.late, NEW answer \in Answers,
             answer = "skipped" => ~HasCrossChannelItems(q.items)
      PROVE  Told(Answering(r, answer))
  <2> DEFINE p == Answering(r, answer)
  <2>1. /\ p.items = q.items /\ p.turn = q.turn /\ p.groups = q.groups /\ p.late = q.late
        /\ p.drain = answer
    BY <1>2 DEF Answering, Queue
  <2> HIDE DEF p
  <2>2. Claimed(p) = Claimed(q)
    BY <2>1 DEF Claimed
  <2>3. answer = "skipped" => OneTarget(MembersOf(q.items))
    BY <1>2, OneRoute, Fields DEF OneTarget
  <2>4. Told(p)
    BY <2>1, <2>2, <2>3 DEF Told, OneTarget
  <2> QED
    BY <2>4 DEF p
<1>3. CASE q.mode = "collect"
  <2>1. NextStep(q) = CollectStep(q)
    BY <1>3 DEF NextStep
  <2>2. \/ CollectStep(q) = Answering(q2, "skipped") /\ ~q2.forceIndividual
        \/ CollectStep(q) = Answering(q2, "empty")
        \/ q2.items # <<>> /\ CollectStep(q) = RunItem(q2)
    BY <1>1 DEF CollectStep
  <2> HIDE DEF q2
  <2>3. "skipped" \in Answers /\ "empty" \in Answers
    BY DEF Answers
  <2>4. Told(CollectStep(q))
    BY <1>1, <1>2, <2>2, <2>3, ItemTells
  <2> QED
    BY <2>1, <2>4
<1>4. CASE q.mode # "collect"
  <2>1. NextStep(q) = FollowupStep(q)
    BY <1>4 DEF NextStep
  <2>2. \/ FollowupStep(q) = Answering(q, "none")
        \/ q.items # <<>> /\ FollowupStep(q) = RunItem(q)
        \/ FollowupStep(q) = RunSummary(q, 1)
    BY DEF FollowupStep
  <2>3. "none" \in Answers /\ "none" # "skipped"
    BY DEF Answers
  <2>4. Told(FollowupStep(q))
    BY <1>2, <2>2, <2>3, ItemTells, SummaryTells
  <2> QED
    BY <2>1, <2>4
<1> QED
  BY <1>3, <1>4

(* The batch is what is queued, late or not. *)
LEMMA BatchTells ==
  ASSUME NEW q \in Queue, Told(q), q.drain = "skipped", q.items # <<>>
  PROVE  Told(RunGroup(q, q.items, PendingSummary(q)))
<1> DEFINE p == RunGroup(q, q.items, PendingSummary(q))
<1>1. PendingSummary(q) \in BOOLEAN /\ q.items \in Seq(Messages)
  BY Fields DEF PendingSummary
<1>2. Claimed(p) = q.items /\ p.drain = "running"
  BY <1>1, RunGroupIs
<1>3. p.late = q.late
  BY DEF RunGroup, Queue
<1> HIDE DEF p
<1>4. Told(p)
  BY <1>2, <1>3 DEF Told
<1> QED
  BY <1>4 DEF p

(* A group of the batch has run: the claim has shrunk. *)
LEMMA TurnTells ==
  ASSUME NEW q \in Queue, Told(q)
  PROVE  LET u == UsedUp(q)
         IN  /\ Told(Drained(u))
             /\ u.groups # <<>> => Told(RunGroup(SummaryTold(u), u.groups, FALSE))
<1> DEFINE u == UsedUp(q)
           v == SummaryTold(u)
<1>1. u \in Queue /\ u.groups = q.groups /\ u.late = q.late
  BY UsedUpIs
<1> HIDE DEF u
<1>2. v \in Queue /\ v.late = u.late /\ u.groups \in Seq(Messages)
  BY <1>1, SummaryToldIs, Fields
<1> HIDE DEF v
<1>3. MembersOf(q.groups) \subseteq MembersOf(Claimed(q))
  BY Fields
<1>4. Told(Drained(u))
  <2> DEFINE p == Drained(u)
  <2>1. p.turn.msgs = <<>> /\ p.groups = u.groups /\ p.drain = "drained" /\ p.late = u.late
    BY <1>1, DrainedIs
  <2> HIDE DEF p
  <2>2. Claimed(p) = q.groups
    BY <1>1, <1>2, <2>1, ConcatEmptySeq DEF Claimed
  <2>3. Told(p)
    BY <1>1, <1>3, <2>1, <2>2, TellsAsBefore
  <2> QED
    BY <2>3 DEF p
<1>5. ASSUME u.groups # <<>>
      PROVE  Told(RunGroup(v, u.groups, FALSE))
  <2> DEFINE p == RunGroup(v, u.groups, FALSE)
  <2>1. Claimed(p) = u.groups /\ p.drain = "running"
    BY <1>2, <1>5, RunGroupIs
  <2>2. p.late = v.late
    BY <1>2 DEF RunGroup, Queue
  <2> HIDE DEF p
  <2>3. Told(p)
    BY <1>1, <1>2, <1>3, <2>1, <2>2, TellsAsBefore
  <2> QED
    BY <2>3 DEF p
<1> QED
  BY <1>4, <1>5 DEF u, v

(* What an enqueue makes of a queue: a message that comes while the targets *)
(* have been compared is late.                                              *)
LEMMA SettingsTell ==
  ASSUME NEW q \in Queue, NEW s \in Settings, Told(q)
  PROVE  Told(ApplySettings(q, s)) /\ ApplySettings(q, s) \in Queue
<1> DEFINE p == ApplySettings(q, s)
<1>1. p \in Queue /\ SameWork(q, p)
  BY ApplySettingsIs
<1>2. p.late = q.late /\ p.drain = q.drain
  BY DEF ApplySettings, Queue
<1> HIDE DEF p
<1>3. Claimed(p) = Claimed(q) /\ p.items = q.items
  BY <1>1 DEF SameWork, Claimed
<1>4. Told(p)
  BY <1>2, <1>3, TellsAsBefore
<1> QED
  BY <1>1, <1>4 DEF p

LEMMA PushTells ==
  ASSUME NEW q \in Queue, NEW m \in Messages, Told(q)
  PROVE  Told(Push(MakeRoom(q), m))
<1> DEFINE k == Overflow(q)
           p == Push(MakeRoom(q), m)
           d == DropFirst(q.items, k)
<1>1. p \in Queue /\ k \in Nat /\ Grows(q, p, k, m)
  BY PushIs
<1>2. /\ p.late = IF q.drain = "skipped" THEN q.late \cup {m} ELSE q.late
      /\ p.drain = q.drain
  BY DEF Push, MakeRoom, Queue
<1> HIDE DEF p, k
<1>3. d \in Seq(Messages) /\ MembersOf(d) \subseteq MembersOf(q.items)
  BY <1>1, Fields, DropFirstIs
<1>4. p.items = Append(d, m) /\ Claimed(p) = Claimed(q)
  BY <1>1 DEF Grows, Claimed
<1> HIDE DEF d
<1>5. MembersOf(p.items) = MembersOf(d) \cup {m}
  BY <1>3, <1>4, AppendMembers
<1>6. Told(p)
  BY <1>2, <1>3, <1>4, <1>5, TellsAsBefore
<1> QED
  BY <1>6 DEF p

(* What is scheduled, and a drain that ends.                                *)
LEMMA ScheduleTells ==
  ASSUME NEW qs \in [Objects -> Queue], NEW c \in {0} \cup Objects, AllTold(qs), ScheduleFor(c, qs)
  PROVE  AllTold(queues')
<1>1. queues' = qs \/ (c \in Objects /\ queues' = [qs EXCEPT ![c] = Debouncing(qs[c])])
  BY DEF ScheduleFor
<1>2. c \in Objects => Told(Debouncing(qs[c]))
  BY IdleTells
<1> HIDE DEF Objects
<1> QED
  BY <1>1, <1>2 DEF AllTold

LEMMA EndDrainTells ==
  ASSUME TypeOK, AllTold(queues), NEW o \in Objects, NEW u \in Queue, EndDrain(o, u)
  PROVE  AllTold(queues')
<1> DEFINE qs == [queues EXCEPT ![o] = Idle(u)]
<1>1. qs \in [Objects -> Queue] /\ current \in {0} \cup Objects
  BY IdleIs DEF TypeOK
<1>2. AllTold(qs)
  BY IdleTells DEF AllTold, TypeOK
<1>3. ScheduleFor(current, qs) \/ queues' = qs
  BY DEF EndDrain, Schedule
<1> HIDE DEF qs
<1> QED
  BY <1>1, <1>2, <1>3, ScheduleTells

LEMMA EnqueueTells ==
  ASSUME IInv, AllTold(queues), NEW m \in Messages, NEW s \in Settings, NEW isActive \in BOOLEAN,
         Enqueue(m, s, isActive)
  PROVE  AllTold(queues')
<1> DEFINE o == IF current = 0 THEN FreeObject ELSE current
           q0 == IF current = 0 THEN NewQueue ELSE queues[o]
           q == ApplySettings(q0, s)
           refusing == [q EXCEPT !.lastRun = TRUE]
           pushed == Push(MakeRoom(q), m)
           Stored(p) == IF isActive THEN queues' = [queues EXCEPT ![o] = p] /\ current' = o
                                    ELSE ScheduleFor(o, [queues EXCEPT ![o] = p])
<1>1. /\ queues \in [Objects -> Queue] /\ current \in {0} \cup Objects
      /\ clears \in 0..MaxClears /\ StraysCost(queues, current, clears)
  BY DEF IInv, TypeOK, QInv
<1>2. o \in Objects
  BY <1>1, FreeObjectIs
<1>3. q0 \in Queue /\ Told(q0)
  <2>1. NewQueue \in Queue /\ Told(NewQueue)
    <3>1. NewQueue.turn = NoTurn /\ NewQueue.groups = <<>> /\ NewQueue.drain # "skipped"
      BY DEF NewQueue
    <3>2. NoTurn.msgs = <<>>
      BY DEF NoTurn
    <3> QED
      BY <3>1, <3>2, NewQueueIs, NothingToTell
  <2> QED
    BY <1>1, <1>2, <2>1 DEF AllTold
<1>4. Stored(q) \/ Stored(refusing) \/ Stored(pushed)
  BY DEF Enqueue
<1> HIDE DEF o, q0
<1>5. q \in Queue /\ Told(q)
  BY <1>3, SettingsTell
<1> HIDE DEF q
<1>6. pushed \in Queue /\ Told(pushed)
  BY <1>5, PushIs, PushTells
<1>7. refusing \in Queue /\ Told(refusing)
  <2>1. /\ refusing \in Queue /\ refusing.items = q.items /\ refusing.turn = q.turn
        /\ refusing.groups = q.groups /\ refusing.late = q.late /\ refusing.drain = q.drain
    BY <1>5 DEF Queue
  <2> HIDE DEF refusing
  <2>2. Claimed(refusing) = Claimed(q)
    BY <2>1 DEF Claimed
  <2> QED
    BY <1>5, <2>1, <2>2, TellsAsBefore
<1> HIDE DEF pushed, refusing
<1>8. ASSUME NEW p \in Queue, Told(p), Stored(p)
      PROVE  AllTold(queues')
  <2> DEFINE qs == [queues EXCEPT ![o] = p]
  <2>1. qs \in [Objects -> Queue] /\ AllTold(qs)
    BY <1>1, <1>2, <1>8 DEF AllTold
  <2>2. queues' = qs \/ ScheduleFor(o, qs)
    BY <1>8
  <2> HIDE DEF qs
  <2> QED
    BY <1>2, <2>1, <2>2, ScheduleTells
<1> HIDE DEF Stored
<1> QED
  BY <1>4, <1>5, <1>6, <1>7, <1>8

LEMMA DrainTells ==
  ASSUME IInv, AllTold(queues), NEW o \in Objects, DrainStep(o) \/ TurnSucceeds(o) \/ TurnFails(o)
  PROVE  AllTold(queues')
<1> DEFINE q == queues[o]
           u == UsedUp(q)
<1>1. TypeOK /\ queues \in [Objects -> Queue] /\ q \in Queue /\ Told(q)
  BY DEF IInv, TypeOK, AllTold
<1>2. SummaryTold(q) \in Queue /\ u \in Queue /\ SummaryTold(u) \in Queue
  BY <1>1, UsedUpIs, SummaryToldIs
<1>3. ASSUME NEW p, Told(p), queues' = [queues EXCEPT ![o] = p]
      PROVE  AllTold(queues')
  BY <1>1, <1>3 DEF AllTold
<1>4. ASSUME NEW p \in Queue, GoRound(o, p)
      PROVE  AllTold(queues')
  <2>1. EndDrain(o, p) \/ queues' = [queues EXCEPT ![o] = Debouncing(p)]
    BY <1>4 DEF GoRound
  <2> QED
    BY <1>1, <1>3, <2>1, IdleTells, EndDrainTells
<1>5. CASE DebounceOver(o)
  <2>1. EndDrain(o, q) \/ queues' = [queues EXCEPT ![o] = NextStep(q)]
    BY <1>5 DEF DebounceOver
  <2>2. Told(NextStep(q))
    BY <1>1, NextStepTells
  <2> HIDE DEF q
  <2> QED
    BY <1>1, <1>3, <2>1, <2>2, EndDrainTells
<1>6. CASE CollectBatch(o)
  <2>1. /\ q.drain = "skipped" /\ q.items # <<>>
        /\ queues' = [queues EXCEPT ![o] = RunGroup(q, q.items, PendingSummary(q))]
    BY <1>6 DEF CollectBatch
  <2>2. Told(RunGroup(q, q.items, PendingSummary(q)))
    BY <1>1, <2>1, BatchTells
  <2> QED
    BY <1>3, <2>1, <2>2
<1>7. CASE CollectSummary(o)
  <2>1. EndDrain(o, q) \/ queues' = [queues EXCEPT ![o] = RunSummary(q, 0)]
    BY <1>7 DEF CollectSummary
  <2>2. Told(RunSummary(q, 0))
    BY <1>1, SummaryTells
  <2> HIDE DEF q
  <2> QED
    BY <1>1, <1>3, <2>1, <2>2, EndDrainTells
<1>8. CASE NothingDrained(o)
  BY <1>1, <1>8, EndDrainTells DEF NothingDrained
<1>9. CASE ItemDrained(o)
  BY <1>2, <1>4, <1>9 DEF ItemDrained
<1>10. CASE TurnSucceeds(o)
  <2>1. \/ queues' = [queues EXCEPT ![o] = Drained(u)]
        \/ u.groups # <<>> /\ queues' = [queues EXCEPT ![o] = RunGroup(SummaryTold(u), u.groups, FALSE)]
        \/ GoRound(o, SummaryTold(u))
    BY <1>10 DEF TurnSucceeds
  <2>2. /\ Told(Drained(u))
        /\ u.groups # <<>> => Told(RunGroup(SummaryTold(u), u.groups, FALSE))
    BY <1>1, TurnTells
  <2> HIDE DEF u
  <2> QED
    BY <1>2, <1>3, <1>4, <2>1, <2>2
<1>11. CASE TurnFails(o)
  BY <1>1, <1>11, EndDrainTells DEF TurnFails
<1> QED
  BY <1>5, <1>6, <1>7, <1>8, <1>9, <1>10, <1>11 DEF DrainStep

LEMMA OthersTell ==
  ASSUME IInv, AllTold(queues),
         \/ RunBegins \/ RunOver \/ FinalizeWithFollowup \/ ClearSessionQueues \/ UNCHANGED vars
  PROVE  AllTold(queues')
<1>1. queues \in [Objects -> Queue] /\ current \in {0} \cup Objects
  BY DEF IInv, TypeOK
<1>2. CASE RunBegins \/ RunOver \/ UNCHANGED vars
  BY <1>2 DEF RunBegins, RunOver, vars
<1>3. CASE FinalizeWithFollowup
  BY <1>1, <1>3, ScheduleTells DEF FinalizeWithFollowup, Schedule
<1>4. CASE ClearSessionQueues
  <2> DEFINE q == queues[current]
             p == [q EXCEPT !.items = <<>>, !.dropped = {}, !.lastRun = FALSE]
  <2>1. current \in Objects /\ q \in Queue /\ Told(q)
    BY <1>1, <1>4 DEF ClearSessionQueues, AllTold
  <2>2. queues' = [queues EXCEPT ![current] = p]
    BY <1>1, <1>4, <2>1 DEF ClearSessionQueues
  <2>3. /\ p.items = <<>> /\ p.turn = q.turn /\ p.groups = q.groups /\ p.late = q.late
        /\ p.drain = q.drain
    BY <2>1 DEF Queue
  <2> HIDE DEF p
  <2>4. Claimed(p) = Claimed(q) /\ MembersOf(p.items) = {}
    BY <2>3, EmptyMembers DEF Claimed
  <2>5. Told(p)
    BY <2>1, <2>3, <2>4, TellsAsBefore
  <2> QED
    BY <1>1, <2>1, <2>2, <2>5 DEF AllTold
<1> QED
  BY <1>2, <1>3, <1>4

LEMMA TargetsInvariant ==
  /\ Init => TInv
  /\ IInv /\ TInv /\ [Next]_vars => TInv'
<1>1. ASSUME Init
      PROVE  AllTold(queues)
  <2>1. \A o \in Objects : queues[o] = NewQueue
    BY <1>1 DEF Init
  <2>2. NewQueue.turn.msgs = <<>> /\ NewQueue.groups = <<>> /\ NewQueue.drain # "skipped"
    BY DEF NewQueue, NoTurn
  <2> QED
    BY <2>1, <2>2, NewQueueIs, NothingToTell DEF AllTold
<1>2. ASSUME IInv, AllTold(queues), [Next]_vars
      PROVE  AllTold(queues')
  BY <1>2, EnqueueTells, DrainTells, OthersTell DEF Next
<1> QED
  BY <1>1, <1>2 DEF TInv

-----------------------------------------------------------------------------
(* The theorems.                                                            *)

(* In every reachable state of a session's followup queue, whatever comes   *)
(* in, fails, overflows or is cleared, the inductive invariant holds.       *)
THEOREM Invariance == Spec => []IInv
<1> QED
  BY InitIInv, NextIInv, PTL DEF Spec

(* The state of auto-reply/reply/queue has its types; caps stay positive    *)
(* whatever the settings bring.                                             *)
THEOREM TypeCorrect == Spec => []TypeOK
<1>1. IInv => TypeOK
  BY DEF IInv
<1> QED
  BY <1>1, Invariance, PTL

(* No message is answered twice, although the items a turn was made of stay *)
(* in the queue while it runs and overflow or are cleared meanwhile.        *)
THEOREM NothingRunsTwice == Spec => []RunsAtMostOnce
<1>1. IInv => RunsAtMostOnce
  BY DEF IInv, QInv, Apart, Distinct, RunsAtMostOnce
<1> QED
  BY <1>1, Invariance, PTL

(* One turn answers messages of one authorization only, and of one target   *)
(* but for those that come between the comparison of the targets and the    *)
(* forming of the batch, while the drain awaits the answer "skipped".       *)
THEOREM OnlyLateOnesMix == Spec => []OnlyLateArrivalsMix
<1>1. Spec => []TInv
  BY TargetsInvariant, Invariance, PTL DEF Spec
<1>2. ASSUME IInv, TInv
      PROVE  OnlyLateArrivalsMix
  <2> SUFFICES ASSUME NEW o \in Objects,
                      NEW m \in MembersOf(queues[o].turn.msgs), NEW n \in MembersOf(queues[o].turn.msgs)
               PROVE  /\ Auth[m] = Auth[n]
                      /\ Route[m] = Route[n] \/ {m, n} \cap queues[o].late # {}
    BY DEF OnlyLateArrivalsMix
  <2>1. queues[o] \in Queue /\ ObjectOK(queues[o]) /\ Told(queues[o])
    BY <1>2, ObjectIs DEF TInv, AllTold
  <2>2. m \in MembersOf(Claimed(queues[o])) /\ n \in MembersOf(Claimed(queues[o]))
    BY <2>1, Fields
  <2> QED
    BY <2>1, <2>2 DEF ObjectOK, Told, OneTarget
<1> QED
  BY <1>1, <1>2, Invariance, PTL

(* Until a clear sets a second drain beside the first, turns succeed in the *)
(* order the messages were accepted in.                                     *)
THEOREM AnsweredInOrder == Spec => []RunsInOrder
<1>1. IInv => RunsInOrder
  <2> SUFFICES ASSUME IInv, clears = 0,
                      NEW i \in 1..Len(ran), NEW j \in 1..Len(ran),
                      NEW a \in 1..Len(accepted), NEW b \in 1..Len(accepted),
                      i < j, ran[i] = accepted[a], ran[j] = accepted[b]
               PROVE  a < b
    BY DEF RunsInOrder
  <2>1. Sorted(ran, accepted)
    BY DEF IInv, QInv, Single
  <2>2. Before(ran[i], ran[j], accepted)
    BY <2>1 DEF Sorted
  <2> QED
    BY <2>2 DEF Before
<1> QED
  BY <1>1, Invariance, PTL

(* While nothing overflowed or was cleared, what was accepted waits until   *)
(* its turn has succeeded.                                                  *)
THEOREM NothingAcceptedIsLost == Spec => []AcceptedIsKept
<1>1. IInv => AcceptedIsKept
  <2> SUFFICES ASSUME IInv, evicted = {}, clears = 0, NEW m \in MembersOf(accepted)
               PROVE  Waiting(m) \/ m \in MembersOf(ran)
    BY DEF AcceptedIsKept
  <2>1. m \in MembersOf(ran) \/ (current # 0 /\ m \in MembersOf(queues[current].items))
    BY DEF IInv, QInv, Single
  <2>2. current # 0 => current \in Objects
    BY DEF IInv, TypeOK
  <2> QED
    BY <2>1, <2>2 DEF Waiting
<1> QED
  BY <1>1, Invariance, PTL
=============================================================================
