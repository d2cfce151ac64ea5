--------------------------- MODULE ReminderProofs ---------------------------
(***************************************************************************)
(* Proofs about Reminder for any finite or infinite sets of writers and    *)
(* readers, any delays, and any number of reminders.                       *)
(*                                                                         *)
(* The list is described by its order, not by walking it: the key of a     *)
(* reminder is its trigger time and then its number, and the links lead    *)
(* from each reminder on the list to the next greater one.  Cursors are    *)
(* then safe where only smaller reminders can have gone, or where only the *)
(* owner of the cursor deletes.                                            *)
(***************************************************************************)
EXTENDS Reminder, FiniteSetTheorems, TLAPS

Good == ~clash /\ ~faulted

Linked == {r \in Reminders : Listed(r)}
Ring == Linked \cup {Head0}

\* The order of the list, for trigger times tr; Head0 is behind all.
Before(tr, a, b) == tr[a] < tr[b] \/ (tr[a] = tr[b] /\ a < b)
UpTo(tr, a, b) == a # Head0 /\ (a = b \/ Before(tr, a, b))

\* The links make a ring of the reminders L, each followed by the next greater one.
Ordered(L, nx, pv, tr) ==
  /\ \A n \in L \cup {Head0} : /\ nx[n] \in L \cup {Head0} /\ pv[nx[n]] = n
                               /\ pv[n] \in L \cup {Head0} /\ nx[pv[n]] = n
  /\ \A a \in L : nx[a] # Head0 => Before(tr, a, nx[a])
  /\ \A a, b \in L : Before(tr, a, b) => UpTo(tr, nx[a], b)
  /\ \A b \in L : UpTo(tr, nx[Head0], b)

TypeInv ==
  /\ now \in Int
  /\ nxt \in [Nodes -> Nodes] /\ prv \in [Nodes -> Nodes]
  /\ mem \in [Reminders -> {"unused", "live", "freed"}]
  /\ trigger \in [Reminders -> Int] /\ fired \in Seq(Reminders)
  /\ tpc \in {"idle", "test"} /\ ti \in Nodes /\ tn \in Nodes /\ passDue \subseteq Reminders
  /\ wpc \in [Writers -> {"idle", "walk", "prev", "link", "null"}]
  /\ wnode \in [Writers -> Nodes] /\ wit \in [Writers -> Nodes] /\ wprev \in [Writers -> Nodes]
  /\ rpc \in [Readers -> {"idle", "walk"}] /\ rit \in [Readers -> Nodes]
  /\ exitPc \in {"loaded", "free", "drain", "unloaded"} /\ ei \in Nodes /\ en \in Nodes
  /\ atExit \subseteq Reminders
  /\ clash \in BOOLEAN /\ readClash \in BOOLEAN /\ faulted \in BOOLEAN
  /\ exitPc # "loaded" => tpc = "idle"

\* Reminders are numbered as they are stored.
Numbered == \A a, b \in Reminders : a < b /\ mem[b] # "unused" => mem[a] # "unused"
NumberInv == Good => Numbered

ListInv == Good => Ordered(Linked, nxt, prv, trigger)

\* A store has passed what goes before its reminder, and only that.
StoreInv ==
  Good => \A w \in Writers : Storing(w) =>
    /\ wpc[w] # "null" /\ wnode[w] \in Reminders /\ mem[wnode[w]] = "live"
    /\ \A v \in Writers : Storing(v) /\ wnode[v] = wnode[w] => v = w
    /\ \A e \in Linked : e < wnode[w]
    /\ wit[w] \in Ring
    /\ \A e \in Linked : wit[w] = Head0 \/ Before(trigger, e, wit[w]) =>
         trigger[e] <= trigger[wnode[w]]
    /\ wpc[w] # "walk" => wit[w] = Head0 \/ trigger[wit[w]] > trigger[wnode[w]]
    /\ wpc[w] = "link" => wprev[w] = prv[wit[w]]

\* What a loop that frees has before it: its first cursor, and all from the second on.
Ahead(first, second) ==
  {r \in Linked : first # Head0 /\ (r = first \/ UpTo(trigger, second, r))}
Cursors(first, second) ==
  /\ first \in Ring /\ second \in Ring
  /\ first # Head0 /\ second # Head0 => Before(trigger, first, second)

TimerInv ==
  /\ Good => \A r \in passDue : trigger[r] <= now /\ mem[r] # "unused"
  /\ Good /\ tpc = "test" =>
       /\ Cursors(ti, tn)
       /\ \A r \in passDue : r \in Ahead(ti, tn) \/ \E k \in DOMAIN fired : fired[k] = r
  /\ PassFiresAllDue

ExitInv ==
  /\ Good /\ exitPc = "free" =>
       /\ Cursors(ei, en)
       /\ \A r \in atExit : r \in Ahead(ei, en) \/ mem[r] = "freed"
  /\ ExitFreesAll

ReaderInv ==
  /\ Good /\ ~readClash => \A q \in Readers : rpc[q] = "walk" => rit[q] \in Ring
  /\ FaultNeedsClash

IInv == TypeInv /\ NumberInv /\ ListInv /\ StoreInv /\ TimerInv /\ ExitInv /\ ReaderInv

\* What holds whatever shape the list has: the links and the cursors lead to reminders
\* that were stored.
Stored == {n \in Nodes : n = Head0 \/ mem[n] # "unused"}
LinksInv ==
  /\ Numbered
  /\ nxt \in [Nodes -> Stored] /\ prv \in [Nodes -> Stored]
  /\ ti \in Stored /\ tn \in Stored /\ ei \in Stored /\ en \in Stored
  /\ wnode \in [Writers -> Stored] /\ wit \in [Writers -> Stored]
  /\ wprev \in [Writers -> Stored]

\* What was fired is gone, and the callback does not go on from it; a trigger time that
\* did not overflow is what the user asked for.
FireInv ==
  /\ due \in [Reminders -> Nat] /\ now \in Nat
  /\ \A r \in Reminders : r \in Stored /\ due[r] <= KTimeMax => trigger[r] = due[r]
  /\ tpc = "test" /\ ~faulted => ~Freed(ti)
  /\ \A k \in DOMAIN fired : mem[fired[k]] = "freed"
  /\ FiredOnceNotEarly

-----------------------------------------------------------------------------
(* Lists in order                                                            *)

\* The keys are totally ordered.
LEMMA BeforeOrder ==
  ASSUME NEW tr \in [Reminders -> Int]
  PROVE  /\ \A a \in Reminders : ~Before(tr, a, a)
         /\ \A a, b \in Reminders : a = b \/ Before(tr, a, b) \/ Before(tr, b, a)
         /\ \A a, b, c \in Reminders : Before(tr, a, b) /\ Before(tr, b, c) => Before(tr, a, c)
  BY ReminderAssumption DEF Before, Reminders

\* A reminder linked in front of the first one behind which it must not stand.
LEMMA InsertOrdered ==
  ASSUME NEW L \in SUBSET Reminders, NEW nx \in [Nodes -> Nodes], NEW pv \in [Nodes -> Nodes],
         NEW tr \in [Reminders -> Int], Ordered(L, nx, pv, tr),
         NEW r \in Reminders \ L, NEW at \in L \cup {Head0},
         \A e \in L : at = Head0 \/ Before(tr, e, at) => Before(tr, e, r),
         at # Head0 => Before(tr, r, at)
  PROVE  Ordered(L \cup {r}, [nx EXCEPT ![r] = at, ![pv[at]] = r],
                 [pv EXCEPT ![r] = pv[at], ![at] = r], tr)
  <1> DEFINE p == pv[at]
             nx1 == [nx EXCEPT ![r] = at, ![p] = r]
             pv1 == [pv EXCEPT ![r] = p, ![at] = r]
             R == L \cup {Head0}
  <1>0. Head0 \notin Reminders /\ L \subseteq Reminders /\ Nodes = Reminders \cup {Head0}
    BY ReminderAssumption DEF Head0, Reminders, Nodes
  <1>1. p \in R /\ nx[p] = at /\ r \notin R /\ at # r /\ p # r
    BY <1>0 DEF Ordered
  <1>2. /\ nx1[r] = at /\ nx1[p] = r /\ \A n \in Nodes \ {r, p} : nx1[n] = nx[n]
        /\ pv1[r] = p /\ pv1[at] = r /\ \A n \in Nodes \ {r, at} : pv1[n] = pv[n]
    BY <1>0, <1>1
  <1>3. \A n \in R : nx[n] \in R /\ pv[nx[n]] = n /\ pv[n] \in R /\ nx[pv[n]] = n
    BY DEF Ordered
  <1>4. \A a \in L : nx[a] # Head0 => Before(tr, a, nx[a])
    BY DEF Ordered
  <1>5. /\ \A a, b \in L : Before(tr, a, b) => UpTo(tr, nx[a], b)
        /\ \A b \in L : UpTo(tr, nx[Head0], b)
    BY DEF Ordered
  <1>6. R \subseteq Nodes
    BY <1>0
  <1> HIDE DEF p, nx1, pv1
  <1>7. \A n \in R \cup {r} : /\ nx1[n] \in R \cup {r} /\ pv1[nx1[n]] = n
                             /\ pv1[n] \in R \cup {r} /\ nx1[pv1[n]] = n
    <2>1. nx1[r] \in R \cup {r} /\ pv1[nx1[r]] = r /\ pv1[r] \in R \cup {r} /\ nx1[pv1[r]] = r
      BY <1>1, <1>2
    <2>2. ASSUME NEW n \in R
          PROVE  nx1[n] \in R \cup {r} /\ pv1[nx1[n]] = n
      <3>1. CASE n = p
        BY <1>1, <1>2, <3>1
      <3>2. CASE n # p
        <4>1. nx1[n] = nx[n] /\ nx[n] \in R /\ pv[nx[n]] = n
          BY <1>1, <1>2, <1>3, <1>6, <3>2
        <4>2. nx[n] # at /\ nx[n] # r
          BY <1>1, <3>2, <4>1 DEF p
        <4> QED
          BY <1>2, <1>6, <4>1, <4>2
      <3> QED
        BY <3>1, <3>2
    <2>3. ASSUME NEW n \in R
          PROVE  pv1[n] \in R \cup {r} /\ nx1[pv1[n]] = n
      <3>1. CASE n = at
        BY <1>1, <1>2, <3>1
      <3>2. CASE n # at
        <4>1. pv1[n] = pv[n] /\ pv[n] \in R /\ nx[pv[n]] = n
          BY <1>1, <1>2, <1>3, <1>6, <3>2
        <4>2. pv[n] # p /\ pv[n] # r
          BY <1>1, <3>2, <4>1
        <4> QED
          BY <1>2, <1>6, <4>1, <4>2
      <3> QED
        BY <3>1, <3>2
    <2> QED
      BY <2>1, <2>2, <2>3
  <1>8. ASSUME NEW a \in L \cup {r}, nx1[a] # Head0
        PROVE  Before(tr, a, nx1[a])
    <2>1. CASE a = r
      BY <1>2, <1>8, <2>1
    <2>2. CASE a = p /\ a # r
      <3>1. at = Head0 \/ Before(tr, p, at)
        BY <1>1, <1>4, <2>2
      <3> QED
        BY <1>2, <2>2, <3>1
    <2>3. CASE a # p /\ a # r
      BY <1>2, <1>4, <1>6, <1>8, <2>3
    <2> QED
      BY <2>1, <2>2, <2>3
  <1>9. ASSUME NEW n \in R, n # p, n = Head0 \/ Before(tr, n, r)
        PROVE  UpTo(tr, nx[n], r)
    \* What stands further in front has its next no later than r.
    <2>1. nx[n] \in R /\ nx[n] # at
      BY <1>3, <1>9 DEF p
    <2>2. CASE at = Head0
      <3>1. nx[n] \in L
        BY <2>1, <2>2
      <3> QED
        BY <1>0, <2>2, <3>1 DEF UpTo
    <2>3. CASE at # Head0
      <3>1. UpTo(tr, nx[n], at)
        <4>1. CASE n = Head0
          BY <1>5, <2>3, <4>1
        <4>2. CASE n # Head0
          <5>1. n \in L /\ at \in L /\ Before(tr, n, r) /\ Before(tr, r, at)
            BY <1>9, <2>3, <4>2
          <5>2. Before(tr, n, at)
            BY <1>0, <5>1, BeforeOrder
          <5> QED
            BY <1>5, <5>1, <5>2
        <4> QED
          BY <4>1, <4>2
      <3>2. nx[n] \in L /\ Before(tr, nx[n], at)
        BY <2>1, <3>1 DEF UpTo
      <3>3. Before(tr, nx[n], r)
        BY <3>2
      <3> QED
        BY <1>0, <3>2, <3>3 DEF UpTo
    <2> QED
      BY <2>2, <2>3
  <1>10. ASSUME NEW b \in L, UpTo(tr, at, b)
         PROVE  UpTo(tr, r, b)
    <2>1. at \in L /\ Before(tr, r, at) /\ (at = b \/ Before(tr, at, b))
      BY <1>10 DEF UpTo
    <2>2. Before(tr, r, b)
      BY <1>0, <2>1, BeforeOrder
    <2> QED
      BY <1>0, <2>2 DEF UpTo
  <1>11. \A a, b \in L \cup {r} : Before(tr, a, b) => UpTo(tr, nx1[a], b)
    <2> SUFFICES ASSUME NEW a \in L \cup {r}, NEW b \in L \cup {r}, Before(tr, a, b)
                 PROVE  UpTo(tr, nx1[a], b)
      OBVIOUS
    <2>1. CASE a = r
      <3>1. b \in L /\ Before(tr, r, b)
        BY <1>0, <2>1, BeforeOrder
      <3>2. ~Before(tr, b, r)
        BY <1>0, <3>1, BeforeOrder
      <3>3. at # Head0 /\ ~Before(tr, b, at)
        BY <3>1, <3>2
      <3>4. at = b \/ Before(tr, at, b)
        BY <1>0, <3>1, <3>3, BeforeOrder
      <3> QED
        BY <1>2, <2>1, <3>3, <3>4 DEF UpTo
    <2>2. CASE a = p /\ a # r
      <3>1. nx1[a] = r
        BY <1>2, <2>2
      <3>2. CASE b = r
        BY <1>0, <3>1, <3>2 DEF UpTo
      <3>3. CASE b # r
        <4>1. b \in L /\ UpTo(tr, at, b)
          BY <1>1, <1>5, <2>2, <3>3
        <4> QED
          BY <1>10, <3>1, <4>1
      <3> QED
        BY <3>2, <3>3
    <2>3. CASE a # p /\ a # r
      <3>1. nx1[a] = nx[a] /\ a \in L
        BY <1>2, <1>6, <2>3
      <3>2. CASE b = r
        BY <1>9, <2>3, <3>1, <3>2
      <3>3. CASE b # r
        BY <1>5, <3>1, <3>3
      <3> QED
        BY <3>2, <3>3
    <2> QED
      BY <2>1, <2>2, <2>3
  <1>12. ASSUME NEW b \in L \cup {r}
         PROVE  UpTo(tr, nx1[Head0], b)
    <2>1. CASE p = Head0
      <3>1. nx1[Head0] = r
        BY <1>2, <2>1
      <3>2. CASE b = r
        BY <1>0, <3>1, <3>2 DEF UpTo
      <3>3. CASE b # r
        BY <1>1, <1>5, <1>10, <2>1, <3>1, <3>3
      <3> QED
        BY <3>2, <3>3
    <2>2. CASE p # Head0
      <3>1. nx1[Head0] = nx[Head0] /\ Head0 \in R
        BY <1>0, <1>2, <2>2
      <3>2. CASE b = r
        BY <1>9, <2>2, <3>1, <3>2
      <3>3. CASE b # r
        BY <1>5, <3>1, <3>3
      <3> QED
        BY <3>2, <3>3
    <2> QED
      BY <2>1, <2>2
  <1>13. (L \cup {r}) \cup {Head0} = R \cup {r}
    OBVIOUS
  <1>14. Ordered(L \cup {r}, nx1, pv1, tr)
    BY <1>7, <1>8, <1>11, <1>12, <1>13 DEF Ordered
  <1> QED
    BY <1>14 DEF nx1, pv1, p

\* A reminder taken off the list.
LEMMA DeleteOrdered ==
  ASSUME NEW L \in SUBSET Reminders, NEW nx \in [Nodes -> Nodes], NEW pv \in [Nodes -> Nodes],
         NEW tr \in [Reminders -> Int], Ordered(L, nx, pv, tr), NEW d \in L
  PROVE  Ordered(L \ {d}, [nx EXCEPT ![pv[d]] = nx[d]], [pv EXCEPT ![nx[d]] = pv[d]], tr)
  <1> DEFINE p == pv[d]
             q == nx[d]
             nx1 == [nx EXCEPT ![p] = q]
             pv1 == [pv EXCEPT ![q] = p]
             R == L \cup {Head0}
  <1>0. Head0 \notin Reminders /\ L \subseteq Reminders /\ Nodes = Reminders \cup {Head0}
    BY ReminderAssumption DEF Head0, Reminders, Nodes
  <1>3. \A n \in R : nx[n] \in R /\ pv[nx[n]] = n /\ pv[n] \in R /\ nx[pv[n]] = n
    BY DEF Ordered
  <1>4. \A a \in L : nx[a] # Head0 => Before(tr, a, nx[a])
    BY DEF Ordered
  <1>5. /\ \A a, b \in L : Before(tr, a, b) => UpTo(tr, nx[a], b)
        /\ \A b \in L : UpTo(tr, nx[Head0], b)
    BY DEF Ordered
  <1>6. R \subseteq Nodes /\ d \in R /\ d # Head0
    BY <1>0
  <1>1. p \in R /\ q \in R /\ nx[p] = d /\ pv[q] = d
    BY <1>3, <1>6
  <1>2. q # d /\ p # d
    <2>1. q # d
      BY <1>0, <1>4, <1>6, BeforeOrder
    <2> QED
      BY <1>1, <2>1
  <1>7. /\ nx1[p] = q /\ \A n \in Nodes \ {p} : nx1[n] = nx[n]
        /\ pv1[q] = p /\ \A n \in Nodes \ {q} : pv1[n] = pv[n]
    BY <1>1, <1>6
  <1> HIDE DEF p, q, nx1, pv1
  <1>8. \A n \in R \ {d} : /\ nx1[n] \in R \ {d} /\ pv1[nx1[n]] = n
                           /\ pv1[n] \in R \ {d} /\ nx1[pv1[n]] = n
    <2>1. ASSUME NEW n \in R \ {d}
          PROVE  nx1[n] \in R \ {d} /\ pv1[nx1[n]] = n
      <3>1. CASE n = p
        BY <1>1, <1>2, <1>7, <3>1
      <3>2. CASE n # p
        <4>1. nx1[n] = nx[n] /\ nx[n] \in R /\ pv[nx[n]] = n
          BY <1>3, <1>6, <1>7, <3>2
        <4>2. nx[n] # d /\ nx[n] # q
          BY <1>1, <2>1, <3>2, <4>1 DEF p
        <4> QED
          BY <1>6, <1>7, <4>1, <4>2
      <3> QED
        BY <3>1, <3>2
    <2>2. ASSUME NEW n \in R \ {d}
          PROVE  pv1[n] \in R \ {d} /\ nx1[pv1[n]] = n
      <3>1. CASE n = q
        BY <1>1, <1>2, <1>7, <3>1
      <3>2. CASE n # q
        <4>1. pv1[n] = pv[n] /\ pv[n] \in R /\ nx[pv[n]] = n
          BY <1>3, <1>6, <1>7, <3>2
        <4>2. pv[n] # d /\ pv[n] # p
          BY <1>1, <2>2, <3>2, <4>1 DEF q
        <4> QED
          BY <1>6, <1>7, <4>1, <4>2
      <3> QED
        BY <3>1, <3>2
    <2> QED
      BY <2>1, <2>2
  <1>9. ASSUME NEW a \in L \ {d}, nx1[a] # Head0
        PROVE  Before(tr, a, nx1[a])
    <2>1. CASE a = p
      <3>1. q \in L /\ Before(tr, p, d) /\ Before(tr, d, q)
        BY <1>1, <1>4, <1>6, <1>7, <1>9, <2>1 DEF q
      <3> QED
        BY <1>0, <1>7, <2>1, <3>1, BeforeOrder
    <2>2. CASE a # p
      BY <1>4, <1>6, <1>7, <1>9, <2>2
    <2> QED
      BY <2>1, <2>2
  <1>10. ASSUME NEW b \in L \ {d}, UpTo(tr, d, b)
         PROVE  UpTo(tr, q, b)
    BY <1>5, <1>10 DEF UpTo, q
  <1>11. \A a, b \in L \ {d} : Before(tr, a, b) => UpTo(tr, nx1[a], b)
    BY <1>1, <1>5, <1>6, <1>7, <1>10
  <1>12. \A b \in L \ {d} : UpTo(tr, nx1[Head0], b)
    BY <1>1, <1>5, <1>6, <1>7, <1>10
  <1>13. (L \ {d}) \cup {Head0} = R \ {d}
    BY <1>6
  <1>14. Ordered(L \ {d}, nx1, pv1, tr)
    BY <1>8, <1>9, <1>11, <1>12, <1>13 DEF Ordered
  <1> QED
    BY <1>14 DEF nx1, pv1, p, q

\* The number a store takes is the first that is unused.
LEMMA NextNumber ==
  ASSUME Numbered, NEW r \in Reminders,
         r = Cardinality({q \in Reminders : mem[q] # "unused"}) + 1
  PROVE  \A e \in Reminders : mem[e] # "unused" <=> e < r
  <1> DEFINE Used == {q \in Reminders : mem[q] # "unused"}
  <1>1. r \in Nat /\ r >= 1 /\ r - 1 \in Nat /\ MaxReminders \in Nat
    BY ReminderAssumption DEF Reminders
  <1>2. IsFiniteSet(Used) /\ Cardinality(Used) = r - 1
    <2>1. IsFiniteSet(Reminders)
      BY <1>1, FS_Interval DEF Reminders
    <2>2. IsFiniteSet(Used)
      BY <2>1, FS_Subset
    <2>3. Cardinality(Used) \in Nat
      BY <2>2, FS_CardinalityType
    <2> QED
      BY <1>1, <2>2, <2>3
  <1>3. \A k \in Nat : IsFiniteSet(1..k) /\ Cardinality(1..k) = k
    BY FS_Interval
  <1>4. r \notin Used
    <2> SUFFICES ASSUME r \in Used PROVE FALSE
      OBVIOUS
    <2>1. 1..r \in SUBSET Used
      BY <1>1 DEF Numbered, Reminders
    <2>2. Cardinality(1..r) <= Cardinality(Used)
      BY <1>2, <2>1, FS_Subset
    <2> QED
      BY <1>1, <1>2, <1>3, <2>2
  <1>5. Used \in SUBSET (1..(r - 1))
    BY <1>1, <1>4 DEF Numbered, Reminders
  <1>6. Used = 1..(r - 1)
    BY <1>1, <1>2, <1>3, <1>5, FS_Subset
  <1>7. \A e \in Reminders : e \in Used <=> e \in 1..(r - 1)
    BY <1>6
  <1>8. \A e \in Reminders : e \in 1..(r - 1) <=> e < r
    BY <1>1 DEF Reminders
  <1> QED
    BY <1>7, <1>8

\* The order does not look at the trigger times of reminders that are not on the list.
LEMMA OrderedSame ==
  ASSUME NEW L \in SUBSET Reminders, NEW nx, NEW pv, NEW tr, NEW tr1,
         \A e \in L : tr1[e] = tr[e], Ordered(L, nx, pv, tr)
  PROVE  Ordered(L, nx, pv, tr1)
  <1>1. /\ \A a, b \in L : Before(tr1, a, b) <=> Before(tr, a, b)
        /\ \A a, b \in L : UpTo(tr1, a, b) <=> UpTo(tr, a, b)
    BY DEF Before, UpTo
  <1>2. \A b \in L : UpTo(tr1, Head0, b) <=> UpTo(tr, Head0, b)
    BY DEF UpTo
  <1>3. \A a \in L \cup {Head0} : nx[a] \in L \cup {Head0}
    BY DEF Ordered
  <1> QED
    BY <1>1, <1>2, <1>3 DEF Ordered

\* A cursor that moves on to the next node leaves what is behind it.
LEMMA CursorMoves ==
  ASSUME NEW L \in SUBSET Reminders, NEW nx, NEW pv, NEW tr, Ordered(L, nx, pv, tr),
         NEW at \in L \cup {Head0}
  PROVE  /\ nx[at] \in L \cup {Head0}
         /\ at # Head0 /\ nx[at] # Head0 => Before(tr, at, nx[at])
         /\ \A r \in L : UpTo(tr, at, r) => at # Head0 /\ (r = at \/ UpTo(tr, nx[at], r))
  <1>1. Head0 \notin L
    BY ReminderAssumption DEF Head0, Reminders
  <1> QED
    BY <1>1 DEF Ordered, UpTo

-----------------------------------------------------------------------------
(* Steps that leave the list and the stores alone                            *)

\* No node of the list is freed.
LEMMA RingLive ==
  ASSUME TypeInv, ListInv, Good
  PROVE  /\ \A n \in Ring : ~Freed(n) /\ nxt[n] \in Ring /\ prv[n] \in Ring
         /\ Linked \subseteq Reminders
  BY DEF ListInv, Ordered, Ring, Linked, Listed, Freed

\* Nothing that the list and the stores are made of changes.
LEMMA ListKept ==
  ASSUME NumberInv, ListInv, StoreInv, ~faulted,
         UNCHANGED <<nxt, prv, mem, trigger, wpc, wnode, wit, wprev, clash>>
  PROVE  /\ Linked' = Linked /\ Ring' = Ring
         /\ NumberInv' /\ ListInv' /\ StoreInv'
         /\ Good' => Good
  <1>1. /\ Linked' = Linked /\ Ring' = Ring
    BY DEF Linked, Ring, Listed, Storing
  <1>2. Good' => Good
    BY DEF Good
  <1>3. NumberInv'
    BY <1>2 DEF NumberInv, Numbered
  <1>4. ListInv'
    BY <1>1, <1>2 DEF ListInv, Ordered
  <1>5. StoreInv'
    BY <1>1, <1>2 DEF StoreInv, Storing, Before
  <1> QED
    BY <1>1, <1>2, <1>3, <1>4, <1>5

\* The list may have grown, and reminders that were not used yet have been filled.
ListGrown ==
  /\ ~faulted /\ (clash => clash')
  /\ ~clash' => /\ Linked \subseteq Linked'
                /\ \A r \in Reminders : mem[r] # "unused" =>
                     /\ trigger'[r] = trigger[r] /\ mem'[r] # "unused"
                     /\ mem[r] = "freed" => mem'[r] = "freed"

\* Then a loop that deletes has before it what it had.
LEMMA TimerKept ==
  ASSUME TypeInv, TimerInv, ListGrown, now' \in Int, now' >= now,
         UNCHANGED <<tpc, ti, tn, passDue, fired>>
  PROVE  TimerInv'
  <1>1. ASSUME ~clash'
        PROVE  \A r \in Linked : r \in Reminders /\ trigger'[r] = trigger[r] /\ r \in Linked'
    BY <1>1 DEF ListGrown, Linked, Listed
  <1>2. Good' => \A r \in passDue' : trigger'[r] <= now' /\ mem'[r] # "unused"
    BY DEF ListGrown, TimerInv, TypeInv, Good
  <1>3. ASSUME Good', tpc' = "test"
        PROVE  /\ Cursors(ti, tn)'
               /\ \A r \in passDue' : r \in Ahead(ti, tn)' \/ \E k \in DOMAIN fired' : fired'[k] = r
    <2>1. Cursors(ti, tn)
          /\ \A r \in passDue : r \in Ahead(ti, tn) \/ \E k \in DOMAIN fired : fired[k] = r
      BY <1>3 DEF ListGrown, TimerInv, Good
    <2>2. Cursors(ti, tn)'
      BY <1>1, <1>3, <2>1 DEF Cursors, Ring, Before, Good
    <2>3. \A r \in Ahead(ti, tn) : r \in Ahead(ti, tn)'
      BY <1>1, <1>3, <2>1 DEF Good, Cursors, Ahead, Ring, Before, UpTo
    <2> QED
      BY <2>1, <2>2, <2>3
  <1>4. PassFiresAllDue'
    BY DEF ListGrown, TimerInv, PassFiresAllDue, Good
  <1> QED
    BY <1>2, <1>3, <1>4 DEF TimerInv

\* A step that leaves the list and the exit's cursors alone keeps what is said of the exit.
LEMMA ExitKept ==
  ASSUME TypeInv, ExitInv, ListGrown, UNCHANGED <<ei, en, atExit>>,
         exitPc' = exitPc \/ {exitPc, exitPc'} \subseteq {"drain", "unloaded"}
  PROVE  ExitInv'
  <1>1. ASSUME ~clash'
        PROVE  \A r \in Linked : r \in Reminders /\ trigger'[r] = trigger[r] /\ r \in Linked'
    BY <1>1 DEF ListGrown, Linked, Listed
  <1>2. ~clash' => \A r \in Reminders : mem[r] = "freed" => mem'[r] = "freed"
    BY DEF ListGrown
  <1>3. ASSUME Good', exitPc' = "free"
        PROVE  /\ Cursors(ei, en)'
               /\ \A r \in atExit' : r \in Ahead(ei, en)' \/ mem'[r] = "freed"
    <2>1. exitPc = "free"
      BY <1>3
    <2>2. /\ Cursors(ei, en)
          /\ \A r \in atExit : r \in Ahead(ei, en) \/ mem[r] = "freed"
      BY <1>3, <2>1 DEF ListGrown, ExitInv, Good
    <2>3. Cursors(ei, en)'
      BY <1>1, <1>3, <2>2 DEF Cursors, Ring, Before, Good
    <2>4. \A r \in Ahead(ei, en) : r \in Ahead(ei, en)'
      BY <1>1, <1>3, <2>2 DEF Good, Cursors, Ahead, Ring, Before, UpTo
    <2> QED
      BY <1>2, <1>3, <2>2, <2>3, <2>4 DEF TypeInv, Good
  <1>4. ExitFreesAll'
    <2> SUFFICES ASSUME exitPc' \in {"drain", "unloaded"}, ~clash'
                 PROVE  \A r \in atExit' : mem'[r] = "freed"
      BY DEF ExitFreesAll
    <2> QED
      BY <1>2 DEF ListGrown, ExitInv, ExitFreesAll, Good, TypeInv
  <1> QED
    BY <1>3, <1>4 DEF ExitInv

\* Readers stay on the list while nothing is freed, and the step meets nothing freed.
LEMMA ReadersKept ==
  ASSUME ReaderInv, ListGrown, UNCHANGED <<rpc, rit>>, readClash => readClash',
         Good => ~faulted', clash \/ readClash => clash' \/ readClash'
  PROVE  ReaderInv'
  <1>1. ~clash' => Ring \subseteq Ring'
    BY DEF ListGrown, Ring
  <1>2. Good' /\ ~readClash' => \A q \in Readers : rpc'[q] = "walk" => rit'[q] \in Ring'
    BY <1>1 DEF ListGrown, ReaderInv, Good
  <1>3. FaultNeedsClash'
    BY DEF ListGrown, FaultNeedsClash, Good
  <1> QED
    BY <1>2, <1>3 DEF ReaderInv

-----------------------------------------------------------------------------
(* recorder_store                                                            *)

\* A new reminder is behind all others of its time, and not on the list yet.
LEMMA StoreBeginKeeps ==
  ASSUME IInv, ~faulted, NEW w \in Writers, StoreBegin(w)
  PROVE  IInv'
  <1>1. PICK r \in Reminders, t \in Delays :
          /\ r = Cardinality({q \in Reminders : mem[q] # "unused"}) + 1
          /\ mem' = [mem EXCEPT ![r] = "live"]
          /\ trigger' = [trigger EXCEPT ![r] = TriggerTime(t)]
          /\ wnode' = [wnode EXCEPT ![w] = r]
    BY DEF StoreBegin
  <1>2. /\ wpc[w] = "idle" /\ wpc' = [wpc EXCEPT ![w] = "walk"]
        /\ wit' = [wit EXCEPT ![w] = nxt[Head0]]
        /\ UNCHANGED <<now, nxt, prv, tpc, ti, tn, passDue, fired, wprev, rpc, rit,
                       exitPc, ei, en, atExit, clash, readClash, faulted>>
    BY DEF StoreBegin, timerVars, readVars, exitVars
  <1>3. TypeInv /\ NumberInv
    BY DEF IInv
  <1>4. Good => mem[r] = "unused" /\ \A e \in Reminders : mem[e] # "unused" <=> e < r
    <2>1. Good => \A e \in Reminders : mem[e] # "unused" <=> e < r
      BY <1>1, <1>3, NextNumber DEF NumberInv
    <2> QED
      BY <2>1, ReminderAssumption DEF Reminders
  <1>5. Head0 \notin Reminders /\ Head0 \in Nodes /\ Reminders \subseteq Nodes
    BY ReminderAssumption DEF Head0, Nodes, Reminders
  <1>6. /\ mem'[r] = "live" /\ \A e \in Reminders \ {r} : mem'[e] = mem[e]
        /\ \A e \in Reminders \ {r} : trigger'[e] = trigger[e]
        /\ wnode'[w] = r /\ wit'[w] = nxt[Head0] /\ wpc'[w] = "walk"
        /\ \A v \in Writers \ {w} : wnode'[v] = wnode[v] /\ wit'[v] = wit[v] /\ wpc'[v] = wpc[v]
    BY <1>1, <1>2, <1>3 DEF TypeInv
  <1>7. TriggerTime(t) \in Int
    BY <1>3, ReminderAssumption DEF TriggerTime, TypeInv
  <1>8. TypeInv'
    BY <1>1, <1>2, <1>3, <1>5, <1>7 DEF TypeInv
  <1>9. NumberInv' /\ (Good' => Good)
    BY <1>2, <1>4, <1>6 DEF NumberInv, Numbered, Reminders, Good
  <1>10. Good => Linked' = Linked /\ r \notin Linked /\ Linked \subseteq Reminders
    BY <1>2, <1>4, <1>6 DEF Linked, Listed, Storing
  <1>11. Good => \A e \in Linked : trigger'[e] = trigger[e]
    BY <1>6, <1>10
  <1>12. ListInv'
    <2>1. Good' => Ordered(Linked, nxt, prv, trigger)
      BY <1>2 DEF IInv, ListInv, Good
    <2>2. Good' => Ordered(Linked, nxt, prv, trigger')
      BY <1>9, <1>10, <1>11, <2>1, OrderedSame
    <2> QED
      BY <1>2, <1>9, <1>10, <2>2 DEF ListInv
  <1>13. StoreInv'
    <2> SUFFICES ASSUME Good', NEW v \in Writers, Storing(v)'
                 PROVE  /\ wpc'[v] # "null" /\ wnode'[v] \in Reminders /\ mem'[wnode'[v]] = "live"
                        /\ \A u \in Writers : Storing(u)' /\ wnode'[u] = wnode'[v] => u = v
                        /\ \A e \in Linked : e < wnode'[v]
                        /\ wit'[v] \in Ring
                        /\ \A e \in Linked : wit'[v] = Head0 \/ Before(trigger', e, wit'[v]) =>
                             trigger'[e] <= trigger'[wnode'[v]]
                        /\ wpc'[v] # "walk" =>
                             wit'[v] = Head0 \/ trigger'[wit'[v]] > trigger'[wnode'[v]]
                        /\ wpc'[v] = "link" => wprev'[v] = prv'[wit'[v]]
      BY <1>9, <1>10 DEF StoreInv, Ring
    <2>1. Good /\ StoreInv /\ Ordered(Linked, nxt, prv, trigger)
      BY <1>2 DEF IInv, ListInv, Good
    <2>2. \A u \in Writers \ {w} : Storing(u)' <=> Storing(u)
      BY <1>6 DEF Storing
    <2>3. \A u \in Writers \ {w} : Storing(u) =>
            wnode[u] \in Reminders /\ mem[wnode[u]] = "live" /\ wnode[u] # r
      BY <1>4, <2>1 DEF StoreInv
    <2>4. CASE v = w
      <3>1. \A e \in Linked : e < r
        BY <2>1, <1>4 DEF Linked, Listed
      <3>2. nxt[Head0] \in Ring
        BY <2>1 DEF Ordered, Ring
      <3>3. \A e \in Linked : ~(nxt[Head0] = Head0 \/ Before(trigger', e, nxt[Head0]))
        <4> SUFFICES ASSUME NEW e \in Linked, nxt[Head0] = Head0 \/ Before(trigger', e, nxt[Head0])
                     PROVE  FALSE
          OBVIOUS
        <4>1. UpTo(trigger, nxt[Head0], e)
          BY <2>1 DEF Ordered
        <4>2. nxt[Head0] \in Linked /\ Before(trigger, e, nxt[Head0])
          BY <2>1, <1>11, <3>2, <4>1 DEF UpTo, Ring, Before
        <4>3. trigger \in [Reminders -> Int] /\ nxt[Head0] \in Reminders /\ e \in Reminders
          BY <2>1, <1>3, <1>10, <4>2 DEF TypeInv
        <4> QED
          BY <4>1, <4>2, <4>3, BeforeOrder DEF UpTo
      <3> QED
        BY <1>6, <2>2, <2>3, <2>4, <3>1, <3>2, <3>3
    <2>5. CASE v # w
      <3>1. Storing(v) /\ wnode'[v] = wnode[v] /\ wit'[v] = wit[v] /\ wpc'[v] = wpc[v]
        BY <1>6, <2>2, <2>5
      <3>2. /\ wpc[v] # "null" /\ wnode[v] \in Reminders /\ mem[wnode[v]] = "live"
            /\ \A u \in Writers : Storing(u) /\ wnode[u] = wnode[v] => u = v
            /\ \A e \in Linked : e < wnode[v]
            /\ wit[v] \in Ring
            /\ \A e \in Linked : wit[v] = Head0 \/ Before(trigger, e, wit[v]) =>
                 trigger[e] <= trigger[wnode[v]]
            /\ wpc[v] # "walk" => wit[v] = Head0 \/ trigger[wit[v]] > trigger[wnode[v]]
            /\ wpc[v] = "link" => wprev[v] = prv[wit[v]]
        BY <2>1, <3>1 DEF StoreInv
      <3>3. wnode[v] # r /\ trigger'[wnode[v]] = trigger[wnode[v]] /\ mem'[wnode[v]] = "live"
        BY <1>6, <2>3, <2>5, <3>1
      <3>4. wit[v] # Head0 => trigger'[wit[v]] = trigger[wit[v]]
        BY <2>1, <1>11, <3>2 DEF Ring
      <3>5. \A e \in Linked : wit[v] = Head0 \/ Before(trigger', e, wit[v]) =>
              trigger'[e] <= trigger'[wnode[v]]
        BY <2>1, <1>11, <3>2, <3>3, <3>4 DEF Before
      <3>6. \A u \in Writers : Storing(u)' /\ wnode'[u] = wnode[v] => u = v
        BY <1>6, <2>2, <3>2, <3>3
      <3> QED
        BY <1>2, <3>1, <3>2, <3>3, <3>4, <3>5, <3>6
    <2> QED
      BY <2>4, <2>5
  <1>14. ListGrown
    BY <1>2, <1>4, <1>6, <1>10 DEF ListGrown, Good
  <1>15. TimerInv' /\ ExitInv' /\ ReaderInv'
    BY <1>2, <1>3, <1>8, <1>14, TimerKept, ExitKept, ReadersKept DEF IInv, TypeInv, Good
  <1> QED
    BY <1>8, <1>9, <1>12, <1>13, <1>15 DEF IInv

\* The line without a message ends the run.
LEMMA StoreNoMessageKeeps ==
  ASSUME IInv, ~faulted, NEW w \in Writers, StoreNoMessage(w)
  PROVE  IInv'
  <1>1. /\ wpc[w] = "idle" /\ wpc' = [wpc EXCEPT ![w] = "null"] /\ faulted' = TRUE
        /\ UNCHANGED <<now, nxt, prv, mem, trigger, tpc, ti, tn, passDue, fired, wnode, wit,
                       wprev, rpc, rit, exitPc, ei, en, atExit, clash, readClash>>
    BY DEF StoreNoMessage, listVars, timerVars, readVars, exitVars
  <1>2. TypeInv' /\ wpc'[w] = "null"
    BY <1>1 DEF IInv, TypeInv
  <1>3. NumberInv'
    BY <1>1 DEF NumberInv, Numbered, Good
  <1>4. ListInv' /\ StoreInv' /\ ReaderInv'
    BY <1>1, <1>2 DEF ListInv, StoreInv, ReaderInv, FaultNeedsClash, Good
  <1>5. TimerInv' /\ ExitInv'
    BY <1>1 DEF IInv, TypeInv, TimerInv, ExitInv, PassFiresAllDue, ExitFreesAll, Good
  <1> QED
    BY <1>2, <1>3, <1>4, <1>5 DEF IInv

\* The walk passes what goes before its reminder and stops at the first that does not.
LEMMA StoreWalkKeeps ==
  ASSUME IInv, ~faulted, NEW w \in Writers, StoreWalk(w)
  PROVE  IInv'
  <1>1. /\ wpc[w] = "walk" /\ faulted' = Freed(wit[w])
        /\ \/ /\ wit[w] = Head0 \/ trigger[wit[w]] > trigger[wnode[w]]
              /\ wpc' = [wpc EXCEPT ![w] = "prev"] /\ wit' = wit
           \/ /\ ~(wit[w] = Head0 \/ trigger[wit[w]] > trigger[wnode[w]])
              /\ wpc' = wpc /\ wit' = [wit EXCEPT ![w] = nxt[wit[w]]]
        /\ UNCHANGED <<now, nxt, prv, mem, trigger, tpc, ti, tn, passDue, fired, wnode,
                       wprev, rpc, rit, exitPc, ei, en, atExit, clash, readClash>>
    BY DEF StoreWalk, GoesBefore, listVars, timerVars, readVars, exitVars
  <1>2. /\ TypeInv /\ ListInv /\ StoreInv
        /\ Good => Ordered(Linked, nxt, prv, trigger)
    BY DEF IInv, ListInv
  <1>3. TypeInv'
    <2>1. wpc' \in [Writers -> {"idle", "walk", "prev", "link", "null"}]
      BY <1>1, <1>2 DEF TypeInv
    <2>2. wit' \in [Writers -> Nodes]
      BY <1>1, <1>2 DEF TypeInv
    <2>3. faulted' \in BOOLEAN
      BY <1>1 DEF Freed
    <2> QED
      BY <1>1, <1>2, <2>1, <2>2, <2>3 DEF TypeInv
  <1>4. NumberInv'
    BY <1>1 DEF IInv, NumberInv, Numbered, Good
  <1>5. \A v \in Writers : Storing(v)' <=> Storing(v)
    BY <1>1, <1>2 DEF Storing, TypeInv
  <1>6. Linked' = Linked /\ Ring' = Ring /\ Linked \subseteq Reminders
    BY <1>1, <1>5 DEF Linked, Listed, Ring
  <1>7. ListGrown
    BY <1>1, <1>6 DEF ListGrown
  <1>8. Good' => Good
    BY <1>1 DEF Good
  <1>9. ListInv'
    BY <1>1, <1>2, <1>6, <1>8 DEF ListInv
  <1>10. Good => ~faulted'
    BY <1>1, <1>2, RingLive DEF StoreInv, Storing
  <1>11. TimerInv' /\ ExitInv' /\ ReaderInv'
    BY <1>1, <1>2, <1>7, <1>10, TimerKept, ExitKept, ReadersKept DEF IInv, TypeInv
  <1>12. StoreInv'
    <2> SUFFICES ASSUME Good', NEW v \in Writers, Storing(v)'
                 PROVE  /\ wpc'[v] # "null" /\ wnode[v] \in Reminders /\ mem[wnode[v]] = "live"
                        /\ \A u \in Writers : Storing(u)' /\ wnode[u] = wnode[v] => u = v
                        /\ \A e \in Linked : e < wnode[v]
                        /\ wit'[v] \in Ring
                        /\ \A e \in Linked : wit'[v] = Head0 \/ Before(trigger, e, wit'[v]) =>
                             trigger[e] <= trigger[wnode[v]]
                        /\ wpc'[v] # "walk" =>
                             wit'[v] = Head0 \/ trigger[wit'[v]] > trigger[wnode[v]]
                        /\ wpc'[v] = "link" => wprev[v] = prv[wit'[v]]
      BY <1>1, <1>6 DEF StoreInv, Before
    <2>1. Good /\ StoreInv /\ Ordered(Linked, nxt, prv, trigger) /\ Storing(v)
      BY <1>2, <1>5, <1>8
    <2>2. /\ wpc[v] # "null" /\ wnode[v] \in Reminders /\ mem[wnode[v]] = "live"
          /\ \A u \in Writers : Storing(u) /\ wnode[u] = wnode[v] => u = v
          /\ \A e \in Linked : e < wnode[v]
          /\ wit[v] \in Ring
          /\ \A e \in Linked : wit[v] = Head0 \/ Before(trigger, e, wit[v]) =>
               trigger[e] <= trigger[wnode[v]]
          /\ wpc[v] # "walk" => wit[v] = Head0 \/ trigger[wit[v]] > trigger[wnode[v]]
          /\ wpc[v] = "link" => wprev[v] = prv[wit[v]]
      BY <2>1 DEF StoreInv
    <2>3. CASE v # w
      BY <1>1, <1>2, <1>5, <2>2, <2>3 DEF TypeInv
    <2>4. CASE v = w /\ wit' = wit
      <3>1. \/ wpc'[v] = "prev" /\ (wit[v] = Head0 \/ trigger[wit[v]] > trigger[wnode[v]])
            \/ wpc'[v] = "walk"
        BY <1>1, <1>2, <2>4 DEF TypeInv
      <3> QED
        BY <1>5, <2>2, <2>4, <3>1
    <2>5. CASE v = w /\ wit' # wit
      <3>1. /\ wit[w] \in Linked /\ ~(trigger[wit[w]] > trigger[wnode[w]])
            /\ wpc'[w] = "walk" /\ wit'[w] = nxt[wit[w]]
        BY <1>1, <1>2, <2>2, <2>5 DEF TypeInv, Ring
      <3>2. nxt[wit[w]] \in Ring
        BY <2>1, <3>1 DEF Ordered, Ring
      <3>3. ASSUME NEW e \in Linked,
                   nxt[wit[w]] = Head0 \/ Before(trigger, e, nxt[wit[w]])
            PROVE  trigger[e] <= trigger[wnode[w]]
        <4>0. trigger \in [Reminders -> Int] /\ wit[w] \in Reminders /\ e \in Reminders
              /\ wnode[w] \in Reminders
          BY <1>2, <1>6, <2>2, <2>5, <3>1 DEF TypeInv
        <4>1. CASE e = wit[w]
          BY <3>1, <4>0, <4>1
        <4>2. CASE Before(trigger, e, wit[w])
          BY <2>2, <2>5, <4>2
        <4>3. CASE Before(trigger, wit[w], e)
          <5>1. UpTo(trigger, nxt[wit[w]], e)
            BY <2>1, <3>1, <4>3 DEF Ordered
          <5>2. nxt[wit[w]] \in Reminders /\ Before(trigger, e, nxt[wit[w]])
            BY <1>6, <3>2, <3>3, <5>1 DEF UpTo, Ring
          <5> QED
            BY <4>0, <5>1, <5>2, BeforeOrder DEF UpTo
        <4> QED
          BY <4>0, <4>1, <4>2, <4>3, BeforeOrder
      <3> QED
        BY <1>5, <2>2, <2>5, <3>1, <3>2, <3>3
    <2> QED
      BY <2>3, <2>4, <2>5
  <1> QED
    BY <1>3, <1>4, <1>9, <1>11, <1>12 DEF IInv

\* With no clash the predecessor is the one behind which the reminder belongs.
LEMMA StorePrevKeeps ==
  ASSUME IInv, ~faulted, NEW w \in Writers, StorePrev(w)
  PROVE  IInv'
  <1>1. /\ wpc[w] = "prev" /\ faulted' = Freed(wit[w])
        /\ wprev' = [wprev EXCEPT ![w] = prv[wit[w]]] /\ wpc' = [wpc EXCEPT ![w] = "link"]
        /\ UNCHANGED <<now, nxt, prv, mem, trigger, tpc, ti, tn, passDue, fired, wnode, wit,
                       rpc, rit, exitPc, ei, en, atExit, clash, readClash>>
    BY DEF StorePrev, listVars, timerVars, readVars, exitVars
  <1>2. /\ TypeInv /\ ListInv /\ StoreInv
        /\ Good => Ordered(Linked, nxt, prv, trigger)
    BY DEF IInv, ListInv
  <1>3. TypeInv'
    <2>1. faulted' \in BOOLEAN
      BY <1>1 DEF Freed
    <2> QED
      BY <1>1, <1>2, <2>1 DEF TypeInv
  <1>4. NumberInv'
    BY <1>1 DEF IInv, NumberInv, Numbered, Good
  <1>5. \A v \in Writers : Storing(v)' <=> Storing(v)
    BY <1>1, <1>2 DEF Storing, TypeInv
  <1>6. Linked' = Linked /\ Ring' = Ring
    BY <1>1, <1>5 DEF Linked, Listed, Ring
  <1>7. ListGrown
    BY <1>1, <1>6 DEF ListGrown
  <1>8. Good' => Good
    BY <1>1 DEF Good
  <1>9. ListInv'
    BY <1>1, <1>2, <1>6, <1>8 DEF ListInv
  <1>10. Good => ~faulted'
    BY <1>1, <1>2, RingLive DEF StoreInv, Storing
  <1>11. TimerInv' /\ ExitInv' /\ ReaderInv'
    BY <1>1, <1>2, <1>7, <1>10, TimerKept, ExitKept, ReadersKept DEF IInv, TypeInv
  <1>12. StoreInv'
    BY <1>1, <1>2, <1>5, <1>6, <1>8 DEF StoreInv, TypeInv, Before, Storing
  <1> QED
    BY <1>3, <1>4, <1>9, <1>11, <1>12 DEF IInv

\* The reminder is linked where the order wants it; who else is storing sees a clash.
LEMMA StoreLinkKeeps ==
  ASSUME IInv, ~faulted, NEW w \in Writers, StoreLink(w)
  PROVE  IInv'
  <1>1. /\ wpc[w] = "link" /\ wpc' = [wpc EXCEPT ![w] = "idle"]
        /\ nxt' = [nxt EXCEPT ![wnode[w]] = wit[w], ![wprev[w]] = wnode[w]]
        /\ prv' = [prv EXCEPT ![wnode[w]] = wprev[w], ![wit[w]] = wnode[w]]
        /\ clash' = (clash \/ \E v \in Writers \ {w} : Storing(v))
        /\ readClash' = (readClash \/ \E q \in Readers : rpc[q] = "walk")
        /\ faulted' = (Freed(wit[w]) \/ Freed(wprev[w]))
        /\ UNCHANGED <<now, mem, trigger, tpc, ti, tn, passDue, fired, wnode, wit, wprev,
                       rpc, rit, exitPc, ei, en, atExit>>
    BY DEF StoreLink, timerVars, readVars, exitVars
  <1>2. /\ TypeInv /\ ListInv /\ StoreInv
        /\ Good => Ordered(Linked, nxt, prv, trigger)
    BY DEF IInv, ListInv
  <1>3. TypeInv'
    <2>1. faulted' \in BOOLEAN /\ clash' \in BOOLEAN /\ readClash' \in BOOLEAN
      BY <1>1 DEF Freed
    <2> QED
      BY <1>1, <1>2, <2>1 DEF TypeInv
  <1>4. NumberInv'
    BY <1>1 DEF IInv, NumberInv, Numbered, Good
  <1>5. /\ \A v \in Writers \ {w} : Storing(v)' <=> Storing(v)
        /\ Storing(w) /\ ~Storing(w)'
    BY <1>1, <1>2 DEF Storing, TypeInv
  <1>6. Linked \subseteq Linked' /\ Linked \subseteq Reminders
    BY <1>1, <1>5 DEF Linked, Listed
  <1>7. ListGrown
    BY <1>1, <1>6 DEF ListGrown
  <1>8. Good' => Good /\ \A v \in Writers \ {w} : ~Storing(v)
    BY <1>1 DEF Good
  <1>9. ListInv'
    <2> SUFFICES ASSUME Good' PROVE Ordered(Linked', nxt', prv', trigger')
      BY DEF ListInv
    <2>1. Good /\ Ordered(Linked, nxt, prv, trigger) /\ \A v \in Writers \ {w} : ~Storing(v)
      BY <1>2, <1>8
    <2>2. /\ wnode[w] \in Reminders /\ mem[wnode[w]] = "live"
          /\ \A e \in Linked : e < wnode[w]
          /\ wit[w] \in Ring
          /\ \A e \in Linked : wit[w] = Head0 \/ Before(trigger, e, wit[w]) =>
               trigger[e] <= trigger[wnode[w]]
          /\ wit[w] = Head0 \/ trigger[wit[w]] > trigger[wnode[w]]
          /\ wprev[w] = prv[wit[w]]
      BY <1>1, <1>2, <1>5, <2>1 DEF StoreInv
    <2>3. wnode[w] \notin Linked
      BY <1>5 DEF Linked, Listed
    <2>4. Linked' = Linked \cup {wnode[w]}
      BY <1>1, <1>5, <2>1, <2>2 DEF Linked, Listed
    <2>5. nxt \in [Nodes -> Nodes] /\ prv \in [Nodes -> Nodes] /\ trigger \in [Reminders -> Int]
      BY <1>2 DEF TypeInv
    <2>6. \A e \in Linked : wit[w] = Head0 \/ Before(trigger, e, wit[w]) =>
            Before(trigger, e, wnode[w])
      BY <1>6, <2>2, <2>5 DEF Before
    <2>7. wit[w] # Head0 => Before(trigger, wnode[w], wit[w])
      BY <1>6, <2>2, <2>5 DEF Before, Ring
    <2>8. Ordered(Linked \cup {wnode[w]},
                  [nxt EXCEPT ![wnode[w]] = wit[w], ![prv[wit[w]]] = wnode[w]],
                  [prv EXCEPT ![wnode[w]] = prv[wit[w]], ![wit[w]] = wnode[w]], trigger)
      BY <1>6, <2>1, <2>2, <2>3, <2>5, <2>6, <2>7, InsertOrdered DEF Ring
    <2> QED
      BY <1>1, <2>2, <2>4, <2>8
  <1>10. Good => ~faulted'
    BY <1>1, <1>2, <1>5, RingLive DEF StoreInv
  <1>11. TimerInv' /\ ExitInv'
    BY <1>1, <1>2, <1>7, TimerKept, ExitKept DEF IInv, TypeInv
  <1>12. ReaderInv'
    BY <1>1, <1>7, <1>10, ReadersKept DEF IInv
  <1>13. StoreInv'
    BY <1>5, <1>8 DEF StoreInv
  <1> QED
    BY <1>3, <1>4, <1>9, <1>11, <1>12, <1>13 DEF IInv

-----------------------------------------------------------------------------
(* The loops that free reminders                                             *)

\* A reminder is taken off the list: with no store under way the order stays, and a loop
\* whose first cursor was on it goes on with all that was behind it.
LEMMA DeleteKeeps ==
  ASSUME TypeInv, NumberInv, ListInv, ReaderInv, ~faulted, NEW d \in Nodes, NEW second,
         Delete(d, second), d # Head0,
         Good => d \in Linked /\ second \in Ring /\ second # d,
         UNCHANGED <<now, trigger, wpc, wnode, wit, wprev, rpc, rit>>
  PROVE  /\ NumberInv' /\ ListInv' /\ StoreInv' /\ ReaderInv'
         /\ nxt' \in [Nodes -> Nodes] /\ prv' \in [Nodes -> Nodes]
         /\ mem' = [mem EXCEPT ![d] = "freed"]
         /\ mem' \in [Reminders -> {"unused", "live", "freed"}]
         /\ clash' \in BOOLEAN /\ readClash' \in BOOLEAN /\ faulted' \in BOOLEAN
         /\ clash => clash'
         /\ Good' => /\ Good /\ Linked' = Linked \ {d}
                     /\ Ordered(Linked', nxt', prv', trigger)
  <1>1. /\ nxt' = [nxt EXCEPT ![prv[d]] = nxt[d]]
        /\ prv' = [prv EXCEPT ![nxt[d]] = prv[d]]
        /\ mem' = [mem EXCEPT ![d] = "freed"]
        /\ clash' = (clash \/ \E w \in Writers : Storing(w))
        /\ readClash' = (readClash \/ \E q \in Readers : rpc[q] = "walk")
        /\ faulted' = (Freed(d) \/ Freed(prv[d]) \/ Freed(nxt[d]) \/ Freed(second) \/ second = d)
    BY DEF Delete, Unlinked
  <1>2. d \in Reminders
    BY DEF Nodes
  <1>3. clash' \in BOOLEAN /\ readClash' \in BOOLEAN /\ faulted' \in BOOLEAN /\ (clash => clash')
    BY <1>1 DEF Freed
  <1>4. nxt' \in [Nodes -> Nodes] /\ prv' \in [Nodes -> Nodes]
        /\ mem' \in [Reminders -> {"unused", "live", "freed"}]
    BY <1>1 DEF TypeInv
  <1>5. NumberInv'
    <2>1. \A r \in Reminders : mem'[r] # "unused" <=> mem[r] # "unused" \/ r = d
      BY <1>1, <1>2 DEF TypeInv
    <2>2. Good' => Good /\ mem[d] # "unused"
      BY <1>1 DEF Good, Linked, Listed
    <2> QED
      BY <1>2, <2>1, <2>2 DEF NumberInv, Numbered
  <1>6. Good' => Good /\ \A w \in Writers : ~Storing(w) /\ ~Storing(w)'
    BY <1>1 DEF Good, Storing
  <1>7. StoreInv'
    BY <1>6 DEF StoreInv
  <1>8. ASSUME Good'
        PROVE  Linked' = Linked \ {d} /\ Ordered(Linked', nxt', prv', trigger)
    <2>1. d \in Linked /\ Ordered(Linked, nxt, prv, trigger) /\ Linked \in SUBSET Reminders
      BY <1>6, <1>8 DEF ListInv, Linked
    <2>2. Linked' = Linked \ {d}
      BY <1>1, <1>2, <1>6, <1>8 DEF Linked, Listed, TypeInv
    <2>3. Ordered(Linked \ {d}, nxt', prv', trigger)
      BY <1>1, <2>1, DeleteOrdered DEF TypeInv
    <2> QED
      BY <2>2, <2>3
  <1>9. ListInv'
    BY <1>8 DEF ListInv
  <1>10. Good => ~faulted'
    BY <1>1, RingLive DEF Ring
  <1>11. ReaderInv'
    <2>1. Good' /\ ~readClash' => \A q \in Readers : rpc'[q] # "walk"
      BY <1>1
    <2>2. FaultNeedsClash'
      BY <1>1, <1>10 DEF ReaderInv, FaultNeedsClash, Good
    <2> QED
      BY <2>1, <2>2 DEF ReaderInv
  <1> QED
    BY <1>1, <1>3, <1>4, <1>5, <1>6, <1>7, <1>8, <1>9, <1>11

\* The callback frees the reminder it stands on and goes on with all that is behind it.
LEMMA TimerFireKeeps ==
  ASSUME IInv, ~faulted, TimerFire
  PROVE  IInv'
  <1>1. /\ tpc = "test" /\ ti # Head0 /\ fired' = Append(fired, ti)
        /\ Delete(ti, tn) /\ ti' = tn /\ tn' = nxt'[tn]
        /\ UNCHANGED <<now, tpc, passDue, wpc, wnode, wit, wprev, trigger, rpc, rit,
                       exitPc, ei, en, atExit>>
    BY DEF TimerFire, storeVars, readVars, exitVars
  <1>2. TypeInv /\ NumberInv /\ ListInv /\ ReaderInv /\ TimerInv /\ ExitInv
    BY DEF IInv
  <1>3. Good => /\ Cursors(ti, tn)
                /\ \A r \in passDue : r \in Ahead(ti, tn) \/ \E k \in DOMAIN fired : fired[k] = r
    BY <1>1, <1>2 DEF TimerInv
  <1>5. ti \in Nodes /\ ti \in Reminders /\ tn \in Nodes /\ trigger \in [Reminders -> Int]
    BY <1>1, <1>2 DEF TypeInv, Nodes
  <1>4. Good => ti \in Linked /\ tn \in Ring /\ tn # ti
    BY <1>1, <1>3, <1>5, BeforeOrder DEF Cursors, Ring
  <1>6. /\ NumberInv' /\ ListInv' /\ StoreInv' /\ ReaderInv'
        /\ nxt' \in [Nodes -> Nodes] /\ prv' \in [Nodes -> Nodes]
        /\ mem' = [mem EXCEPT ![ti] = "freed"]
        /\ mem' \in [Reminders -> {"unused", "live", "freed"}]
        /\ clash' \in BOOLEAN /\ readClash' \in BOOLEAN /\ faulted' \in BOOLEAN
        /\ clash => clash'
        /\ Good' => /\ Good /\ Linked' = Linked \ {ti}
                    /\ Ordered(Linked', nxt', prv', trigger)
    BY <1>1, <1>2, <1>4, <1>5, DeleteKeeps
  <1>7. fired' \in Seq(Reminders) /\ DOMAIN fired' = DOMAIN fired \cup {Len(fired) + 1}
        /\ fired'[Len(fired) + 1] = ti /\ \A k \in DOMAIN fired : fired'[k] = fired[k]
    BY <1>1, <1>2, <1>5 DEF TypeInv
  <1>8. TypeInv'
    BY <1>1, <1>2, <1>5, <1>6, <1>7 DEF TypeInv
  <1>9. TimerInv'
    <2>1. Good' => \A r \in passDue : trigger[r] <= now /\ mem'[r] # "unused"
      BY <1>2, <1>5, <1>6 DEF TimerInv, TypeInv
    <2>2. ASSUME Good'
          PROVE  /\ Cursors(ti, tn)'
                 /\ \A r \in passDue : r \in Ahead(ti, tn)' \/ \E k \in DOMAIN fired' : fired'[k] = r
      <3>1. Good /\ Linked' = Linked \ {ti} /\ Ordered(Linked', nxt', prv', trigger)
            /\ Linked' \in SUBSET Reminders
        BY <1>6, <2>2 DEF Linked
      <3>2. Cursors(ti, tn) /\ tn # ti
        BY <1>3, <1>4, <3>1
      <3>3. tn \in Linked' \cup {Head0}
        BY <3>1, <3>2 DEF Cursors, Ring
      <3>4. /\ nxt'[tn] \in Linked' \cup {Head0}
            /\ tn # Head0 /\ nxt'[tn] # Head0 => Before(trigger, tn, nxt'[tn])
            /\ \A r \in Linked' : UpTo(trigger, tn, r) =>
                 tn # Head0 /\ (r = tn \/ UpTo(trigger, nxt'[tn], r))
        BY <3>1, <3>3, CursorMoves
      <3>5. Cursors(ti, tn)'
        BY <1>1, <3>3, <3>4 DEF Cursors, Ring
      <3>6. ASSUME NEW r \in passDue
            PROVE  r \in Ahead(ti, tn)' \/ \E k \in DOMAIN fired' : fired'[k] = r
        <4>1. CASE \E k \in DOMAIN fired : fired[k] = r
          BY <1>7, <4>1
        <4>2. CASE r = ti
          BY <1>7, <4>2
        <4>3. CASE r \in Ahead(ti, tn) /\ r # ti
          <5>1. r \in Linked' /\ UpTo(trigger, tn, r)
            BY <3>1, <4>3 DEF Ahead
          <5>2. tn # Head0 /\ (r = tn \/ UpTo(trigger, nxt'[tn], r))
            BY <3>4, <5>1
          <5>3. r \in Ahead(ti, tn)'
            BY <1>1, <5>1, <5>2 DEF Ahead
          <5> QED
            BY <5>3
        <4> QED
          BY <1>3, <3>1, <4>1, <4>2, <4>3
      <3> QED
        BY <3>5, <3>6
    <2>3. PassFiresAllDue'
      BY <1>1 DEF PassFiresAllDue
    <2> QED
      BY <1>1, <2>1, <2>2, <2>3 DEF TimerInv
  <1>10. ExitInv'
    <2>1. exitPc = "loaded"
      BY <1>1, <1>2 DEF TypeInv
    <2> QED
      BY <1>1, <2>1 DEF ExitInv, ExitFreesAll
  <1> QED
    BY <1>6, <1>8, <1>9, <1>10 DEF IInv

\* So does the loop of the exit.
LEMMA ExitFreeKeeps ==
  ASSUME IInv, ~faulted, ExitFree
  PROVE  IInv'
  <1>1. /\ exitPc = "free" /\ ei # Head0
        /\ Delete(ei, en) /\ ei' = en /\ en' = nxt'[en]
        /\ UNCHANGED <<now, exitPc, atExit, tpc, ti, tn, passDue, fired, wpc, wnode, wit, wprev,
                       trigger, rpc, rit>>
    BY DEF ExitFree, ExitDone, timerVars, storeVars, readVars
  <1>2. TypeInv /\ NumberInv /\ ListInv /\ ReaderInv /\ TimerInv /\ ExitInv
    BY DEF IInv
  <1>3. Good => /\ Cursors(ei, en)
                /\ \A r \in atExit : r \in Ahead(ei, en) \/ mem[r] = "freed"
    BY <1>1, <1>2 DEF ExitInv
  <1>5. ei \in Nodes /\ ei \in Reminders /\ en \in Nodes /\ trigger \in [Reminders -> Int]
    BY <1>1, <1>2 DEF TypeInv, Nodes
  <1>4. Good => ei \in Linked /\ en \in Ring /\ en # ei
    BY <1>1, <1>3, <1>5, BeforeOrder DEF Cursors, Ring
  <1>6. /\ NumberInv' /\ ListInv' /\ StoreInv' /\ ReaderInv'
        /\ nxt' \in [Nodes -> Nodes] /\ prv' \in [Nodes -> Nodes]
        /\ mem' = [mem EXCEPT ![ei] = "freed"]
        /\ mem' \in [Reminders -> {"unused", "live", "freed"}]
        /\ clash' \in BOOLEAN /\ readClash' \in BOOLEAN /\ faulted' \in BOOLEAN
        /\ clash => clash'
        /\ Good' => /\ Good /\ Linked' = Linked \ {ei}
                    /\ Ordered(Linked', nxt', prv', trigger)
    BY <1>1, <1>2, <1>4, <1>5, DeleteKeeps
  <1>8. TypeInv'
    BY <1>1, <1>2, <1>5, <1>6 DEF TypeInv
  <1>9. mem'[ei] = "freed" /\ \A r \in Reminders \ {ei} : mem'[r] = mem[r]
    BY <1>2, <1>5, <1>6 DEF TypeInv
  <1>10. TimerInv'
    <2>1. tpc = "idle"
      BY <1>1, <1>2 DEF TypeInv
    <2>2. Good' => \A r \in passDue : trigger[r] <= now /\ mem'[r] # "unused"
      BY <1>2, <1>6, <1>9 DEF TimerInv, TypeInv
    <2>3. PassFiresAllDue'
      BY <1>1, <1>2, <1>6, <2>1 DEF TimerInv, PassFiresAllDue
    <2> QED
      BY <1>1, <2>1, <2>2, <2>3 DEF TimerInv
  <1>11. ExitInv'
    <2>1. ASSUME Good'
          PROVE  /\ Cursors(ei, en)'
                 /\ \A r \in atExit : r \in Ahead(ei, en)' \/ mem'[r] = "freed"
      <3>1. Good /\ Linked' = Linked \ {ei} /\ Ordered(Linked', nxt', prv', trigger)
            /\ Linked' \in SUBSET Reminders
        BY <1>6, <2>1 DEF Linked
      <3>2. Cursors(ei, en) /\ en # ei
        BY <1>3, <1>4, <3>1
      <3>3. en \in Linked' \cup {Head0}
        BY <3>1, <3>2 DEF Cursors, Ring
      <3>4. /\ nxt'[en] \in Linked' \cup {Head0}
            /\ en # Head0 /\ nxt'[en] # Head0 => Before(trigger, en, nxt'[en])
            /\ \A r \in Linked' : UpTo(trigger, en, r) =>
                 en # Head0 /\ (r = en \/ UpTo(trigger, nxt'[en], r))
        BY <3>1, <3>3, CursorMoves
      <3>5. Cursors(ei, en)'
        BY <1>1, <3>3, <3>4 DEF Cursors, Ring
      <3>6. ASSUME NEW r \in atExit
            PROVE  r \in Ahead(ei, en)' \/ mem'[r] = "freed"
        <4>1. CASE mem[r] = "freed" \/ r = ei
          BY <1>2, <1>9, <4>1 DEF TypeInv
        <4>2. CASE r \in Ahead(ei, en) /\ r # ei
          <5>1. r \in Linked' /\ UpTo(trigger, en, r)
            BY <3>1, <4>2 DEF Ahead
          <5>2. en # Head0 /\ (r = en \/ UpTo(trigger, nxt'[en], r))
            BY <3>4, <5>1
          <5>3. r \in Ahead(ei, en)'
            BY <1>1, <5>1, <5>2 DEF Ahead
          <5> QED
            BY <5>3
        <4> QED
          BY <1>3, <3>1, <4>1, <4>2
      <3> QED
        BY <3>5, <3>6
    <2>2. ExitFreesAll'
      BY <1>1 DEF ExitFreesAll
    <2> QED
      BY <1>1, <2>1, <2>2 DEF ExitInv
  <1> QED
    BY <1>6, <1>8, <1>10, <1>11 DEF IInv

-----------------------------------------------------------------------------
(* The other steps of the callback, the readers and the exit                 *)

\* A pass begins with all that is due ahead of it.
LEMMA TimerBeginKeeps ==
  ASSUME IInv, ~faulted, TimerBegin
  PROVE  IInv'
  <1>1. /\ tpc = "idle" /\ tpc' = "test" /\ exitPc = "loaded"
        /\ ti' = nxt[Head0] /\ tn' = nxt[nxt[Head0]] /\ faulted' = Freed(nxt[Head0])
        /\ passDue' = {r \in Reminders : Listed(r) /\ trigger[r] <= now}
        /\ UNCHANGED <<now, nxt, prv, mem, trigger, fired, wpc, wnode, wit, wprev,
                       rpc, rit, exitPc, ei, en, atExit, clash, readClash>>
    BY DEF TimerBegin, listVars, storeVars, readVars, exitVars
  <1>2. TypeInv /\ NumberInv /\ ListInv /\ StoreInv /\ ReaderInv /\ ExitInv
    BY DEF IInv
  <1>3. /\ Linked' = Linked /\ Ring' = Ring
        /\ NumberInv' /\ ListInv' /\ StoreInv'
        /\ Good' => Good
    BY <1>1, <1>2, ListKept
  <1>4. Head0 \in Nodes /\ Head0 \in Ring /\ Linked \in SUBSET Reminders
    BY DEF Nodes, Ring, Linked
  <1>5. TypeInv'
    <2>1. faulted' \in BOOLEAN
      BY <1>1 DEF Freed
    <2> QED
      BY <1>1, <1>2, <1>4, <2>1 DEF TypeInv
  <1>6. ListGrown
    BY <1>1, <1>3 DEF ListGrown
  <1>7. Good => ~faulted'
    BY <1>1, <1>2, <1>4, RingLive
  <1>8. ReaderInv' /\ ExitInv'
    BY <1>1, <1>2, <1>6, <1>7, ReadersKept, ExitKept
  <1>9. TimerInv'
    <2>1. \A r \in passDue' : trigger'[r] <= now' /\ mem'[r] # "unused" /\ r \in Linked
      BY <1>1 DEF Linked, Listed
    <2>2. ASSUME Good'
          PROVE  /\ Cursors(ti, tn)'
                 /\ \A r \in passDue' : r \in Ahead(ti, tn)'
      <3>1. Ordered(Linked, nxt, prv, trigger)
        BY <1>2, <1>3, <2>2 DEF ListInv
      <3>2. nxt[Head0] \in Ring /\ \A r \in Linked : UpTo(trigger, nxt[Head0], r)
        BY <1>4, <3>1 DEF Ordered, Ring
      <3>3. /\ nxt[nxt[Head0]] \in Ring
            /\ nxt[Head0] # Head0 /\ nxt[nxt[Head0]] # Head0 =>
                 Before(trigger, nxt[Head0], nxt[nxt[Head0]])
            /\ \A r \in Linked : UpTo(trigger, nxt[Head0], r) =>
                 nxt[Head0] # Head0 /\ (r = nxt[Head0] \/ UpTo(trigger, nxt[nxt[Head0]], r))
        BY <1>4, <3>1, <3>2, CursorMoves DEF Ring
      <3>4. Cursors(ti, tn)'
        BY <1>1, <1>3, <3>2, <3>3 DEF Cursors
      <3>5. \A r \in Linked : r \in Ahead(ti, tn)'
        BY <1>1, <1>3, <3>2, <3>3 DEF Ahead
      <3> QED
        BY <2>1, <3>4, <3>5
    <2>3. PassFiresAllDue'
      BY <1>1 DEF PassFiresAllDue
    <2> QED
      BY <2>1, <2>2, <2>3 DEF TimerInv
  <1> QED
    BY <1>3, <1>5, <1>8, <1>9 DEF IInv

\* A pass ends where all ahead of it is not due.
LEMMA TimerEndKeeps ==
  ASSUME IInv, ~faulted, TimerEnd
  PROVE  IInv'
  <1>1. /\ tpc = "test" /\ tpc' = "idle" /\ (ti # Head0 => ~(trigger[ti] <= now))
        /\ faulted' = Freed(ti)
        /\ UNCHANGED <<now, nxt, prv, mem, trigger, ti, tn, passDue, fired, wpc, wnode, wit,
                       wprev, rpc, rit, exitPc, ei, en, atExit, clash, readClash>>
    BY DEF TimerEnd, Due, listVars, storeVars, readVars, exitVars
  <1>2. TypeInv /\ NumberInv /\ ListInv /\ StoreInv /\ ReaderInv /\ ExitInv /\ TimerInv
    BY DEF IInv
  <1>3. /\ Linked' = Linked /\ Ring' = Ring
        /\ NumberInv' /\ ListInv' /\ StoreInv'
        /\ Good' => Good
    BY <1>1, <1>2, ListKept
  <1>4. TypeInv'
    <2>1. faulted' \in BOOLEAN
      BY <1>1 DEF Freed
    <2> QED
      BY <1>1, <1>2, <2>1 DEF TypeInv
  <1>5. ListGrown
    BY <1>1, <1>3 DEF ListGrown
  <1>6. Good => /\ Cursors(ti, tn)
                /\ \A r \in passDue : r \in Ahead(ti, tn) \/ \E k \in DOMAIN fired : fired[k] = r
    BY <1>1, <1>2 DEF TimerInv
  <1>7. Good => ~faulted'
    BY <1>1, <1>2, <1>6, RingLive DEF Cursors
  <1>8. ReaderInv' /\ ExitInv'
    BY <1>1, <1>2, <1>5, <1>7, ReadersKept, ExitKept
  <1>9. ASSUME Good, NEW r \in passDue
        PROVE  r \notin Ahead(ti, tn)
    <2> SUFFICES ASSUME r \in Ahead(ti, tn) PROVE FALSE
      OBVIOUS
    <2>1. r \in Linked /\ ti # Head0 /\ (r = ti \/ UpTo(trigger, tn, r)) /\ trigger[r] <= now
      BY <1>2, <1>9 DEF Ahead, TimerInv
    <2>2. ti \in Linked /\ tn \in Ring
      BY <1>6, <1>9, <2>1 DEF Cursors, Ring
    <2>3. /\ trigger \in [Reminders -> Int] /\ now \in Int
          /\ r \in Reminders /\ ti \in Reminders /\ Linked \subseteq Reminders
      BY <1>2, <2>1, <2>2 DEF TypeInv, Linked
    <2>4. CASE r = ti
      BY <1>1, <2>1, <2>3, <2>4
    <2>5. CASE r # ti
      <3>1. tn \in Linked /\ (r = tn \/ Before(trigger, tn, r)) /\ Before(trigger, ti, tn)
        BY <1>6, <1>9, <2>1, <2>2, <2>5 DEF UpTo, Cursors, Ring
      <3>2. trigger[ti] <= trigger[tn] /\ trigger[tn] <= trigger[r]
        BY <2>3, <3>1 DEF Before
      <3> QED
        BY <1>1, <2>1, <2>3, <3>1, <3>2
    <2> QED
      BY <2>4, <2>5
  <1>10. TimerInv'
    <2>1. Good' => \A r \in passDue : trigger[r] <= now /\ mem[r] # "unused"
      BY <1>2, <1>3 DEF TimerInv
    <2>2. PassFiresAllDue'
      BY <1>1, <1>3, <1>6, <1>9 DEF PassFiresAllDue, Good
    <2> QED
      BY <1>1, <2>1, <2>2 DEF TimerInv
  <1> QED
    BY <1>3, <1>4, <1>8, <1>10 DEF IInv

\* A reader changes nothing but its cursor.
LEMMA ShowKeeps ==
  ASSUME IInv, ~faulted, NEW q \in Readers, ShowBegin(q) \/ ShowStep(q)
  PROVE  IInv'
  <1>1. /\ UNCHANGED <<now, nxt, prv, mem, trigger, tpc, ti, tn, passDue, fired, wpc, wnode, wit,
                       wprev, exitPc, ei, en, atExit, clash, readClash>>
        /\ \/ /\ rpc' = [rpc EXCEPT ![q] = "walk"] /\ rit' = [rit EXCEPT ![q] = nxt[Head0]]
              /\ faulted' = faulted
           \/ /\ rpc[q] = "walk" /\ faulted' = Freed(rit[q])
              /\ \/ rpc' = [rpc EXCEPT ![q] = "idle"] /\ rit' = rit
                 \/ rpc' = rpc /\ rit' = [rit EXCEPT ![q] = nxt[rit[q]]]
    BY DEF ShowBegin, ShowStep, listVars, timerVars, storeVars, exitVars
  <1>2. TypeInv /\ NumberInv /\ ListInv /\ StoreInv /\ ReaderInv /\ ExitInv /\ TimerInv
    BY DEF IInv
  <1>3. /\ Linked' = Linked /\ Ring' = Ring
        /\ NumberInv' /\ ListInv' /\ StoreInv'
        /\ Good' => Good
    BY <1>1, <1>2, ListKept
  <1>4. Head0 \in Nodes /\ Head0 \in Ring
    BY DEF Nodes, Ring
  <1>5. TypeInv'
    <2>1. faulted' \in BOOLEAN
      BY <1>1, <1>2 DEF Freed, TypeInv
    <2>2. rpc' \in [Readers -> {"idle", "walk"}]
      BY <1>1, <1>2 DEF TypeInv
    <2>3. rit' \in [Readers -> Nodes]
      BY <1>1, <1>2, <1>4 DEF TypeInv
    <2> QED
      BY <1>1, <1>2, <2>1, <2>2, <2>3 DEF TypeInv
  <1>6. ListGrown
    BY <1>1, <1>3 DEF ListGrown
  <1>7. TimerInv' /\ ExitInv'
    BY <1>1, <1>2, <1>6, TimerKept, ExitKept DEF TypeInv
  <1>8. ReaderInv'
    <2>1. Good /\ ~readClash => \A p \in Readers : rpc[p] = "walk" => rit[p] \in Ring
      BY <1>2 DEF ReaderInv
    <2>2. Good /\ ~readClash => ~faulted'
      BY <1>1, <1>2, <2>1, RingLive
    <2>3. Good => \A n \in Ring : nxt[n] \in Ring
      BY <1>2, RingLive
    <2>4. Good' /\ ~readClash' => \A p \in Readers : rpc'[p] = "walk" => rit'[p] \in Ring
      BY <1>1, <1>2, <1>3, <1>4, <2>1, <2>3 DEF TypeInv
    <2>5. FaultNeedsClash'
      BY <1>1, <2>2 DEF FaultNeedsClash, Good
    <2> QED
      BY <1>3, <2>4, <2>5 DEF ReaderInv
  <1> QED
    BY <1>3, <1>5, <1>7, <1>8 DEF IInv

\* The exit begins with the whole list ahead of it.
LEMMA ExitBeginKeeps ==
  ASSUME IInv, ~faulted, ExitBegin
  PROVE  IInv'
  <1>1. /\ exitPc = "loaded" /\ tpc = "idle" /\ exitPc' = "free"
        /\ ei' = nxt[Head0] /\ en' = nxt[nxt[Head0]] /\ faulted' = Freed(nxt[Head0])
        /\ atExit' = {r \in Reminders : Listed(r)}
        /\ UNCHANGED <<now, nxt, prv, mem, trigger, tpc, ti, tn, passDue, fired, wpc, wnode, wit,
                       wprev, rpc, rit, clash, readClash>>
    BY DEF ExitBegin, listVars, timerVars, storeVars, readVars
  <1>2. TypeInv /\ NumberInv /\ ListInv /\ StoreInv /\ ReaderInv /\ TimerInv
    BY DEF IInv
  <1>3. /\ Linked' = Linked /\ Ring' = Ring
        /\ NumberInv' /\ ListInv' /\ StoreInv'
        /\ Good' => Good
    BY <1>1, <1>2, ListKept
  <1>4. Head0 \in Nodes /\ Head0 \in Ring /\ Linked \in SUBSET Reminders
    BY DEF Nodes, Ring, Linked
  <1>5. TypeInv'
    <2>1. faulted' \in BOOLEAN
      BY <1>1 DEF Freed
    <2> QED
      BY <1>1, <1>2, <1>4, <2>1 DEF TypeInv
  <1>6. ListGrown
    BY <1>1, <1>3 DEF ListGrown
  <1>7. Good => ~faulted'
    BY <1>1, <1>2, <1>4, RingLive
  <1>8. ReaderInv' /\ TimerInv'
    BY <1>1, <1>2, <1>6, <1>7, ReadersKept, TimerKept DEF TypeInv
  <1>9. ExitInv'
    <2>1. atExit' = Linked
      BY <1>1 DEF Linked
    <2>2. ASSUME Good'
          PROVE  /\ Cursors(ei, en)'
                 /\ \A r \in Linked : r \in Ahead(ei, en)'
      <3>1. Ordered(Linked, nxt, prv, trigger)
        BY <1>2, <1>3, <2>2 DEF ListInv
      <3>2. nxt[Head0] \in Ring /\ \A r \in Linked : UpTo(trigger, nxt[Head0], r)
        BY <1>4, <3>1 DEF Ordered, Ring
      <3>3. /\ nxt[nxt[Head0]] \in Ring
            /\ nxt[Head0] # Head0 /\ nxt[nxt[Head0]] # Head0 =>
                 Before(trigger, nxt[Head0], nxt[nxt[Head0]])
            /\ \A r \in Linked : UpTo(trigger, nxt[Head0], r) =>
                 nxt[Head0] # Head0 /\ (r = nxt[Head0] \/ UpTo(trigger, nxt[nxt[Head0]], r))
        BY <1>4, <3>1, <3>2, CursorMoves DEF Ring
      <3>4. Cursors(ei, en)'
        BY <1>1, <1>3, <3>2, <3>3 DEF Cursors
      <3>5. \A r \in Linked : r \in Ahead(ei, en)'
        BY <1>1, <1>3, <3>2, <3>3 DEF Ahead
      <3> QED
        BY <3>4, <3>5
    <2>3. ExitFreesAll'
      BY <1>1 DEF ExitFreesAll
    <2> QED
      BY <2>1, <2>2, <2>3 DEF ExitInv
  <1> QED
    BY <1>3, <1>5, <1>8, <1>9 DEF IInv

\* The exit ends with nothing ahead of it.
LEMMA ExitEndKeeps ==
  ASSUME IInv, ~faulted, ExitRemove \/ ExitUnload
  PROVE  IInv'
  <1>1. /\ UNCHANGED <<now, nxt, prv, mem, trigger, tpc, ti, tn, passDue, fired, wpc, wnode, wit,
                       wprev, rpc, rit, ei, en, atExit, clash, readClash, faulted>>
        /\ \/ exitPc = "free" /\ ei = Head0 /\ exitPc' = "drain"
           \/ exitPc = "drain" /\ exitPc' = "unloaded"
    BY DEF ExitRemove, ExitUnload, ExitDone, listVars, timerVars, storeVars, readVars
  <1>2. TypeInv /\ NumberInv /\ ListInv /\ StoreInv /\ ReaderInv /\ ExitInv /\ TimerInv
    BY DEF IInv
  <1>3. /\ Linked' = Linked /\ Ring' = Ring
        /\ NumberInv' /\ ListInv' /\ StoreInv'
        /\ Good' => Good
    BY <1>1, <1>2, ListKept
  <1>4. TypeInv'
    BY <1>1, <1>2 DEF TypeInv
  <1>5. ListGrown
    BY <1>1, <1>3 DEF ListGrown
  <1>6. ReaderInv' /\ TimerInv'
    BY <1>1, <1>2, <1>5, ReadersKept, TimerKept DEF TypeInv, Good
  <1>7. ExitInv'
    <2>1. CASE exitPc = "drain"
      BY <1>1, <1>2, <1>5, <2>1, ExitKept
    <2>2. CASE exitPc = "free"
      <3>1. ~clash => \A r \in atExit : mem[r] = "freed"
        BY <1>1, <1>2, <2>2 DEF ExitInv, Ahead, Good
      <3> QED
        BY <1>1, <2>2, <3>1 DEF ExitInv, ExitFreesAll
    <2> QED
      BY <1>1, <2>1, <2>2
  <1> QED
    BY <1>3, <1>4, <1>6, <1>7 DEF IInv

\* What is due stays due.
LEMMA TickKeeps ==
  ASSUME IInv, ~faulted, Tick
  PROVE  IInv'
  <1>1. /\ now' = now + 1
        /\ UNCHANGED <<nxt, prv, mem, trigger, tpc, ti, tn, passDue, fired, wpc, wnode, wit,
                       wprev, rpc, rit, exitPc, ei, en, atExit, clash, readClash, faulted>>
    BY DEF Tick, listVars, timerVars, storeVars, readVars, exitVars
  <1>2. TypeInv /\ NumberInv /\ ListInv /\ StoreInv /\ ReaderInv /\ ExitInv /\ TimerInv
    BY DEF IInv
  <1>3. /\ Linked' = Linked /\ Ring' = Ring
        /\ NumberInv' /\ ListInv' /\ StoreInv'
        /\ Good' => Good
    BY <1>1, <1>2, ListKept
  <1>4. TypeInv' /\ now' >= now
    BY <1>1, <1>2 DEF TypeInv
  <1>5. ListGrown
    BY <1>1, <1>3 DEF ListGrown
  <1>6. ReaderInv' /\ TimerInv' /\ ExitInv'
    BY <1>1, <1>2, <1>4, <1>5, ReadersKept, TimerKept, ExitKept DEF TypeInv, Good
  <1> QED
    BY <1>3, <1>4, <1>6 DEF IInv

\* A step that changes nothing.
LEMMA StutterKeeps ==
  ASSUME IInv, UNCHANGED vars
  PROVE  IInv'
  <1>1. UNCHANGED <<now, nxt, prv, mem, trigger, tpc, ti, tn, passDue, fired, wpc, wnode, wit,
                    wprev, rpc, rit, exitPc, ei, en, atExit, clash, readClash, faulted>>
    BY DEF vars, listVars, timerVars, storeVars, readVars, exitVars
  <1>2. Linked' = Linked
    BY <1>1 DEF Linked, Listed, Storing
  <1>3. TypeInv' /\ NumberInv' /\ ListInv'
    BY <1>1, <1>2 DEF IInv, TypeInv, NumberInv, Numbered, ListInv, Good
  <1>4. StoreInv'
    BY <1>1, <1>2 DEF IInv, StoreInv, Good, Storing, Ring
  <1>5. TimerInv' /\ ExitInv' /\ ReaderInv'
    BY <1>1, <1>2 DEF IInv, TimerInv, ExitInv, ReaderInv, Good, Ring, Cursors, Ahead,
                      PassFiresAllDue, ExitFreesAll, FaultNeedsClash
  <1> QED
    BY <1>3, <1>4, <1>5 DEF IInv

-----------------------------------------------------------------------------
(* The theorems                                                              *)

\* The empty list, nobody inside.
LEMMA InitHolds == Init => IInv
  <1> SUFFICES ASSUME Init PROVE IInv
    OBVIOUS
  <1>1. Head0 \in Nodes /\ 0 \in Int /\ <<>> \in Seq(Reminders)
    BY DEF Nodes
  <1>2. TypeInv
    BY <1>1 DEF Init, TypeInv
  <1>3. Linked = {} /\ Ring = {Head0}
    BY DEF Init, Linked, Listed, Ring
  <1>4. NumberInv /\ StoreInv /\ TimerInv /\ ExitInv /\ ReaderInv
    BY DEF Init, NumberInv, Numbered, StoreInv, Storing, TimerInv, PassFiresAllDue, ExitInv,
           ExitFreesAll,
           ReaderInv, FaultNeedsClash, Good
  <1>5. ListInv
    BY <1>1, <1>3 DEF Init, ListInv, Ordered
  <1> QED
    BY <1>2, <1>4, <1>5 DEF IInv

\* Every step is one of those above.
LEMMA NextHolds == IInv /\ [Next]_vars => IInv'
  <1> SUFFICES ASSUME IInv, [Next]_vars PROVE IInv'
    OBVIOUS
  <1>1. CASE UNCHANGED vars
    BY <1>1, StutterKeeps
  <1>2. CASE Next
    <2>1. CASE Halted
      BY <2>1, StutterKeeps DEF Halted
    <2>2. ASSUME ~faulted, NEW w \in Writers, StoreBegin(w) \/ StoreNoMessage(w) \/ Store(w)
          PROVE  IInv'
      BY <2>2, StoreBeginKeeps, StoreNoMessageKeeps, StoreWalkKeeps, StorePrevKeeps,
         StoreLinkKeeps DEF Store
    <2>3. ASSUME ~faulted, NEW q \in Readers, ShowBegin(q) \/ ShowStep(q)
          PROVE  IInv'
      BY <2>3, ShowKeeps
    <2>4. ASSUME ~faulted, Tick
          PROVE  IInv'
      BY <2>4, TickKeeps
    <2>5. ASSUME ~faulted, Timer
          PROVE  IInv'
      BY <2>5, TimerBeginKeeps, TimerFireKeeps, TimerEndKeeps DEF Timer
    <2>6. ASSUME ~faulted, ExitBegin \/ Exit
          PROVE  IInv'
      BY <2>6, ExitBeginKeeps, ExitFreeKeeps, ExitEndKeeps DEF Exit
    <2> QED
      BY <1>2, <2>1, <2>2, <2>3, <2>4, <2>5, <2>6 DEF Next
  <1> QED
    BY <1>1, <1>2

\* The inductive invariant holds in every state.
LEMMA AlwaysInv == Spec => []IInv
  BY InitHolds, NextHolds, PTL DEF Spec

\* Without a change of the list under a reader or a store, and without a line that lacks
\* its message, nothing freed is used: the loops of trigger_messages and reminder_exit are
\* safe on their own, though each frees the node it stands on.
THEOREM FaultsExplained == Spec => []FaultNeedsClash
  <1>1. IInv => FaultNeedsClash
    BY DEF IInv, ReaderInv
  <1> QED
    BY <1>1, AlwaysInv, PTL

\* A pass of trigger_messages prints everything that was listed and due when it began,
\* though it stops at the first reminder that is not due and stores insert around its two
\* cursors.
THEOREM PassComplete == Spec => []PassFiresAllDue
  <1>1. IInv => PassFiresAllDue
    BY DEF IInv, TimerInv
  <1> QED
    BY <1>1, AlwaysInv, PTL

\* When class_remove_file returns, reminder_exit has freed all that was on the list when
\* it began.
THEOREM ExitComplete == Spec => []ExitFreesAll
  <1>1. IInv => ExitFreesAll
    BY DEF IInv, ExitInv
  <1> QED
    BY <1>1, AlwaysInv, PTL

\* The list is whole and sorted: the links, forwards and backwards, are those of the order.
THEOREM ListSorted == Spec => []ListWholeAndSorted
  <1>1. IInv => ListWholeAndSorted
    <2> SUFFICES ASSUME IInv, ~clash, ~faulted, NEW n \in Ring
                 PROVE  /\ prv[nxt[n]] = n
                        /\ Behind(n) = {} => nxt[n] = Head0
                        /\ Behind(n) # {} => /\ nxt[n] \in Behind(n)
                                             /\ \A r \in Behind(n) : r = nxt[n] \/ Sooner(nxt[n], r)
      BY DEF ListWholeAndSorted, Ring, Linked
    <2>1. Ordered(Linked, nxt, prv, trigger)
      BY DEF IInv, ListInv, Good
    <2>2. Behind(n) = {r \in Linked : n = Head0 \/ Before(trigger, n, r)}
      BY DEF Behind, Linked, Sooner, Before
    <2>3. Head0 \notin Linked
      BY ReminderAssumption DEF Linked, Head0, Reminders
    <2>4. /\ prv[nxt[n]] = n /\ nxt[n] \in Ring
          /\ nxt[n] # Head0 => nxt[n] \in Behind(n)
          /\ \A r \in Behind(n) : UpTo(trigger, nxt[n], r)
      BY <2>1, <2>2, <2>3 DEF Ordered, Ring
    <2> QED
      BY <2>4 DEF UpTo, Sooner, Before
  <1> QED
    BY <1>1, AlwaysInv, PTL

-----------------------------------------------------------------------------
(* What was printed, whatever became of the list                             *)

\* A store takes a number that no other had.
LEMMA LinksBegin ==
  ASSUME TypeInv, LinksInv, NEW w \in Writers, StoreBegin(w)
  PROVE  LinksInv' /\ Stored \subseteq Stored'
  <1>1. PICK r \in Reminders :
          /\ r = Cardinality({q \in Reminders : mem[q] # "unused"}) + 1
          /\ mem' = [mem EXCEPT ![r] = "live"]
          /\ wnode' = [wnode EXCEPT ![w] = r]
    BY DEF StoreBegin
  <1>2. /\ wit' = [wit EXCEPT ![w] = nxt[Head0]]
        /\ UNCHANGED <<nxt, prv, ti, tn, ei, en, wprev>>
    BY DEF StoreBegin, timerVars, exitVars
  <1>3. \A e \in Reminders : mem[e] # "unused" <=> e < r
    BY <1>1, NextNumber DEF LinksInv
  <1>4. r \in Nodes /\ Head0 \in Nodes
    BY DEF Nodes
  <1>5. Stored' = Stored \cup {r}
    BY <1>1, <1>4, ReminderAssumption DEF Stored, TypeInv, Nodes, Head0, Reminders
  <1>6. Numbered'
    <2>1. mem'[r] = "live" /\ \A e \in Reminders \ {r} : mem'[e] = mem[e]
      BY <1>1 DEF TypeInv
    <2>2. \A e \in Reminders : mem'[e] # "unused" <=> e <= r
      BY <1>3, <2>1, ReminderAssumption DEF Reminders
    <2>3. \A a, b \in Reminders : a < b /\ b <= r => a <= r
      BY ReminderAssumption DEF Reminders
    <2> QED
      BY <2>2, <2>3 DEF Numbered
  <1> QED
    BY <1>1, <1>2, <1>4, <1>5, <1>6 DEF LinksInv

\* The other steps of a store only hand on nodes it has met.
LEMMA LinksStore ==
  ASSUME TypeInv, LinksInv, NEW w \in Writers, StoreNoMessage(w) \/ Store(w)
  PROVE  LinksInv' /\ Stored' = Stored
  <1>1. mem' = mem /\ Stored' = Stored /\ Numbered'
    BY DEF StoreNoMessage, Store, StoreWalk, StorePrev, StoreLink, listVars, Stored,
           LinksInv, Numbered
  <1>2. UNCHANGED <<ti, tn, ei, en, wnode>>
    BY DEF StoreNoMessage, Store, StoreWalk, StorePrev, StoreLink, timerVars, exitVars
  <1>3. Stored \subseteq Nodes
    BY DEF Stored
  <1>4. CASE StoreNoMessage(w)
    BY <1>1, <1>2, <1>4 DEF StoreNoMessage, listVars, LinksInv
  <1>5. CASE StoreWalk(w)
    <2>1. wit' = wit \/ wit' = [wit EXCEPT ![w] = nxt[@]]
      BY <1>5 DEF StoreWalk
    <2>2. UNCHANGED <<nxt, prv, wprev>>
      BY <1>5 DEF StoreWalk, listVars
    <2> QED
      BY <1>1, <1>2, <1>3, <2>1, <2>2 DEF LinksInv
  <1>6. CASE StorePrev(w)
    BY <1>1, <1>2, <1>3, <1>6 DEF StorePrev, listVars, LinksInv
  <1>7. CASE StoreLink(w)
    BY <1>1, <1>2, <1>3, <1>7 DEF StoreLink, LinksInv
  <1> QED
    BY <1>4, <1>5, <1>6, <1>7 DEF Store

\* Taking a reminder out leaves only links to reminders that were stored.
LEMMA LinksDelete ==
  ASSUME TypeInv, LinksInv, NEW d \in Stored, d # Head0, NEW second, Delete(d, second)
  PROVE  /\ nxt' \in [Nodes -> Stored] /\ prv' \in [Nodes -> Stored]
         /\ Stored' = Stored /\ Numbered' /\ d \in Reminders
         /\ mem'[d] = "freed" /\ \A r \in Reminders \ {d} : mem'[r] = mem[r]
  <1>1. d \in Reminders /\ mem[d] # "unused" /\ Stored \subseteq Nodes
    BY DEF Stored, Nodes
  <1>2. mem'[d] = "freed" /\ \A r \in Reminders \ {d} : mem'[r] = mem[r]
    BY <1>1 DEF Delete, TypeInv
  <1>3. Stored' = Stored
    BY <1>1, <1>2 DEF Stored, Nodes
  <1>4. Numbered'
    BY <1>1, <1>2 DEF Numbered, LinksInv
  <1>5. nxt' \in [Nodes -> Stored] /\ prv' \in [Nodes -> Stored]
    BY <1>1 DEF Delete, Unlinked, LinksInv
  <1> QED
    BY <1>1, <1>2, <1>3, <1>4, <1>5

\* No step makes a link or a cursor out of nothing, and what was stored stays so.
LEMMA LinksNext ==
  ASSUME TypeInv, LinksInv, [Next]_vars
  PROVE  LinksInv' /\ Stored \subseteq Stored'
  <1>1. Stored \subseteq Nodes /\ Head0 \in Nodes
    BY DEF Stored, Nodes
  <1>2. CASE UNCHANGED vars \/ Halted \/ (\E q \in Readers : ShowBegin(q) \/ ShowStep(q))
               \/ TimerEnd \/ ExitRemove \/ ExitUnload \/ Tick
    <2>1. UNCHANGED <<nxt, prv, mem, ti, tn, ei, en, wnode, wit, wprev>>
      BY <1>2 DEF Halted, vars, ShowBegin, ShowStep, TimerEnd, ExitRemove, ExitUnload, Tick,
                  listVars, timerVars, storeVars, exitVars
    <2> QED
      BY <2>1 DEF LinksInv, Numbered, Stored
  <1>3. CASE TimerBegin \/ ExitBegin
    <2>1. /\ ti' \in {ti, nxt[Head0]} /\ tn' \in {tn, nxt[nxt[Head0]]}
          /\ ei' \in {ei, nxt[Head0]} /\ en' \in {en, nxt[nxt[Head0]]}
      BY <1>3 DEF TimerBegin, ExitBegin, timerVars, exitVars
    <2>2. UNCHANGED <<nxt, prv, mem, wnode, wit, wprev>>
      BY <1>3 DEF TimerBegin, ExitBegin, listVars, storeVars
    <2> QED
      BY <1>1, <2>1, <2>2 DEF LinksInv, Numbered, Stored
  <1>4. CASE TimerFire
    <2>1. /\ Delete(ti, tn) /\ ti # Head0 /\ ti' = tn /\ tn' = nxt'[tn]
          /\ UNCHANGED <<ei, en, wnode, wit, wprev>>
      BY <1>4 DEF TimerFire, storeVars, exitVars
    <2>2. nxt' \in [Nodes -> Stored] /\ prv' \in [Nodes -> Stored] /\ Stored' = Stored /\ Numbered'
      BY <2>1, LinksDelete DEF LinksInv
    <2> QED
      BY <1>1, <2>1, <2>2 DEF LinksInv
  <1>5. CASE ExitFree
    <2>1. /\ Delete(ei, en) /\ ei # Head0 /\ ei' = en /\ en' = nxt'[en]
          /\ UNCHANGED <<ti, tn, wnode, wit, wprev>>
      BY <1>5 DEF ExitFree, ExitDone, timerVars, storeVars
    <2>2. nxt' \in [Nodes -> Stored] /\ prv' \in [Nodes -> Stored] /\ Stored' = Stored /\ Numbered'
      BY <2>1, LinksDelete DEF LinksInv
    <2> QED
      BY <1>1, <2>1, <2>2 DEF LinksInv
  <1> QED
    BY <1>2, <1>3, <1>4, <1>5, LinksBegin, LinksStore DEF Next, Timer, Exit

\* A store fills in the times of a reminder that was not used, let alone printed.
LEMMA FireBegin ==
  ASSUME TypeInv, LinksInv, FireInv, NEW w \in Writers, StoreBegin(w)
  PROVE  FireInv'
  <1>1. PICK r \in Reminders, t \in Delays :
          /\ r = Cardinality({q \in Reminders : mem[q] # "unused"}) + 1
          /\ mem' = [mem EXCEPT ![r] = "live"]
          /\ trigger' = [trigger EXCEPT ![r] = TriggerTime(t)]
          /\ due' = [due EXCEPT ![r] = now + t]
    BY DEF StoreBegin
  <1>2. UNCHANGED <<now, fired, faulted, tpc, ti>>
    BY DEF StoreBegin, timerVars
  <1>3. mem[r] = "unused"
    <2>1. \A e \in Reminders : mem[e] # "unused" <=> e < r
      BY <1>1, NextNumber DEF LinksInv
    <2> QED
      BY <2>1, ReminderAssumption DEF Reminders
  <1>4. /\ t \in Nat /\ KTimeMax \in Nat /\ now \in Nat
        /\ now + t <= KTimeMax => TriggerTime(t) = now + t
    BY ReminderAssumption DEF FireInv, TriggerTime
  <1>5. /\ \A e \in Reminders \ {r} : /\ mem'[e] = mem[e] /\ trigger'[e] = trigger[e]
                                      /\ due'[e] = due[e]
        /\ due'[r] = now + t /\ trigger'[r] = TriggerTime(t) /\ mem'[r] = "live"
        /\ due' \in [Reminders -> Nat]
    BY <1>1, <1>4 DEF TypeInv, FireInv
  <1>6. \A k \in DOMAIN fired : /\ fired[k] \in Reminders /\ fired[k] # r
                                /\ due'[fired[k]] = due[fired[k]]
                                /\ mem'[fired[k]] = mem[fired[k]]
    BY <1>3, <1>5 DEF FireInv, TypeInv
  <1>7. FiredOnceNotEarly' /\ \A k \in DOMAIN fired' : mem'[fired'[k]] = "freed"
    BY <1>2, <1>6 DEF FireInv, FiredOnceNotEarly
  <1>8. ASSUME NEW e \in Reminders, e \in Stored', due'[e] <= KTimeMax
        PROVE  trigger'[e] = due'[e]
    <2>1. CASE e = r
      BY <1>4, <1>5, <1>8, <2>1
    <2>2. CASE e # r
      BY <1>5, <1>8, <2>2 DEF FireInv, Stored
    <2> QED
      BY <2>1, <2>2
  <1>9. tpc' = "test" /\ ~faulted' => ~Freed(ti)'
    BY <1>1, <1>2, <1>5 DEF FireInv, Freed, TypeInv, Nodes
  <1> QED
    BY <1>2, <1>4, <1>5, <1>7, <1>8, <1>9 DEF FireInv

\* The callback prints a reminder that was not freed, and so not printed, and goes on
\* to one that is not freed, for it reads its link.
LEMMA FireFires ==
  ASSUME TypeInv, LinksInv, FireInv, ~faulted, TimerFire
  PROVE  FireInv'
  <1>1. /\ Delete(ti, tn) /\ ti # Head0 /\ trigger[ti] <= now /\ fired' = Append(fired, ti)
        /\ tpc = "test" /\ ti' = tn /\ UNCHANGED <<now, trigger, due>>
    BY DEF TimerFire, Due, storeVars
  <1>2. /\ ti \in Stored /\ ti \in Reminders /\ tn \in Nodes /\ Stored' = Stored
        /\ mem'[ti] = "freed" /\ \A r \in Reminders \ {ti} : mem'[r] = mem[r]
    BY <1>1, LinksDelete DEF LinksInv, TypeInv
  <1>3. mem[ti] # "freed"
    BY <1>1 DEF FireInv, Freed
  <1>4. PICK n \in Nat : n = Len(fired)
    BY DEF TypeInv
  <1>5. /\ DOMAIN fired = 1..n /\ DOMAIN fired' = 1..(n + 1)
        /\ fired'[n + 1] = ti /\ \A k \in 1..n : fired'[k] = fired[k]
    BY <1>1, <1>2, <1>4 DEF TypeInv
  <1>6. \A k \in 1..n : fired[k] # ti /\ fired[k] \in Reminders /\ mem[fired[k]] = "freed"
    <2>1. \A k \in 1..n : mem[fired[k]] = "freed"
      BY <1>5 DEF FireInv
    <2>2. \A k \in 1..n : fired[k] \in Reminders
      BY <1>5 DEF TypeInv
    <2> QED
      BY <1>3, <2>1, <2>2
  <1>7. due[ti] <= KTimeMax => due[ti] <= now
    BY <1>1, <1>2 DEF FireInv
  <1>8. \A k \in 1..(n + 1) : k \in 1..n \/ k = n + 1
    BY <1>4
  <1>9. \A k, l \in 1..(n + 1) : fired'[k] = fired'[l] => k = l
    <2>1. \A k, l \in 1..n : fired[k] = fired[l] => k = l
      BY <1>5 DEF FireInv, FiredOnceNotEarly
    <2> QED
      BY <1>5, <1>6, <1>8, <2>1
  <1>10. \A k \in 1..(n + 1) : due[fired'[k]] <= KTimeMax => due[fired'[k]] <= now
    BY <1>5, <1>7, <1>8 DEF FireInv, FiredOnceNotEarly
  <1>11. \A k \in 1..(n + 1) : mem'[fired'[k]] = "freed"
    BY <1>2, <1>5, <1>6, <1>8
  <1>12. tpc' = "test" /\ ~faulted' => ~Freed(ti)'
    <2>1. ~faulted' => ~Freed(tn) /\ tn # ti
      BY <1>1 DEF Delete
    <2> QED
      BY <1>1, <1>2, <2>1 DEF Freed, Nodes
  <1> QED
    BY <1>1, <1>2, <1>5, <1>9, <1>10, <1>11, <1>12 DEF FireInv, FiredOnceNotEarly

\* The other steps print nothing, and none brings back what was freed.
LEMMA FireNext ==
  ASSUME TypeInv, LinksInv, FireInv, [Next]_vars
  PROVE  FireInv'
  <1>1. now \in Nat /\ \A k \in DOMAIN fired : fired[k] \in Reminders /\ due[fired[k]] \in Nat
    BY DEF TypeInv, FireInv
  <1>2. CASE UNCHANGED vars \/ Halted
    <2>1. UNCHANGED <<now, mem, trigger, due, fired, tpc, ti, faulted>>
      BY <1>2 DEF Halted, vars, listVars, timerVars, storeVars
    <2> QED
      BY <2>1 DEF FireInv, FiredOnceNotEarly, Stored, Freed
  <1>3. ASSUME ~faulted,
               \/ \E w \in Writers : StoreNoMessage(w) \/ Store(w)
               \/ \E q \in Readers : ShowBegin(q) \/ ShowStep(q)
               \/ ExitBegin \/ ExitRemove \/ ExitUnload \/ Tick
        PROVE  FireInv'
    <2>1. UNCHANGED <<mem, trigger, due, fired, tpc, ti>>
      BY <1>3 DEF StoreNoMessage, Store, StoreWalk, StorePrev, StoreLink, ShowBegin, ShowStep,
                  ExitBegin, ExitRemove, ExitUnload, Tick, listVars, timerVars, storeVars
    <2>2. now' \in {now, now + 1}
      BY <1>3 DEF StoreNoMessage, Store, StoreWalk, StorePrev, StoreLink, ShowBegin, ShowStep,
                  ExitBegin, ExitRemove, ExitUnload, Tick
    <2>3. FiredOnceNotEarly'
      BY <1>1, <2>1, <2>2 DEF FireInv, FiredOnceNotEarly
    <2> QED
      BY <1>1, <1>3, <2>1, <2>2, <2>3 DEF FireInv, Stored, Freed
  <1>4. ASSUME ~faulted, TimerBegin \/ TimerEnd
        PROVE  FireInv'
    <2>1. UNCHANGED <<now, mem, trigger, due, fired>>
      BY <1>4 DEF TimerBegin, TimerEnd, listVars, storeVars
    <2>2. tpc' = "test" /\ ~faulted' => ~Freed(ti)'
      BY <1>4 DEF TimerBegin, TimerEnd, listVars, Freed
    <2> QED
      BY <2>1, <2>2 DEF FireInv, FiredOnceNotEarly, Stored
  <1>5. ASSUME ~faulted, ExitFree
        PROVE  FireInv'
    <2>1. /\ Delete(ei, en) /\ ei # Head0 /\ exitPc = "free"
          /\ UNCHANGED <<now, trigger, due, fired, tpc, ti>>
      BY <1>5 DEF ExitFree, ExitDone, timerVars, storeVars
    <2>2. /\ Stored' = Stored /\ ei \in Reminders
          /\ mem'[ei] = "freed" /\ \A r \in Reminders \ {ei} : mem'[r] = mem[r]
      BY <2>1, LinksDelete DEF LinksInv
    <2>3. tpc' = "idle"
      BY <2>1 DEF TypeInv
    <2>4. \A k \in DOMAIN fired : mem'[fired[k]] = "freed"
      BY <1>1, <2>2 DEF FireInv
    <2> QED
      BY <2>1, <2>2, <2>3, <2>4 DEF FireInv, FiredOnceNotEarly
  <1> QED
    BY <1>2, <1>3, <1>4, <1>5, FireBegin, FireFires DEF Next, Timer, Exit

\* No reminder is printed twice, and none before its time unless that overflowed, also
\* after two walks met and the list is no longer whole.
THEOREM FiredRight == Spec => []FiredOnceNotEarly
  <1>1. Init => LinksInv /\ FireInv
    <2> SUFFICES ASSUME Init PROVE LinksInv /\ FireInv
      OBVIOUS
    <2>1. Head0 \in Stored
      BY DEF Stored, Nodes
    <2>2. LinksInv
      BY <2>1 DEF Init, LinksInv, Numbered
    <2>3. DOMAIN fired = {}
      BY DEF Init
    <2> QED
      BY <2>2, <2>3 DEF Init, FireInv, FiredOnceNotEarly
  <1>2. TypeInv /\ LinksInv /\ FireInv /\ [Next]_vars => LinksInv' /\ FireInv'
    BY LinksNext, FireNext
  <1>3. IInv => TypeInv
    BY DEF IInv
  <1>4. FireInv => FiredOnceNotEarly
    BY DEF FireInv
  <1> QED
    BY <1>1, <1>2, <1>3, <1>4, AlwaysInv, PTL DEF Spec

=============================================================================
