-------------------------- MODULE RollupPageProofs --------------------------
(***************************************************************************)
(* What the page of the roll-up tasks promises, for any number of objects, *)
(* requests, failures and foreign changes and any finite set of ids.       *)
(*                                                                         *)
(* Most of the invariant follows the objects one by one.  Whatever         *)
(* overlaps or fails, an object not in use has left no trace               *)
(* (UnusedClean), an id that an object or a request carries is one of a    *)
(* task the server made for that object, or for one saved before the list  *)
(* was read (IdsKnown), and the list that is on its way to the page holds  *)
(* no task that the page has an object for already, except those saved too *)
(* early (ListFresh).                                                      *)
(*                                                                         *)
(* An object the user handled one request at a time (Single) has at most   *)
(* one request and one task on the server, and the two fit together:       *)
(* before the answer, the id is that of the request or has come with its   *)
(* answer (SingleCalls, SingleStored).  That a request under way excludes  *)
(* all others of its object is what the history variable overlapped        *)
(* records; the answers of other objects and the changes of others leave   *)
(* the object as it is (SameObject).                                       *)
(*                                                                         *)
(* The walk of deleteSelected is a recursive function of the position.     *)
(* What it keeps (LoopFacts) rests, as that the function exists, on the    *)
(* least element of a set of natural numbers (Least).                      *)
(***************************************************************************)
EXTENDS RollupPage, SequenceTheorems, FiniteSetTheorems, WellFoundedInduction, TLAPS

Objects == [id : Ids \cup {NoId}, rev : -1 .. MaxEdits, complex : BOOLEAN, incomplete : BOOLEAN]
Contents == [rev : -1 .. MaxEdits, rollups : 0 .. 2]
Requests == [n : Nat, kind : {"save", "delete"}, of : Tasks, id : Ids \cup {NoId},
             rev : -1 .. MaxEdits, state : {"sent", "ok", "refused", "ghost"}]

Once(s) == \A j, k \in DOMAIN s : s[j] = s[k] => j = k

Types ==
    /\ page \in Seq(Tasks) /\ Once(page)
    /\ task \in [Tasks -> Objects]
    /\ calls \subseteq Requests
    /\ store \in [Ids -> Contents]
    /\ owner \in [Ids -> Tasks \cup {NoTask}]
    /\ list \in [DOMAIN list -> 0 .. 2] /\ DOMAIN list \subseteq Ids
    /\ saved \in [Tasks -> Contents]
    /\ edits \in 0 .. MaxEdits /\ sent \in Nat

(* An object that is not in use has no trace.                              *)
UnusedClean ==
    \A t \in Unused :
        /\ t \notin Shown /\ task[t].id = NoId /\ saved[t] = Absent
        /\ \A c \in calls : c.of # t
        /\ \A i \in Ids : owner[i] # t

OwnerOf(i, t) == owner[i] # NoTask /\ (owner[i] = t \/ owner[i] \in early)

IdsKnown ==
    /\ \A t \in Tasks : task[t].id # NoId => OwnerOf(task[t].id, t)
    /\ \A c \in calls : c.id # NoId => OwnerOf(c.id, c.of)

CallsMade ==
    \A c \in calls :
        /\ c.kind = "delete" => c.id # NoId /\ c.of \in asked
        /\ c.state = "ok" => c.id # NoId
        /\ c.rev # -1

(* The list was asked for before any task that is not early was created.   *)
ListFresh ==
    /\ loading \in {"descriptors", "list"} =>
           /\ \A c \in calls : c.kind = "save" => c.of \in early
           /\ \A i \in Ids : owner[i] # NoTask => owner[i] \in early
    /\ loading = "listed" =>
           \A i \in DOMAIN list : IF owner[i] = NoTask THEN store[i] # Absent \/ i \in foreign
                                  ELSE owner[i] \in early

Gone ==
    /\ Tasks \ (Unused \cup Shown) \subseteq asked
    /\ \A i \in Ids \ foreign : store[i] = Absent /\ owner[i] # NoTask => owner[i] \in asked \cup early

Single(t) == t \in Tasks \ (overlapped \cup dropped \cup early)

Saved(c) == c.kind = "save" /\ c.state = "ok"
Deleted(c) == c.kind = "delete" /\ c.state = "ok"

(* The requests of an object that was handled one at a time.               *)
SingleCalls(t) ==
    \A c \in calls : c.of = t =>
        /\ \A d \in calls : d.of = t => d = c
        /\ c.state # "ghost" /\ t \in Shown
        /\ task[t].id \in (IF Saved(c) THEN {NoId, c.id} ELSE {c.id})

(* ... and its task on the server.                                         *)
SingleStored(t) ==
    \A i \in Ids : owner[i] = t =>
        /\ \A j \in Ids : owner[j] = t => j = i
        /\ task[t].id = i \/ \E c \in calls : c.of = t /\ Saved(c) /\ c.id = i
        /\ i \notin foreign =>
              /\ store[i] # Absent <=> t \in Shown /\ ~ \E c \in calls : c.of = t /\ Deleted(c)
              /\ \A c \in calls : c.of = t /\ Saved(c) => store[i] = [rev |-> c.rev, rollups |-> 1]
              /\ (\A c \in calls : c.of = t => c.state # "ok") /\ saved[t] # Absent /\ t \in Shown
                     => store[i] = saved[t]

SingleInv == \A t \in Tasks : Single(t) => SingleCalls(t) /\ SingleStored(t)

PageInv == Types /\ UnusedClean /\ IdsKnown /\ CallsMade /\ ListFresh /\ Gone /\ SingleInv

-----------------------------------------------------------------------------
(* A set of natural numbers has a least element: induction for what is     *)
(* said of one number after the other.                                     *)
LEMMA Least ==
    ASSUME NEW S \in SUBSET Nat, S # {}
    PROVE  \E m \in S : \A n \in S : m <= n
<1>1. IsWellFoundedOn(OpToRel(<, Nat), Nat)
  BY NatLessThanWellFounded
<1>2. PICK m \in S : \A n \in S : ~(<<n, m>> \in OpToRel(<, Nat))
  BY <1>1, WFMin
<1>3. \A n \in S : ~(n < m)
  BY <1>2 DEF OpToRel
<1> QED
  BY <1>3

(* What is said of 0, and of t if it is said of t - 1, is said of all.     *)
LEMMA UpTo ==
    ASSUME NEW N \in Nat, NEW S \in SUBSET (0 .. N), 0 \in S,
           \A t \in 1 .. N : t - 1 \in S => t \in S
    PROVE  S = 0 .. N
<1> SUFFICES ASSUME (0 .. N) \ S # {} PROVE FALSE
  OBVIOUS
<1>1. PICK m \in (0 .. N) \ S : \A n \in (0 .. N) \ S : m <= n
  <2>1. (0 .. N) \ S \in SUBSET Nat
    OBVIOUS
  <2> QED
    BY <2>1, Least
<1>2. m \in 1 .. N /\ m - 1 \in 0 .. N /\ ~(m <= m - 1)
  BY <1>1
<1> QED
  BY <1>1, <1>2

-----------------------------------------------------------------------------
(* Sequences without repetitions.                                          *)

LEMMA RemovedAt ==
    ASSUME NEW s \in Seq(Tasks), NEW k \in 1 .. Len(s)
    PROVE  /\ RemoveAt(s, k) \in Seq(Tasks) /\ Len(RemoveAt(s, k)) = Len(s) - 1
           /\ \A j \in 1 .. Len(s) - 1 :
                  RemoveAt(s, k)[j] = IF j < k THEN s[j] ELSE s[j + 1]
<1> DEFINE a == SubSeq(s, 1, k - 1)
           b == SubSeq(s, k + 1, Len(s))
<1>1. Len(s) \in Nat /\ \A j \in 1 .. Len(s) : s[j] \in Tasks
  OBVIOUS
<1>2. a \in Seq(Tasks) /\ Len(a) = k - 1 /\ \A j \in 1 .. k - 1 : a[j] = s[j]
  BY <1>1, SubSeqProperties
<1>3. b \in Seq(Tasks) /\ Len(b) = Len(s) - k /\ \A j \in 1 .. Len(s) - k : b[j] = s[k + j]
  BY <1>1, SubSeqProperties
<1>4. RemoveAt(s, k) = a \o b
  BY DEF RemoveAt
<1> HIDE DEF a, b
<1>5. /\ a \o b \in Seq(Tasks) /\ Len(a \o b) = Len(s) - 1
      /\ \A j \in 1 .. Len(s) - 1 : (a \o b)[j] = IF j <= k - 1 THEN a[j] ELSE b[j - (k - 1)]
  BY <1>1, <1>2, <1>3, ConcatProperties
<1>6. ASSUME NEW j \in 1 .. Len(s) - 1
      PROVE  (a \o b)[j] = IF j < k THEN s[j] ELSE s[j + 1]
  <2>1. CASE j < k
    BY <1>1, <1>2, <1>5, <2>1
  <2>2. CASE ~(j < k)
    <3>1. j - (k - 1) \in 1 .. Len(s) - k /\ k + (j - (k - 1)) = j + 1
      BY <1>1, <2>2
    <3> QED
      BY <1>3, <1>5, <2>2, <3>1
  <2> QED
    BY <2>1, <2>2
<1> QED
  BY <1>4, <1>5, <1>6

LEMMA RemovedAtOnce ==
    ASSUME NEW s \in Seq(Tasks), Once(s), NEW k \in 1 .. Len(s)
    PROVE  Once(RemoveAt(s, k)) /\ ToSet(RemoveAt(s, k)) = ToSet(s) \ {s[k]}
<1> DEFINE r == RemoveAt(s, k)
<1>1. /\ r \in Seq(Tasks) /\ Len(r) = Len(s) - 1 /\ DOMAIN r = 1 .. Len(s) - 1
      /\ \A j \in 1 .. Len(s) - 1 : r[j] = IF j < k THEN s[j] ELSE s[j + 1]
  BY RemovedAt
<1> HIDE DEF r
<1>2. Len(s) \in Nat /\ DOMAIN s = 1 .. Len(s)
  OBVIOUS
<1>3. \A i, j \in 1 .. Len(s) : s[i] = s[j] => i = j
  BY <1>2 DEF Once
<1>4. Once(r)
  BY <1>1, <1>2, <1>3 DEF Once
<1>5. ASSUME NEW j \in DOMAIN r PROVE r[j] \in ToSet(s) \ {s[k]}
  <2>1. CASE j < k
    BY <1>1, <1>2, <1>3, <2>1 DEF ToSet
  <2>2. CASE ~(j < k)
    <3>1. r[j] = s[j + 1] /\ j + 1 \in 1 .. Len(s) /\ j + 1 # k
      BY <1>1, <1>2, <2>2
    <3> QED
      BY <1>2, <1>3, <3>1 DEF ToSet
  <2> QED
    BY <2>1, <2>2
<1>6. ASSUME NEW j \in 1 .. Len(s), s[j] # s[k] PROVE s[j] \in ToSet(r)
  <2>1. CASE j < k
    BY <1>1, <1>2, <2>1 DEF ToSet
  <2>2. CASE ~(j < k)
    <3>1. j - 1 \in 1 .. Len(s) - 1 /\ ~(j - 1 < k) /\ (j - 1) + 1 = j
      BY <1>2, <1>6, <2>2
    <3> QED
      BY <1>1, <3>1 DEF ToSet
  <2> QED
    BY <2>1, <2>2
<1>7. ToSet(r) = ToSet(s) \ {s[k]}
  BY <1>2, <1>5, <1>6 DEF ToSet
<1> QED
  BY <1>4, <1>7 DEF r

LEMMA RemovedFirst ==
    ASSUME NEW s \in Seq(Tasks), Once(s), NEW t
    PROVE  /\ RemoveFirst(s, t) \in Seq(Tasks) /\ Once(RemoveFirst(s, t))
           /\ ToSet(RemoveFirst(s, t)) = ToSet(s) \ {t}
<1> DEFINE I == {i \in 1 .. Len(s) : s[i] = t}
<1>1. Len(s) \in Nat /\ DOMAIN s = 1 .. Len(s)
  OBVIOUS
<1>2. CASE I # {}
  <2> DEFINE k == CHOOSE i \in I : \A j \in I : i <= j
  <2>1. I \in SUBSET Nat
    BY <1>1
  <2>2. k \in I
    <3> HIDE DEF I
    <3>1. \E i \in I : \A j \in I : i <= j
      BY <1>2, <2>1, Least
    <3> QED
      BY <3>1
  <2>3. RemoveFirst(s, t) = RemoveAt(s, k)
    BY <1>2 DEF RemoveFirst, SelectInSeq, Min
  <2> HIDE DEF k
  <2> QED
    BY <2>2, <2>3, RemovedAt, RemovedAtOnce
<1>3. CASE I = {}
  <2>1. RemoveFirst(s, t) = s /\ t \notin ToSet(s)
    BY <1>1, <1>3 DEF RemoveFirst, ToSet
  <2> QED
    BY <2>1
<1> QED
  BY <1>2, <1>3

-----------------------------------------------------------------------------
(* The loop of deleteSelected.                                             *)

WalkUpTo(selected, n, f) ==
    f = [k \in 0 .. n |-> IF k = 0 THEN [page |-> page, sent |-> <<>>]
                          ELSE DeleteOne(selected, f[k - 1], k)]

(* The recursion of DeleteLoop is well founded.                            *)
LEMMA LoopRecursive ==
    ASSUME NEW selected, page \in Seq(Tasks)
    PROVE  WalkUpTo(selected, Len(page), DeleteLoop(selected))
<1> DEFINE S == {n \in 0 .. Len(page) : \E f : WalkUpTo(selected, n, f)}
<1>1. 0 \in S
  <2>1. WalkUpTo(selected, 0, [k \in 0 .. 0 |-> [page |-> page, sent |-> <<>>]])
    BY DEF WalkUpTo
  <2> QED
    BY <2>1
<1>2. ASSUME NEW n \in 1 .. Len(page), n - 1 \in S
      PROVE  n \in S
  <2>1. PICK f : WalkUpTo(selected, n - 1, f)
    BY <1>2
  <2> DEFINE g == [k \in 0 .. n |-> IF k = n THEN DeleteOne(selected, f[n - 1], n) ELSE f[k]]
             start == [page |-> page, sent |-> <<>>]
  <2>2. \A k \in 0 .. n - 1 : g[k] = f[k]
    OBVIOUS
  <2>3. \A k \in 0 .. n - 1 : f[k] = IF k = 0 THEN start ELSE DeleteOne(selected, f[k - 1], k)
    BY <2>1 DEF WalkUpTo
  <2>4. \A k \in 0 .. n : g[k] = IF k = 0 THEN start ELSE DeleteOne(selected, g[k - 1], k)
    <3> HIDE DEF start
    <3> SUFFICES ASSUME NEW k \in 0 .. n
                 PROVE  g[k] = IF k = 0 THEN start ELSE DeleteOne(selected, g[k - 1], k)
      OBVIOUS
    <3>1. CASE k = n
      <4>1. k # 0 /\ n - 1 \in 0 .. n - 1
        BY <3>1
      <4>2. g[k] = DeleteOne(selected, f[n - 1], n) /\ g[n - 1] = f[n - 1]
        BY <2>2, <3>1, <4>1
      <4> QED
        BY <3>1, <4>1, <4>2
    <3>2. CASE k # n
      <4>1. k \in 0 .. n - 1 /\ (k # 0 => k - 1 \in 0 .. n - 1)
        BY <3>2
      <4>2. g[k] = f[k] /\ (k # 0 => g[k - 1] = f[k - 1])
        BY <2>2, <4>1
      <4> QED
        BY <2>3, <4>1, <4>2
    <3> QED
      BY <3>1, <3>2
  <2>5. WalkUpTo(selected, n, g)
    <3> HIDE DEF g
    <3>1. g = [k \in 0 .. n |-> g[k]]
      BY DEF g
    <3> QED
      BY <2>4, <3>1 DEF WalkUpTo
  <2> QED
    BY <2>5
<1>3. Len(page) \in S
  <2> HIDE DEF S
  <2>1. S \subseteq 0 .. Len(page) /\ Len(page) \in Nat
    BY DEF S
  <2> QED
    BY <1>1, <1>2, <2>1, UpTo
<1>4. DeleteLoop(selected) = CHOOSE f : WalkUpTo(selected, Len(page), f)
  BY DEF DeleteLoop, WalkUpTo
<1> QED
  BY <1>3, <1>4

(* After k objects: what is gone from the page was selected and had no id, *)
(* and what is to be deleted by a request was selected, has an id and is   *)
(* among the first k objects that are left.                                *)
WalkOK(selected, w, k) ==
    /\ w \in [page : Seq(Tasks), sent : Seq(Tasks)]
    /\ Once(w.page) /\ ToSet(w.page) \subseteq Shown
    /\ \A t \in Shown \ ToSet(w.page) : t \in selected /\ task[t].id = NoId
    /\ Once(w.sent)
    /\ \A j \in 1 .. Len(w.sent) : w.sent[j] \in selected /\ task[w.sent[j]].id # NoId
    /\ \A j \in 1 .. Len(w.sent) : \E m \in 1 .. Len(w.page) : m <= k /\ w.page[m] = w.sent[j]

LEMMA DeleteOneOK ==
    ASSUME NEW selected, NEW k \in Nat \ {0}, NEW w, WalkOK(selected, w, k - 1)
    PROVE  WalkOK(selected, DeleteOne(selected, w, k), k)
<1> DEFINE n == DeleteOne(selected, w, k)
<1>1. /\ w \in [page : Seq(Tasks), sent : Seq(Tasks)]
      /\ w.page \in Seq(Tasks) /\ w.sent \in Seq(Tasks) /\ Once(w.page) /\ Once(w.sent)
      /\ ToSet(w.page) \subseteq Shown
      /\ \A t \in Shown \ ToSet(w.page) : t \in selected /\ task[t].id = NoId
      /\ \A j \in 1 .. Len(w.sent) : w.sent[j] \in selected /\ task[w.sent[j]].id # NoId
      /\ \A j \in 1 .. Len(w.sent) : \E m \in 1 .. Len(w.page) : m <= k - 1 /\ w.page[m] = w.sent[j]
  BY DEF WalkOK
<1>2. /\ Len(w.page) \in Nat /\ DOMAIN w.page = 1 .. Len(w.page)
      /\ Len(w.sent) \in Nat /\ DOMAIN w.sent = 1 .. Len(w.sent)
  BY <1>1
<1>3. CASE k > Len(w.page) \/ w.page[k] \notin selected
  <2>1. n = w
    BY <1>3 DEF DeleteOne
  <2>2. \A j \in 1 .. Len(w.sent) : \E m \in 1 .. Len(w.page) : m <= k /\ w.page[m] = w.sent[j]
    BY <1>1, <1>2
  <2> HIDE DEF n
  <2> QED
    BY <1>1, <2>1, <2>2 DEF WalkOK, n
<1>4. CASE /\ k \in 1 .. Len(w.page) /\ w.page[k] \in selected
           /\ task[w.page[k]].id = NoId
  <2> DEFINE r == RemoveAt(w.page, k)
  <2>1. n = [w EXCEPT !.page = r]
    BY <1>2, <1>4 DEF DeleteOne
  <2>2. /\ r \in Seq(Tasks) /\ Len(r) = Len(w.page) - 1 /\ Once(r)
        /\ ToSet(r) = ToSet(w.page) \ {w.page[k]}
        /\ \A j \in 1 .. Len(w.page) - 1 : r[j] = IF j < k THEN w.page[j] ELSE w.page[j + 1]
    BY <1>1, <1>4, RemovedAt, RemovedAtOnce
  <2> HIDE DEF r, n
  <2>3. n \in [page : Seq(Tasks), sent : Seq(Tasks)] /\ n.page = r /\ n.sent = w.sent
    BY <1>1, <2>1, <2>2
  <2>4. \A t \in Shown \ ToSet(r) : t \in selected /\ task[t].id = NoId
    BY <1>1, <1>4, <2>2
  <2>5. ASSUME NEW j \in 1 .. Len(w.sent)
        PROVE  \E m \in 1 .. Len(r) : m <= k /\ r[m] = w.sent[j]
    <3>1. PICK m \in 1 .. Len(w.page) : m <= k - 1 /\ w.page[m] = w.sent[j]
      BY <1>1
    <3>2. m \in 1 .. Len(w.page) - 1 /\ m < k /\ m <= k
      BY <1>2, <1>4, <3>1
    <3> QED
      BY <2>2, <3>1, <3>2
  <2>6. WalkOK(selected, n, k)
    BY <1>1, <2>2, <2>3, <2>4, <2>5 DEF WalkOK
  <2> QED
    BY <2>6 DEF n
<1>5. CASE /\ k \in 1 .. Len(w.page) /\ w.page[k] \in selected
           /\ task[w.page[k]].id # NoId
  <2> DEFINE s == Append(w.sent, w.page[k])
  <2>1. n = [w EXCEPT !.sent = s]
    BY <1>2, <1>5 DEF DeleteOne
  <2>2. w.page[k] \in Tasks
    BY <1>1, <1>5
  <2>3. /\ s \in Seq(Tasks) /\ Len(s) = Len(w.sent) + 1
        /\ \A j \in 1 .. Len(w.sent) : s[j] = w.sent[j]
        /\ s[Len(w.sent) + 1] = w.page[k]
    BY <1>1, <2>2, AppendProperties
  <2> HIDE DEF s, n
  <2>4. n \in [page : Seq(Tasks), sent : Seq(Tasks)] /\ n.sent = s /\ n.page = w.page
    BY <1>1, <2>1, <2>3
  <2>5. \A j \in 1 .. Len(w.sent) : w.sent[j] # w.page[k]
    <3> SUFFICES ASSUME NEW j \in 1 .. Len(w.sent), w.sent[j] = w.page[k] PROVE FALSE
      OBVIOUS
    <3>1. PICK m \in 1 .. Len(w.page) : m <= k - 1 /\ w.page[m] = w.sent[j]
      BY <1>1
    <3>2. w.page[m] = w.page[k] /\ m \in DOMAIN w.page /\ k \in DOMAIN w.page
      BY <1>2, <1>5, <3>1
    <3>3. m = k
      BY <1>1, <3>2 DEF Once
    <3> QED
      BY <1>2, <3>1, <3>3
  <2>6. DOMAIN s = 1 .. Len(w.sent) + 1
    BY <2>3
  <2>7. Once(s)
    <3> SUFFICES ASSUME NEW i \in 1 .. Len(w.sent) + 1, NEW j \in 1 .. Len(w.sent) + 1, s[i] = s[j]
                 PROVE  i = j
      BY <2>6 DEF Once
    <3>1. Len(w.sent) \in Nat /\ \A l, m \in 1 .. Len(w.sent) : w.sent[l] = w.sent[m] => l = m
      BY <1>1 DEF Once
    <3>2. CASE i = Len(w.sent) + 1 \/ j = Len(w.sent) + 1
      BY SMTT(30), <2>3, <2>5, <3>1, <3>2
    <3>3. CASE i # Len(w.sent) + 1 /\ j # Len(w.sent) + 1
      BY SMTT(30), <2>3, <3>1, <3>3
    <3> QED
      BY <3>2, <3>3
  <2>8. \A j \in 1 .. Len(s) : s[j] \in selected /\ task[s[j]].id # NoId
    BY <1>1, <1>2, <1>5, <2>3
  <2>9. ASSUME NEW j \in 1 .. Len(s)
        PROVE  \E m \in 1 .. Len(w.page) : m <= k /\ w.page[m] = s[j]
    <3>1. CASE j = Len(w.sent) + 1
      BY <1>5, <2>3, <3>1
    <3>2. CASE j # Len(w.sent) + 1
      <4>1. j \in 1 .. Len(w.sent) /\ s[j] = w.sent[j]
        BY <1>2, <2>3, <3>2
      <4>2. PICK m \in 1 .. Len(w.page) : m <= k - 1 /\ w.page[m] = w.sent[j]
        BY <1>1, <4>1
      <4> QED
        BY <4>1, <4>2
    <3> QED
      BY <3>1, <3>2
  <2>10. WalkOK(selected, n, k)
    BY <1>1, <2>4, <2>7, <2>8, <2>9 DEF WalkOK
  <2> QED
    BY <2>10 DEF n
<1>6. k > Len(w.page) \/ k \in 1 .. Len(w.page)
  BY <1>2
<1> QED
  BY <1>3, <1>4, <1>5, <1>6

LEMMA LoopOK ==
    ASSUME NEW selected, page \in Seq(Tasks), Once(page)
    PROVE  WalkOK(selected, DeleteLoop(selected)[Len(page)], Len(page))
<1> DEFINE f == DeleteLoop(selected)
           start == [page |-> page, sent |-> <<>>]
           S == {k \in 0 .. Len(page) : WalkOK(selected, f[k], k)}
<1>1. f = [k \in 0 .. Len(page) |-> IF k = 0 THEN start ELSE DeleteOne(selected, f[k - 1], k)]
  BY LoopRecursive DEF WalkUpTo
<1> HIDE DEF f
<1>2. \A k \in 0 .. Len(page) : f[k] = IF k = 0 THEN start ELSE DeleteOne(selected, f[k - 1], k)
  BY <1>1
<1>3. Len(page) \in Nat
  OBVIOUS
<1>4. 0 \in S
  <2>1. f[0] = start
    BY <1>2, <1>3
  <2>2. start \in [page : Seq(Tasks), sent : Seq(Tasks)] /\ start.page = page /\ start.sent = <<>>
    OBVIOUS
  <2>3. Once(<<>>) /\ Len(<<>>) = 0
    BY DEF Once
  <2> HIDE DEF start
  <2>4. WalkOK(selected, start, 0)
    BY <2>2, <2>3 DEF WalkOK, Shown
  <2> QED
    BY <1>3, <2>1, <2>4
<1>5. ASSUME NEW k \in 1 .. Len(page), k - 1 \in S
      PROVE  k \in S
  <2>1. f[k] = DeleteOne(selected, f[k - 1], k)
    BY <1>2, <1>3
  <2>2. k \in Nat \ {0} /\ WalkOK(selected, f[k - 1], k - 1)
    BY <1>3, <1>5
  <2> QED
    BY <1>3, <2>1, <2>2, DeleteOneOK
<1>6. S = 0 .. Len(page)
  <2> HIDE DEF S
  <2>1. S \subseteq 0 .. Len(page)
    BY DEF S
  <2> QED
    BY <1>3, <1>4, <1>5, <2>1, UpTo
<1>7. Len(page) \in S
  BY <1>3, <1>6
<1> QED
  BY <1>7 DEF f

(* deleteSelected takes off the page only selected objects without id, and *)
(* sends a request for selected objects with id that stay on it, once      *)
(* each.                                                                   *)
LEMMA LoopFacts ==
    ASSUME NEW selected, page \in Seq(Tasks), Once(page),
           NEW w, w = DeleteLoop(selected)[Len(page)]
    PROVE  /\ w.page \in Seq(Tasks) /\ Once(w.page) /\ ToSet(w.page) \subseteq Shown
           /\ \A t \in Shown \ ToSet(w.page) : t \in selected /\ task[t].id = NoId
           /\ w.sent \in Seq(Tasks) /\ Once(w.sent)
           /\ \A t \in ToSet(w.sent) : t \in selected /\ task[t].id # NoId /\ t \in ToSet(w.page)
<1>1. WalkOK(selected, w, Len(page))
  BY LoopOK
<1>2. w.page \in Seq(Tasks) /\ w.sent \in Seq(Tasks)
  BY <1>1 DEF WalkOK
<1>3. DOMAIN w.page = 1 .. Len(w.page) /\ DOMAIN w.sent = 1 .. Len(w.sent)
  BY <1>2
<1>4. ASSUME NEW t \in ToSet(w.sent)
      PROVE  t \in selected /\ task[t].id # NoId /\ t \in ToSet(w.page)
  <2>1. PICK j \in 1 .. Len(w.sent) : t = w.sent[j]
    BY <1>3 DEF ToSet
  <2>2. \E m \in 1 .. Len(w.page) : w.page[m] = t
    BY <1>1, <2>1 DEF WalkOK
  <2>3. t \in ToSet(w.page)
    BY <1>3, <2>2 DEF ToSet
  <2> QED
    BY <1>1, <2>1, <2>3 DEF WalkOK
<1> QED
  BY <1>1, <1>2, <1>4 DEF WalkOK

-----------------------------------------------------------------------------
(* Requests that are sent.                                                 *)

(* The new requests, at most one for an object.                            *)
NewRequests(kind, ts, new) ==
    /\ new \subseteq Requests /\ calls' = calls \cup new
    /\ \A d \in new : /\ d.of \in ts /\ d.kind = kind /\ d.state = "sent"
                      /\ d.id = task'[d.of].id /\ d.rev = task'[d.of].rev
    /\ \A d, e \in new : d.of = e.of => d = e

LEMMA Sending ==
    ASSUME Types, task' \in [Tasks -> Objects], NEW kind \in {"save", "delete"},
           NEW ts \in Seq(Tasks), Once(ts), Send(kind, ts)
    PROVE  sent' \in Nat /\ \E new : NewRequests(kind, ToSet(ts), new)
<1> DEFINE r(k) == [n |-> sent + k, kind |-> kind, of |-> ts[k], id |-> task'[ts[k]].id,
                    rev |-> task'[ts[k]].rev, state |-> "sent"]
           new == {r(k) : k \in DOMAIN ts}
<1>1. DOMAIN ts = 1 .. Len(ts) /\ Len(ts) \in Nat /\ sent \in Nat
  BY DEF Types
<1>2. calls' = calls \cup new /\ sent' = sent + Len(ts)
  BY DEF Send
<1>3. ASSUME NEW k \in DOMAIN ts
      PROVE  /\ r(k) \in Requests /\ r(k).of = ts[k] /\ r(k).kind = kind /\ r(k).state = "sent"
             /\ r(k).id = task'[ts[k]].id /\ r(k).rev = task'[ts[k]].rev
             /\ ts[k] \in ToSet(ts)
  <2>1. ts[k] \in Tasks /\ ts[k] \in ToSet(ts)
    BY <1>1 DEF ToSet
  <2>2. task'[ts[k]].id \in Ids \cup {NoId} /\ task'[ts[k]].rev \in -1 .. MaxEdits
    BY <2>1 DEF Objects
  <2>3. sent + k \in Nat
    BY <1>1
  <2> QED
    BY <2>1, <2>2, <2>3 DEF Requests
<1> HIDE DEF r
<1>4. \A d \in new : \E k \in DOMAIN ts : d = r(k)
  OBVIOUS
<1>5. \A d, e \in new : d.of = e.of => d = e
  BY <1>3, <1>4 DEF Once
<1>6. NewRequests(kind, ToSet(ts), new)
  <2> HIDE DEF new
  <2>1. new \subseteq Requests
    BY <1>3, <1>4
  <2>2. \A d \in new : /\ d.of \in ToSet(ts) /\ d.kind = kind /\ d.state = "sent"
                       /\ d.id = task'[d.of].id /\ d.rev = task'[d.of].rev
    BY <1>3, <1>4
  <2> QED
    BY <1>2, <1>5, <2>1, <2>2 DEF NewRequests
<1> QED
  BY <1>1, <1>2, <1>6

-----------------------------------------------------------------------------
(* Frames.                                                                 *)

(* Nothing that matters of an object changes.                              *)
SameObject(t) ==
    /\ Single(t)' => Single(t)
    /\ \A c : (c \in calls' /\ c.of = t) <=> (c \in calls /\ c.of = t)
    /\ task'[t].id = task[t].id /\ saved'[t] = saved[t]
    /\ (t \in Shown)' <=> t \in Shown
    /\ foreign \subseteq foreign'
    /\ \A i \in Ids : /\ owner'[i] = t <=> owner[i] = t
                      /\ owner[i] = t => store'[i] = store[i] \/ i \in foreign'

LEMMA SameSingle ==
    ASSUME NEW t, SameObject(t), SingleCalls(t), SingleStored(t)
    PROVE  SingleCalls(t)' /\ SingleStored(t)'
<1>1. SingleCalls(t)'
  BY DEF SameObject, SingleCalls, Saved
<1>2. ASSUME NEW i \in Ids, owner'[i] = t
      PROVE  /\ \A j \in Ids : owner'[j] = t => j = i
             /\ task'[t].id = i \/ \E c \in calls' : c.of = t /\ Saved(c) /\ c.id = i
             /\ i \notin foreign' =>
                 /\ store'[i] # Absent <=> (t \in Shown)' /\ ~ \E c \in calls' : c.of = t /\ Deleted(c)
                 /\ \A c \in calls' : c.of = t /\ Saved(c) => store'[i] = [rev |-> c.rev, rollups |-> 1]
                 /\ (\A c \in calls' : c.of = t => c.state # "ok") /\ saved'[t] # Absent /\ (t \in Shown)'
                        => store'[i] = saved'[t]
  <2>1. owner[i] = t /\ (i \notin foreign' => i \notin foreign /\ store'[i] = store[i])
    BY <1>2 DEF SameObject
  <2>2. \A j \in Ids : owner'[j] = t => j = i
    BY <2>1 DEF SameObject, SingleStored
  <2>3. task'[t].id = i \/ \E c \in calls' : c.of = t /\ Saved(c) /\ c.id = i
    BY <2>1 DEF SameObject, SingleStored
  <2>4. ASSUME i \notin foreign'
        PROVE  /\ store'[i] # Absent <=> (t \in Shown)' /\ ~ \E c \in calls' : c.of = t /\ Deleted(c)
               /\ \A c \in calls' : c.of = t /\ Saved(c) => store'[i] = [rev |-> c.rev, rollups |-> 1]
               /\ (\A c \in calls' : c.of = t => c.state # "ok") /\ saved'[t] # Absent /\ (t \in Shown)'
                      => store'[i] = saved'[t]
    BY <2>1, <2>4 DEF SameObject, SingleStored
  <2> QED
    BY <2>2, <2>3, <2>4
<1>3. SingleStored(t)'
  BY <1>2 DEF SingleStored, Saved, Deleted, Absent
<1> QED
  BY <1>1, <1>3

(* An object without requests and without a task on the server.            *)
LEMMA NoTrace ==
    ASSUME NEW t, \A c \in calls' : c.of # t, \A i \in Ids : owner'[i] # t
    PROVE  SingleCalls(t)' /\ SingleStored(t)'
  BY DEF SingleCalls, SingleStored

(* A step that changes one object.                                         *)
LEMMA OneObject ==
    ASSUME SingleInv, NEW t,
           \A u \in Tasks \ {t} : Single(u)' => SameObject(u),
           Single(t)' => SingleCalls(t)' /\ SingleStored(t)'
    PROVE  SingleInv'
<1>1. ASSUME NEW u \in Tasks, Single(u)'
      PROVE  SingleCalls(u)' /\ SingleStored(u)'
  <2>1. CASE u = t
    BY <1>1, <2>1
  <2>2. CASE u # t
    <3>1. SameObject(u)
      BY <1>1, <2>2
    <3>2. Single(u)
      BY <1>1, <3>1 DEF SameObject
    <3> QED
      BY <3>1, <3>2, SameSingle DEF SingleInv
  <2> QED
    BY <2>1, <2>2
<1> QED
  BY <1>1 DEF SingleInv

-----------------------------------------------------------------------------
(* The user.                                                               *)

(* What saving and deleting have in common: requests are sent for objects  *)
(* that stay on the page, and objects without id may be taken off it.      *)
UserStep(kind, ts, new) ==
    /\ Types' /\ NewRequests(kind, ts, new)
    /\ UNCHANGED <<store, owner, saved, dropped, foreign, loading, list>>
    /\ early \subseteq early' /\ asked \subseteq asked' /\ overlapped \subseteq overlapped'
    /\ \A t \in Tasks : task'[t].id = task[t].id /\ (task'[t].rev = -1 <=> task[t].rev = -1)
    /\ Shown' \subseteq Shown /\ ts \subseteq Shown'
    /\ \A t \in Shown \ Shown' : task[t].id = NoId /\ t \in asked'
    /\ \A t \in ts \cup (Shown \ Shown') : UnderWay(t) # {} => t \in overlapped'
    /\ kind = "delete" => \A t \in ts : task[t].id # NoId /\ t \in asked'
    /\ kind = "save" /\ loading \in {"descriptors", "list"} => ts \subseteq early'

(* One request at a time.                                                  *)
LEMMA NothingUnderWay ==
    ASSUME SingleInv, NEW t \in Tasks, Single(t), UnderWay(t) = {}
    PROVE  \A c \in calls : c.of # t
  BY DEF SingleInv, SingleCalls, UnderWay

LEMMA UserStepInv ==
    ASSUME PageInv, NEW kind \in {"save", "delete"}, NEW ts, NEW new, UserStep(kind, ts, new)
    PROVE  PageInv'
<1>1. UNCHANGED <<store, owner, saved, dropped, foreign, loading, list>>
      /\ early \subseteq early' /\ asked \subseteq asked' /\ overlapped \subseteq overlapped'
      /\ Shown' \subseteq Shown /\ ts \subseteq Shown'
  BY DEF UserStep
<1>2. /\ \A t \in Tasks : task'[t].id = task[t].id /\ (task'[t].rev = -1 <=> task[t].rev = -1)
      /\ Unused' = Unused
  BY DEF UserStep, Unused
<1>3. /\ Types' /\ calls' = calls \cup new
      /\ \A d \in new : /\ d.of \in ts /\ d.kind = kind /\ d.state = "sent"
                        /\ d.id = task'[d.of].id /\ d.rev = task'[d.of].rev /\ d.of \in Tasks
      /\ \A d, e \in new : d.of = e.of => d = e
  BY DEF UserStep, NewRequests, Requests
<1>4. Shown \subseteq Tasks
  BY DEF PageInv, Types, Shown, ToSet
<1>5. UnusedClean'
  <2> SUFFICES ASSUME NEW t \in Unused
               PROVE  /\ t \notin Shown' /\ task'[t].id = NoId /\ saved'[t] = Absent'
                      /\ \A c \in calls' : c.of # t
                      /\ \A i \in Ids : owner'[i] # t
    BY <1>2 DEF UnusedClean
  <2>1. t \in Tasks /\ t \notin Shown /\ task[t].id = NoId /\ saved[t] = Absent
        /\ (\A c \in calls : c.of # t) /\ (\A i \in Ids : owner[i] # t)
    BY DEF PageInv, UnusedClean, Unused
  <2>2. \A d \in new : d.of # t
    BY <1>1, <1>3, <2>1
  <2> QED
    BY <1>1, <1>2, <1>3, <2>1, <2>2 DEF Absent
<1>6. \A i \in Ids, t \in Tasks : OwnerOf(i, t) => OwnerOf(i, t)'
  BY <1>1 DEF OwnerOf
<1>7. IdsKnown'
  <2>1. ASSUME NEW t \in Tasks, task'[t].id # NoId PROVE OwnerOf(task[t].id, t)'
    <3>1. task[t].id \in Ids /\ OwnerOf(task[t].id, t) /\ task'[t].id = task[t].id
      BY <1>2, <2>1 DEF PageInv, IdsKnown, Types, Objects
    <3> QED
      BY <1>1, <3>1 DEF OwnerOf
  <2>2. ASSUME NEW c \in calls', c.id # NoId PROVE OwnerOf(c.id, c.of)'
    <3>1. CASE c \in calls
      BY <1>6, <2>2, <3>1 DEF PageInv, IdsKnown, Types, Requests
    <3>2. CASE c \in new
      <4>1. c.of \in Tasks /\ c.id = task[c.of].id /\ c.id \in Ids
        BY <1>2, <1>3, <2>2, <3>2 DEF PageInv, Types, Objects
      <4>2. OwnerOf(c.id, c.of)
        BY <2>2, <4>1 DEF PageInv, IdsKnown
      <4> QED
        BY <1>6, <4>1, <4>2
    <3> QED
      BY <1>3, <3>1, <3>2
  <2> QED
    BY <2>1, <2>2 DEF IdsKnown
<1>8. CallsMade'
  <2> SUFFICES ASSUME NEW c \in calls'
               PROVE  /\ c.kind = "delete" => c.id # NoId /\ c.of \in asked'
                      /\ c.state = "ok" => c.id # NoId
                      /\ c.rev # -1
    BY DEF CallsMade
  <2>1. CASE c \in calls
    BY <1>1, <2>1 DEF PageInv, CallsMade
  <2>2. CASE c \in new
    <3>1. c.of \in Tasks /\ c.of \in ts /\ c.of \in Shown
      BY <1>1, <1>3, <2>2
    <3>2. c.rev # -1
      BY <1>2, <1>3, <2>2, <3>1 DEF PageInv, UnusedClean, Unused
    <3>3. kind = "delete" => c.id # NoId /\ c.of \in asked'
      BY <1>2, <1>3, <2>2, <3>1 DEF UserStep
    <3> QED
      BY <1>3, <2>2, <3>2, <3>3
  <2> QED
    BY <1>3, <2>1, <2>2
<1>9. ListFresh'
  <2>1. ASSUME loading \in {"descriptors", "list"}
        PROVE  /\ \A c \in calls' : c.kind = "save" => c.of \in early'
               /\ \A i \in Ids : owner'[i] # NoTask => owner'[i] \in early'
    <3>1. \A c \in new : c.kind = "save" => c.of \in early'
      BY <1>3, <2>1 DEF UserStep
    <3> QED
      BY <1>1, <1>3, <2>1, <3>1 DEF PageInv, ListFresh
  <2>2. ASSUME loading = "listed"
        PROVE  \A i \in DOMAIN list : IF owner[i] = NoTask THEN store[i] # Absent \/ i \in foreign
                                      ELSE owner[i] \in early'
    BY <1>1, <2>2 DEF PageInv, ListFresh
  <2> QED
    BY <1>1, <2>1, <2>2 DEF ListFresh, Absent
<1>10. Gone'
  <2>1. Tasks \ (Unused \cup Shown') \subseteq asked'
    BY <1>1 DEF PageInv, Gone, UserStep
  <2>2. \A i \in Ids \ foreign : store[i] = Absent /\ owner[i] # NoTask => owner[i] \in asked' \cup early'
    BY <1>1 DEF PageInv, Gone
  <2> QED
    BY <1>1, <1>2, <2>1, <2>2 DEF Gone, Absent
<1>11. SingleInv'
  <2> SUFFICES ASSUME NEW t \in Tasks, Single(t)' PROVE SingleCalls(t)' /\ SingleStored(t)'
    BY DEF SingleInv
  <2>1. Single(t)
    BY <1>1 DEF Single
  <2>2. SingleCalls(t) /\ SingleStored(t)
    BY <2>1 DEF PageInv, SingleInv
  <2>3. CASE t \in ts
    <3>1. UnderWay(t) = {}
      BY <2>3 DEF UserStep, Single
    <3>2. \A c \in calls : c.of # t
      BY <2>1, <3>1, NothingUnderWay DEF PageInv
    <3>3. SingleCalls(t)'
      BY <1>1, <1>3, <2>3, <3>2 DEF SingleCalls, Saved
    <3>4. ASSUME NEW i \in Ids, owner'[i] = t
          PROVE  /\ \A j \in Ids : owner'[j] = t => j = i
                 /\ task'[t].id = i
                 /\ i \notin foreign' => /\ store'[i] # Absent
                                         /\ saved'[t] # Absent => store'[i] = saved'[t]
      <4>1. t \in Shown /\ owner[i] = t
        BY <1>1, <2>3, <3>4
      <4>2. \A j \in Ids : owner[j] = t => j = i
        BY <2>2, <4>1 DEF SingleStored
      <4>3. task[t].id = i
        BY <2>2, <3>2, <4>1 DEF SingleStored
      <4>4. i \notin foreign => store[i] # Absent /\ (saved[t] # Absent => store[i] = saved[t])
        BY <2>2, <3>2, <4>1 DEF SingleStored
      <4> QED
        BY <1>1, <1>2, <4>2, <4>3, <4>4
    <3>5. \A c \in calls' : c.of = t => c.state = "sent"
      BY <1>3, <3>2
    <3>6. SingleStored(t)'
      BY <1>1, <2>3, <3>4, <3>5 DEF SingleStored, Saved, Deleted, Absent
    <3> QED
      BY <3>3, <3>6
  <2>4. CASE t \in Shown \ Shown'
    <3>1. UnderWay(t) = {} /\ task[t].id = NoId
      BY <2>4 DEF UserStep, Single
    <3>2. \A c \in calls : c.of # t
      BY <2>1, <3>1, NothingUnderWay DEF PageInv
    <3>3. \A i \in Ids : owner[i] # t
      BY <2>2, <3>1, <3>2, NoTaskAssumption DEF SingleStored
    <3>4. \A c \in calls' : c.of # t
      BY <1>1, <1>3, <2>4, <3>2
    <3> QED
      BY <1>1, <3>3, <3>4, NoTrace
  <2>5. CASE t \notin ts /\ t \notin Shown \ Shown'
    <3>1. \A c : (c \in calls' /\ c.of = t) <=> (c \in calls /\ c.of = t)
      BY <1>3, <2>5
    <3>2. t \in Shown' <=> t \in Shown
      BY <1>1, <2>5
    <3>3. SameObject(t)
      BY <1>1, <1>2, <2>1, <3>1, <3>2 DEF SameObject
    <3> QED
      BY <2>2, <3>3, SameSingle
  <2> QED
    BY <2>3, <2>4, <2>5
<1> QED
  BY <1>3, <1>5, <1>7, <1>8, <1>9, <1>10, <1>11 DEF PageInv

LEMMA OneOfEach ==
    ASSUME NEW t \in Tasks
    PROVE  <<t>> \in Seq(Tasks) /\ Once(<<t>>) /\ ToSet(<<t>>) = {t}
  BY DEF Once, ToSet

LEMMA ChangedObject ==
    ASSUME Types, NEW t \in Tasks, NEW incomplete \in BOOLEAN, edits < MaxEdits, edits' = edits + 1,
           task' = [task EXCEPT ![t].rev = edits', ![t].incomplete = incomplete]
    PROVE  /\ task' \in [Tasks -> Objects] /\ edits' \in 0 .. MaxEdits
           /\ \A u \in Tasks : task'[u].id = task[u].id
           /\ \A u \in Tasks \ {t} : task'[u] = task[u]
           /\ task'[t].rev # -1
<1>1. edits \in 0 .. MaxEdits /\ MaxEdits \in Nat /\ task[t] \in Objects /\ task \in [Tasks -> Objects]
  BY PageBoundsAssumption DEF Types
<1>2. edits' \in 0 .. MaxEdits /\ edits' \in -1 .. MaxEdits /\ edits' # -1
  BY <1>1
<1> DEFINE x == [task[t] EXCEPT !.rev = edits', !.incomplete = incomplete]
<1>3. x \in Objects /\ x.id = task[t].id /\ x.rev = edits'
  BY <1>1, <1>2 DEF Objects
<1>4. task' = [task EXCEPT ![t] = x]
  BY <1>1 DEF Objects
<1> HIDE DEF x
<1> QED
  BY <1>1, <1>2, <1>3, <1>4

LEMMA ChangeUnsavedInv ==
    ASSUME PageInv, NEW t \in Tasks, NEW incomplete \in BOOLEAN, ChangeUnsaved(t, incomplete)
    PROVE  PageInv'
<1>1. /\ t \in Shown /\ edits < MaxEdits /\ edits' = edits + 1
      /\ task' = [task EXCEPT ![t].rev = edits', ![t].incomplete = incomplete]
      /\ UNCHANGED <<store, page, calls, loading, list, owner, saved, asked, overlapped, dropped, early,
                     foreign, sent, faults>>
  BY DEF ChangeUnsaved, Change, history
<1>2. task[t].rev # -1
  BY <1>1 DEF PageInv, UnusedClean, Unused
<1>3. /\ task' \in [Tasks -> Objects] /\ edits' \in 0 .. MaxEdits
      /\ \A u \in Tasks : task'[u].id = task[u].id /\ (task'[u].rev = -1 <=> task[u].rev = -1)
  BY <1>1, <1>2, ChangedObject DEF PageInv
<1>4. Types'
  BY <1>1, <1>3 DEF PageInv, Types, Once
<1>5. Shown' = Shown
  BY <1>1 DEF Shown
<1>6. UserStep("save", {}, {})
  BY <1>1, <1>3, <1>4, <1>5 DEF UserStep, NewRequests
<1> QED
  BY <1>6, UserStepInv

LEMMA BlurInv ==
    ASSUME PageInv, NEW t \in Tasks, Blur(t)
    PROVE  PageInv'
<1>1. /\ SaveTask(t) /\ t \in Shown
      /\ UNCHANGED <<store, page, loading, list, owner, saved, asked, dropped, foreign, faults>>
  BY DEF Blur, Change
<1>2. task[t].rev # -1
  BY <1>1 DEF PageInv, UnusedClean, Unused
<1>3. /\ task' \in [Tasks -> Objects] /\ edits' \in 0 .. MaxEdits
      /\ \A u \in Tasks : task'[u].id = task[u].id /\ (task'[u].rev = -1 <=> task[u].rev = -1)
  <2>1. CASE Change(t, FALSE)
    BY <1>2, <2>1, ChangedObject DEF PageInv, Change
  <2>2. CASE UNCHANGED <<task, edits>>
    BY <2>2 DEF PageInv, Types
  <2> QED
    BY <2>1, <2>2 DEF Blur
<1>4. /\ Send("save", <<t>>) /\ overlapped' = overlapped \cup {u \in {t} : UnderWay(u) # {}}
      /\ early' = IF loading \in {"descriptors", "list"} THEN early \cup {t} ELSE early
  BY <1>1 DEF SaveTask, ActOn
<1>5. sent' \in Nat /\ \E new : NewRequests("save", {t}, new)
  <2>1. Send("save", <<t>>) /\ task' \in [Tasks -> Objects] /\ Types
    BY <1>3, <1>4 DEF PageInv
  <2>2. <<t>> \in Seq(Tasks) /\ Once(<<t>>) /\ ToSet(<<t>>) = {t}
    BY OneOfEach
  <2>3. sent' \in Nat /\ \E new : NewRequests("save", ToSet(<<t>>), new)
    BY <2>1, <2>2, Sending
  <2> QED
    BY <2>2, <2>3
<1>6. PICK new : NewRequests("save", {t}, new)
  BY <1>5
<1>7. calls' \subseteq Requests
  BY <1>6 DEF NewRequests, PageInv, Types
<1>8. Types'
  BY <1>1, <1>3, <1>5, <1>7 DEF PageInv, Types, Once
<1>9. Shown' = Shown
  BY <1>1 DEF Shown
<1>10. UserStep("save", {t}, new)
  BY <1>1, <1>3, <1>4, <1>6, <1>8, <1>9 DEF UserStep
<1> QED
  BY <1>10, UserStepInv

LEMMA DeleteTaskInv ==
    ASSUME PageInv, NEW t \in Tasks, DeleteTask(t)
    PROVE  PageInv'
<1>1. /\ t \in Shown /\ asked' = asked \cup {t}
      /\ overlapped' = overlapped \cup {u \in {t} : UnderWay(u) # {}}
      /\ UNCHANGED <<task, store, loading, list, owner, saved, dropped, early, foreign, edits, faults>>
  BY DEF DeleteTask, ActOn
<1>2. task' \in [Tasks -> Objects]
  BY <1>1 DEF PageInv, Types
<1>3. CASE task[t].id = NoId
  <2>1. page' = RemoveFirst(page, t) /\ UNCHANGED <<calls, sent>>
    BY <1>3 DEF DeleteTask
  <2>2. page \in Seq(Tasks) /\ Once(page)
    BY DEF PageInv, Types
  <2>3. page' \in Seq(Tasks) /\ Once(page') /\ ToSet(page') = ToSet(page) \ {t}
    BY <2>1, <2>2, RemovedFirst
  <2>4. Types'
    BY <1>1, <2>1, <2>3 DEF PageInv, Types, Once
  <2>5. Shown' = Shown \ {t}
    BY <2>3 DEF Shown
  <2>6. UserStep("delete", {}, {})
    BY <1>1, <1>3, <2>1, <2>4, <2>5 DEF UserStep, NewRequests
  <2> QED
    BY <2>6, UserStepInv
<1>4. CASE task[t].id # NoId
  <2>1. Send("delete", <<t>>) /\ UNCHANGED page
    BY <1>4 DEF DeleteTask
  <2>2. sent' \in Nat /\ \E new : NewRequests("delete", {t}, new)
    BY <1>2, <2>1, OneOfEach, Sending DEF PageInv
  <2>3. PICK new : NewRequests("delete", {t}, new)
    BY <2>2
  <2>4. calls' \subseteq Requests
    BY <2>3 DEF NewRequests, PageInv, Types
  <2>5. Types'
    BY <1>1, <2>1, <2>2, <2>4 DEF PageInv, Types, Once
  <2>6. Shown' = Shown
    BY <2>1 DEF Shown
  <2>7. UserStep("delete", {t}, new)
    BY <1>1, <1>4, <2>3, <2>5, <2>6 DEF UserStep
  <2> QED
    BY <2>7, UserStepInv
<1> QED
  BY <1>3, <1>4

LEMMA DeleteSelectedInv ==
    ASSUME PageInv, NEW selected, DeleteSelected(selected)
    PROVE  PageInv'
<1> DEFINE walk == DeleteLoop(selected)[Len(page)]
           ts == ToSet(walk.sent)
<1>1. /\ selected \subseteq Shown /\ asked' = asked \cup selected /\ page' = walk.page
      /\ Send("delete", walk.sent)
      /\ overlapped' = overlapped \cup {u \in ts \cup (Shown \ ToSet(walk.page)) : UnderWay(u) # {}}
      /\ UNCHANGED <<task, store, loading, list, owner, saved, dropped, early, foreign, edits, faults>>
  BY DEF DeleteSelected, ActOn
<1>2. page \in Seq(Tasks) /\ Once(page) /\ task' \in [Tasks -> Objects]
  BY <1>1 DEF PageInv, Types
<1>3. /\ walk.page \in Seq(Tasks) /\ Once(walk.page) /\ ToSet(walk.page) \subseteq Shown
      /\ \A t \in Shown \ ToSet(walk.page) : t \in selected /\ task[t].id = NoId
      /\ walk.sent \in Seq(Tasks) /\ Once(walk.sent)
      /\ \A t \in ts : t \in selected /\ task[t].id # NoId /\ t \in ToSet(walk.page)
  BY <1>2, LoopFacts
<1> HIDE DEF walk
<1>4. sent' \in Nat /\ \E new : NewRequests("delete", ts, new)
  BY <1>1, <1>2, <1>3, Sending DEF PageInv
<1> HIDE DEF ts
<1>5. PICK new : NewRequests("delete", ts, new)
  BY <1>4
<1>6. calls' \subseteq Requests
  BY <1>5 DEF NewRequests, PageInv, Types
<1>7. Types'
  BY <1>1, <1>3, <1>4, <1>6 DEF PageInv, Types, Once
<1>8. Shown' = ToSet(walk.page)
  BY <1>1 DEF Shown
<1>9. UserStep("delete", ts, new)
  BY <1>1, <1>3, <1>5, <1>7, <1>8 DEF UserStep
<1> QED
  BY <1>9, UserStepInv

LEMMA AddTaskInv ==
    ASSUME PageInv, NEW t \in Tasks, AddTask(t)
    PROVE  PageInv'
<1>1. /\ t \in Unused /\ page' = Append(page, t)
      /\ task' = [task EXCEPT ![t] = [Bare EXCEPT !.rev = 0]]
      /\ UNCHANGED <<store, calls, loading, list, owner, saved, asked, overlapped, dropped, early,
                     foreign, edits, sent, faults>>
  BY DEF AddTask, history, bounds
<1>2. /\ t \notin Shown /\ task[t].id = NoId
      /\ (\A c \in calls : c.of # t) /\ (\A i \in Ids : owner[i] # t)
  BY <1>1 DEF PageInv, UnusedClean
<1>3. page \in Seq(Tasks) /\ Once(page) /\ task \in [Tasks -> Objects]
  BY DEF PageInv, Types
<1>4. /\ page' \in Seq(Tasks) /\ Len(page') = Len(page) + 1
      /\ (\A j \in 1 .. Len(page) : page'[j] = page[j]) /\ page'[Len(page) + 1] = t
  BY <1>1, <1>3, AppendProperties
<1>5. Len(page) \in Nat /\ DOMAIN page = 1 .. Len(page) /\ DOMAIN page' = 1 .. Len(page) + 1
  BY <1>3, <1>4
<1>6. Shown' = Shown \cup {t}
  <2>1. \A j \in 1 .. Len(page) + 1 : j \in 1 .. Len(page) \/ j = Len(page) + 1
    BY <1>5
  <2> QED
    BY <1>4, <1>5, <2>1 DEF Shown, ToSet
<1>7. Once(page')
  <2>1. \A j \in 1 .. Len(page) : page[j] # t
    BY <1>2, <1>5 DEF Shown, ToSet
  <2> QED
    BY <1>3, <1>4, <1>5, <2>1 DEF Once
<1> DEFINE x == [Bare EXCEPT !.rev = 0]
<1>8. x \in Objects /\ x.id = NoId /\ x.rev = 0
  <2>1. 0 \in -1 .. MaxEdits
    BY PageBoundsAssumption
  <2> QED
    BY <2>1 DEF Bare, Objects
<1> HIDE DEF x
<1>9. /\ task' \in [Tasks -> Objects] /\ task'[t].id = NoId /\ task'[t].rev # -1
      /\ \A u \in Tasks \ {t} : task'[u] = task[u]
  BY <1>1, <1>3, <1>8 DEF x
<1>10. Types'
  BY <1>1, <1>4, <1>7, <1>9 DEF PageInv, Types, Once
<1>11. Unused' = Unused \ {t}
  BY <1>9 DEF Unused
<1>12. UnusedClean'
  BY <1>1, <1>6, <1>9, <1>11 DEF PageInv, UnusedClean, Unused, Absent
<1>13. IdsKnown'
  BY <1>1, <1>2, <1>9 DEF PageInv, IdsKnown, OwnerOf
<1>14. CallsMade'
  BY <1>1 DEF PageInv, CallsMade
<1>15. ListFresh'
  BY <1>1 DEF PageInv, ListFresh, Absent
<1>16. Gone'
  BY <1>1, <1>6, <1>11 DEF PageInv, Gone, Absent
<1>17. ASSUME NEW u \in Tasks \ {t}, Single(u)' PROVE SameObject(u)
  BY <1>1, <1>6, <1>9, <1>17 DEF SameObject, Single
<1>18. SingleCalls(t)' /\ SingleStored(t)'
  BY <1>1, <1>2, NoTrace
<1>19. SingleInv'
  BY <1>17, <1>18, OneObject DEF PageInv
<1> QED
  BY <1>10, <1>12, <1>13, <1>14, <1>15, <1>16, <1>19 DEF PageInv

-----------------------------------------------------------------------------
(* The server.                                                             *)

(* What serving a request changes of calls.                                *)
Answered(c, s, i, d) ==
    /\ d \in Requests /\ d.state = s /\ d.id = i
    /\ d.kind = c.kind /\ d.of = c.of /\ d.rev = c.rev
    /\ calls' = (calls \ {c}) \cup (IF c.state = "ghost" THEN {} ELSE {d})

LEMMA Serving ==
    ASSUME Types, NEW c \in calls, NEW s \in {"ok", "refused"}, NEW i \in Ids \cup {NoId},
           Serve(c, s, i)
    PROVE  \E d : Answered(c, s, i, d)
<1> DEFINE d == [c EXCEPT !.state = s, !.id = i]
<1>1. c \in Requests /\ s \in {"sent", "ok", "refused", "ghost"}
  BY DEF Types
<1>2. d \in Requests /\ d.state = s /\ d.id = i /\ d.kind = c.kind /\ d.of = c.of /\ d.rev = c.rev
  BY <1>1 DEF Requests
<1>3. calls' = (calls \ {c}) \cup (IF c.state = "ghost" THEN {} ELSE {d})
  BY DEF Serve
<1> HIDE DEF d
<1> QED
  BY <1>2, <1>3 DEF Answered

(* The parts of the invariant that a step at one request and the task with *)
(* its id can touch.                                                       *)
LEMMA RequestStepInv ==
    ASSUME PageInv, NEW c \in calls, NEW i \in Ids \cup {NoId}, NEW s \in {"ok", "refused"}, NEW d,
           Answered(c, s, i, d), Types',
           UNCHANGED <<page, task, loading, list, saved, asked, overlapped, dropped, early, foreign>>,
           \A j \in Ids : owner'[j] = owner[j] \/ (owner[j] = NoTask /\ owner'[j] = c.of),
           s = "ok" => i # NoId,
           i # NoId => owner'[i] # NoTask /\ (owner'[i] = c.of \/ owner'[i] \in early),
           c.kind = "delete" => i # NoId
    PROVE  UnusedClean' /\ IdsKnown' /\ CallsMade'
<1>1. c \in Requests /\ c.of \in Tasks /\ c.of # NoTask /\ calls \subseteq Requests
  BY NoTaskAssumption DEF PageInv, Types, Requests
<1>2. \A e \in calls' : e \in calls \/ (e = d /\ e.of = c.of)
  BY DEF Answered
<1>3. Unused' = Unused /\ Shown' = Shown
  BY DEF Unused, Shown
<1>4. UnusedClean'
  <2>1. ASSUME NEW t \in Unused PROVE c.of # t
    BY <2>1 DEF PageInv, UnusedClean
  <2> QED
    BY <1>2, <1>3, <2>1 DEF PageInv, UnusedClean, Absent
<1>5. \A j \in Ids, t \in Tasks : OwnerOf(j, t) => OwnerOf(j, t)'
  BY DEF OwnerOf
<1>6. IdsKnown'
  <2>1. ASSUME NEW t \in Tasks, task[t].id # NoId PROVE OwnerOf(task[t].id, t)'
    <3>1. task[t].id \in Ids /\ OwnerOf(task[t].id, t)
      BY <2>1 DEF PageInv, IdsKnown, Types, Objects
    <3> QED
      BY <3>1 DEF OwnerOf
  <2>2. ASSUME NEW e \in calls', e.id # NoId PROVE OwnerOf(e.id, e.of)'
    <3>1. CASE e \in calls
      <4>1. e.id \in Ids /\ e.of \in Tasks /\ OwnerOf(e.id, e.of)
        BY <1>1, <2>2, <3>1 DEF PageInv, IdsKnown, Requests
      <4> QED
        BY <1>5, <4>1
    <3>2. CASE e = d
      BY <2>2, <3>2 DEF Answered, OwnerOf
    <3> QED
      BY <1>2, <3>1, <3>2
  <2> QED
    BY <2>1, <2>2 DEF IdsKnown
<1>7. CallsMade'
  <2>1. d.kind = "delete" => d.id # NoId /\ d.of \in asked
    BY DEF PageInv, CallsMade, Answered
  <2>2. d.state = "ok" => d.id # NoId
    BY DEF Answered
  <2>3. d.rev # -1
    BY DEF PageInv, CallsMade, Answered
  <2> QED
    BY <1>2, <2>1, <2>2, <2>3 DEF PageInv, CallsMade
<1> QED
  BY <1>4, <1>6, <1>7

(* The only request of an object that was handled one at a time.           *)
LEMMA OnlyRequest ==
    ASSUME PageInv, NEW c \in calls, Single(c.of)
    PROVE  /\ \A e \in calls : e.of = c.of => e = c
           /\ c.state # "ghost" /\ c.of \in Shown
           /\ task[c.of].id \in (IF Saved(c) THEN {NoId, c.id} ELSE {c.id})
           /\ SingleStored(c.of)
<1>1. c.of \in Tasks
  BY DEF PageInv, Types, Requests
<1>2. SingleCalls(c.of) /\ SingleStored(c.of)
  BY <1>1 DEF PageInv, SingleInv
<1> QED
  BY <1>2 DEF SingleCalls

LEMMA ServeSaveInv ==
    ASSUME PageInv, NEW c \in calls, ServeSave(c)
    PROVE  PageInv'
<1>1. PICK i \in Ids :
         /\ IF c.id = NoId THEN Fresh(i) ELSE i = c.id
         /\ store' = [store EXCEPT ![i] = [rev |-> c.rev, rollups |-> 1]]
         /\ owner' = [owner EXCEPT ![i] = IF @ = NoTask THEN c.of ELSE @]
         /\ Serve(c, "ok", i)
  BY DEF ServeSave
<1>2. /\ c.kind = "save" /\ c.state \in {"sent", "ghost"}
      /\ UNCHANGED <<page, task, loading, list, saved, asked, overlapped, dropped, early, foreign,
                     edits, sent, faults>>
  BY DEF ServeSave, bounds
<1>3. c \in Requests /\ c.of \in Tasks /\ c.of # NoTask /\ c.rev \in -1 .. MaxEdits /\ c.rev # -1
  BY NoTaskAssumption DEF PageInv, Types, Requests, CallsMade
<1>4. PICK d : Answered(c, "ok", i, d)
  BY <1>1, Serving DEF PageInv
<1>5. /\ store'[i] = [rev |-> c.rev, rollups |-> 1] /\ store'[i] # Absent
      /\ \A j \in Ids \ {i} : store'[j] = store[j] /\ owner'[j] = owner[j]
      /\ owner'[i] = IF owner[i] = NoTask THEN c.of ELSE owner[i]
      /\ store' \in [Ids -> Contents] /\ owner' \in [Ids -> Tasks \cup {NoTask}]
  BY <1>1, <1>3 DEF PageInv, Types, Contents, Absent
<1>6. c.id # NoId => i = c.id /\ owner[i] # NoTask /\ (owner[i] = c.of \/ owner[i] \in early)
  BY <1>1 DEF PageInv, IdsKnown, OwnerOf
<1>7. c.id = NoId => owner[i] = NoTask /\ store[i] = Absent /\ i \notin foreign
  BY <1>1 DEF Fresh
<1>8. Types'
  BY <1>2, <1>4, <1>5 DEF PageInv, Types, Once, Answered
<1>9. UnusedClean' /\ IdsKnown' /\ CallsMade'
  <2>1. \A j \in Ids : owner'[j] = owner[j] \/ (owner[j] = NoTask /\ owner'[j] = c.of)
    BY <1>5
  <2>2. i # NoId /\ owner'[i] # NoTask /\ (owner'[i] = c.of \/ owner'[i] \in early)
    BY <1>3, <1>5, <1>6, <1>7, NoTaskAssumption
  <2> QED
    BY <1>2, <1>4, <1>8, <2>1, <2>2, RequestStepInv
<1>10. ListFresh'
  <2>1. ASSUME loading \in {"descriptors", "list"}
        PROVE  /\ \A e \in calls' : e.kind = "save" => e.of \in early
               /\ \A j \in Ids : owner'[j] # NoTask => owner'[j] \in early
    <3>1. \A e \in calls : e.kind = "save" => e.of \in early
      BY <2>1 DEF PageInv, ListFresh
    <3>2. c.of \in early /\ \A j \in Ids : owner[j] # NoTask => owner[j] \in early
      BY <1>2, <2>1 DEF PageInv, ListFresh
    <3> QED
      BY <1>4, <1>5, <3>1, <3>2 DEF Answered
  <2>2. ASSUME loading = "listed", NEW j \in DOMAIN list
        PROVE  IF owner'[j] = NoTask THEN store'[j] # Absent \/ j \in foreign ELSE owner'[j] \in early
    <3>1. IF owner[j] = NoTask THEN store[j] # Absent \/ j \in foreign ELSE owner[j] \in early
      BY <2>2 DEF PageInv, ListFresh
    <3>2. j \in Ids
      BY <2>2 DEF PageInv, Types
    <3>3. CASE j = i
      <4>1. owner[i] # NoTask
        BY <1>6, <1>7, <3>1, <3>3
      <4> QED
        BY <1>5, <3>1, <3>3, <4>1
    <3>4. CASE j # i
      BY <1>5, <3>1, <3>2, <3>4
    <3> QED
      BY <3>3, <3>4
  <2> QED
    BY <1>2, <2>1, <2>2 DEF ListFresh, Absent
<1>11. Gone'
  <2>1. Unused' = Unused /\ Shown' = Shown
    BY <1>2 DEF Unused, Shown
  <2>2. \A j \in Ids \ foreign : store'[j] = Absent /\ owner'[j] # NoTask => owner'[j] \in asked \cup early
    BY <1>5 DEF PageInv, Gone
  <2> QED
    BY <1>2, <2>1, <2>2 DEF PageInv, Gone, Absent
<1>12. ASSUME NEW u \in Tasks \ {c.of}, Single(u)' PROVE SameObject(u)
  <2>1. Single(u)
    BY <1>2, <1>12 DEF Single
  <2>2. owner[i] # u
    BY <1>6, <1>7, <1>12, <2>1, NoTaskAssumption DEF Single
  <2>3. \A e : (e \in calls' /\ e.of = u) <=> (e \in calls /\ e.of = u)
    BY <1>4, <1>12 DEF Answered
  <2>4. \A j \in Ids : (owner'[j] = u <=> owner[j] = u) /\ (owner[j] = u => store'[j] = store[j])
    BY <1>5, <1>12, <2>2
  <2>5. Shown' = Shown
    BY <1>2 DEF Shown
  <2> QED
    BY <1>2, <2>1, <2>3, <2>4, <2>5 DEF SameObject
<1>13. ASSUME Single(c.of)' PROVE SingleCalls(c.of)' /\ SingleStored(c.of)'
  <2> DEFINE t == c.of
  <2>1. Single(t)
    BY <1>2, <1>13 DEF Single
  <2>2. /\ \A e \in calls : e.of = t => e = c
        /\ c.state = "sent" /\ t \in Shown /\ task[t].id = c.id /\ SingleStored(t)
    BY <1>2, <2>1, OnlyRequest DEF Saved
  <2>3. /\ \A e \in calls' : e.of = t => e = d
        /\ d \in calls' /\ d.of = t /\ d.kind = "save" /\ d.state = "ok" /\ d.id = i /\ d.rev = c.rev
    BY <1>2, <1>4, <2>2 DEF Answered
  <2>4. Shown' = Shown
    BY <1>2 DEF Shown
  <2> HIDE DEF t
  <2>5. task[t].id \in {NoId, i}
    BY <1>6, <2>2
  <2>6. SingleCalls(t)'
    BY <1>2, <2>2, <2>3, <2>4, <2>5 DEF SingleCalls, Saved
  <2>7. ASSUME NEW j \in Ids, owner'[j] = t PROVE j = i
    <3> SUFFICES ASSUME j # i PROVE FALSE
      OBVIOUS
    <3>1. owner[j] = t
      BY <1>5, <2>7
    <3>2. task[t].id = j
      BY <1>2, <2>2, <3>1 DEF SingleStored, Saved
    <3> QED
      BY <1>6, <2>2, <3>2, NoTaskAssumption
  <2>8. SingleStored(t)'
    BY <1>5, <2>2, <2>3, <2>4, <2>7 DEF SingleStored, Saved, Deleted, Absent
  <2> QED
    BY <2>6, <2>8 DEF t
<1>14. SingleInv'
  BY <1>12, <1>13, OneObject DEF PageInv
<1> QED
  BY <1>8, <1>9, <1>10, <1>11, <1>14 DEF PageInv

LEMMA ServeDeleteInv ==
    ASSUME PageInv, NEW c \in calls, ServeDelete(c)
    PROVE  PageInv'
<1> DEFINE s == IF store[c.id] = Absent THEN "refused" ELSE "ok"
           i == c.id
<1>1. /\ c.kind = "delete" /\ c.state \in {"sent", "ghost"}
      /\ Serve(c, s, i) /\ store' = [store EXCEPT ![i] = Absent]
      /\ UNCHANGED <<page, task, loading, list, owner, saved, asked, overlapped, dropped, early, foreign,
                     edits, sent, faults>>
  BY DEF ServeDelete, history, bounds
<1>2. s \in {"ok", "refused"}
  OBVIOUS
<1>3. c \in Requests /\ c.of \in Tasks /\ i \in Ids /\ c.of \in asked
      /\ owner[i] # NoTask /\ (owner[i] = c.of \/ owner[i] \in early)
  BY <1>1 DEF PageInv, Types, Requests, CallsMade, IdsKnown, OwnerOf
<1>4. PICK d : Answered(c, s, i, d)
  BY <1>1, <1>3, Serving DEF PageInv
<1>5. /\ store'[i] = Absent /\ \A j \in Ids \ {i} : store'[j] = store[j]
      /\ store' \in [Ids -> Contents]
  <2>1. Absent \in Contents
    BY PageBoundsAssumption DEF Absent, Contents
  <2> QED
    BY <1>1, <1>3, <2>1 DEF PageInv, Types
<1>6. (s = "ok" => store[i] # Absent) /\ (store[i] # Absent => s = "ok")
  OBVIOUS
<1> HIDE DEF s, i
<1>7. Types'
  BY <1>1, <1>4, <1>5 DEF PageInv, Types, Once, Answered
<1>8. i # NoId
  BY <1>3, NoTaskAssumption
<1>9. UnusedClean' /\ IdsKnown' /\ CallsMade'
  BY <1>1, <1>2, <1>3, <1>4, <1>7, <1>8, RequestStepInv
<1>10. ListFresh'
  <2>1. ASSUME loading \in {"descriptors", "list"}
        PROVE  \A e \in calls' : e.kind = "save" => e.of \in early
    BY <1>1, <1>4, <2>1 DEF PageInv, ListFresh, Answered
  <2>2. ASSUME loading = "listed", NEW j \in DOMAIN list
        PROVE  IF owner[j] = NoTask THEN store'[j] # Absent \/ j \in foreign ELSE owner[j] \in early
    BY <1>3, <1>5, <2>2 DEF PageInv, ListFresh, Types
  <2>3. ASSUME loading \in {"descriptors", "list"}
        PROVE  \A j \in Ids : owner[j] # NoTask => owner[j] \in early
    BY <2>3 DEF PageInv, ListFresh
  <2> QED
    BY <1>1, <2>1, <2>2, <2>3 DEF ListFresh, Absent
<1>11. Gone'
  <2>1. Unused' = Unused /\ Shown' = Shown
    BY <1>1 DEF Unused, Shown
  <2>2. \A j \in Ids \ foreign : store'[j] = Absent /\ owner[j] # NoTask => owner[j] \in asked \cup early
    BY <1>3, <1>5 DEF PageInv, Gone
  <2> QED
    BY <1>1, <2>1, <2>2 DEF PageInv, Gone, Absent
<1>12. ASSUME NEW u \in Tasks \ {c.of}, Single(u)' PROVE SameObject(u)
  <2>1. Single(u)
    BY <1>1, <1>12 DEF Single
  <2>2. owner[i] # u
    BY <1>3, <1>12, <2>1 DEF Single
  <2>3. \A e : (e \in calls' /\ e.of = u) <=> (e \in calls /\ e.of = u)
    BY <1>4, <1>12 DEF Answered
  <2>4. \A j \in Ids : owner[j] = u => store'[j] = store[j]
    BY <1>5, <2>2
  <2>5. Shown' = Shown
    BY <1>1 DEF Shown
  <2> QED
    BY <1>1, <2>1, <2>3, <2>4, <2>5 DEF SameObject
<1>13. ASSUME Single(c.of)' PROVE SingleCalls(c.of)' /\ SingleStored(c.of)'
  <2> DEFINE t == c.of
  <2>1. Single(t)
    BY <1>1, <1>13 DEF Single
  <2>2. /\ \A e \in calls : e.of = t => e = c
        /\ c.state = "sent" /\ t \in Shown /\ task[t].id = i /\ SingleStored(t)
    BY <1>1, <2>1, OnlyRequest DEF Saved, i
  <2>3. /\ \A e \in calls' : e.of = t => e = d
        /\ d \in calls' /\ d.of = t /\ d.kind = "delete" /\ d.state = s /\ d.id = i
    BY <1>1, <1>4, <2>2 DEF Answered
  <2>4. Shown' = Shown
    BY <1>1 DEF Shown
  <2> HIDE DEF t
  <2>6. SingleCalls(t)'
    BY <1>1, <1>2, <2>2, <2>3, <2>4 DEF SingleCalls, Saved
  <2>7. ASSUME NEW j \in Ids, owner[j] = t
        PROVE  j = i /\ (j \notin foreign => s = "ok")
    <3>1. task[t].id = j
      BY <1>1, <2>2, <2>7 DEF SingleStored, Saved
    <3>2. j \notin foreign => store[j] # Absent
      BY <2>2, <2>7 DEF SingleStored, Deleted
    <3> QED
      BY <1>6, <2>2, <3>1, <3>2
  <2>8. SingleStored(t)'
    BY <1>1, <1>5, <2>2, <2>3, <2>4, <2>7 DEF SingleStored, Saved, Deleted, Absent
  <2> QED
    BY <2>6, <2>8 DEF t
<1>14. SingleInv'
  BY <1>12, <1>13, OneObject DEF PageInv
<1> QED
  BY <1>7, <1>9, <1>10, <1>11, <1>14 DEF PageInv

LEMMA RefuseInv ==
    ASSUME PageInv, NEW c \in calls, Refuse(c)
    PROVE  PageInv'
<1>1. /\ c.state = "sent" /\ Serve(c, "refused", c.id)
      /\ UNCHANGED <<store, page, task, loading, list, owner, saved, asked, overlapped, dropped, early,
                     foreign, edits, sent>>
  BY DEF Refuse, history
<1>2. c \in Requests /\ c.of \in Tasks /\ c.id \in Ids \cup {NoId}
      /\ (c.id # NoId => owner[c.id] # NoTask /\ (owner[c.id] = c.of \/ owner[c.id] \in early))
      /\ (c.kind = "delete" => c.id # NoId)
  BY <1>1 DEF PageInv, Types, Requests, CallsMade, IdsKnown, OwnerOf
<1>3. PICK d : Answered(c, "refused", c.id, d)
  BY <1>1, <1>2, Serving DEF PageInv
<1>4. Types'
  BY <1>1, <1>3 DEF PageInv, Types, Once, Answered
<1>5. UnusedClean' /\ IdsKnown' /\ CallsMade'
  BY <1>1, <1>2, <1>3, <1>4, RequestStepInv
<1>6. ListFresh'
  BY <1>1, <1>3 DEF PageInv, ListFresh, Answered, Absent
<1>7. Unused' = Unused /\ Shown' = Shown
  BY <1>1 DEF Unused, Shown
<1>8. Gone'
  BY <1>1, <1>7 DEF PageInv, Gone, Absent
<1>9. ASSUME NEW u \in Tasks \ {c.of}, Single(u)' PROVE SameObject(u)
  BY <1>1, <1>3, <1>7, <1>9 DEF SameObject, Single, Answered
<1>10. ASSUME Single(c.of)' PROVE SingleCalls(c.of)' /\ SingleStored(c.of)'
  <2> DEFINE t == c.of
  <2>1. Single(t)
    BY <1>1, <1>10 DEF Single
  <2>2. /\ \A e \in calls : e.of = t => e = c
        /\ t \in Shown /\ task[t].id = c.id /\ SingleStored(t)
    BY <1>1, <2>1, OnlyRequest DEF Saved
  <2>3. /\ \A e \in calls' : e.of = t => e = d
        /\ d \in calls' /\ d.of = t /\ d.state = "refused" /\ d.id = c.id
    BY <1>1, <1>3, <2>2 DEF Answered
  <2> HIDE DEF t
  <2>4. SingleCalls(t)'
    BY <1>1, <1>7, <2>2, <2>3 DEF SingleCalls, Saved
  <2>5. ASSUME NEW j \in Ids, owner[j] = t
        PROVE  /\ \A k \in Ids : owner[k] = t => k = j
               /\ task[t].id = j
               /\ j \notin foreign => /\ store[j] # Absent
                                      /\ saved[t] # Absent => store[j] = saved[t]
    BY <1>1, <2>2, <2>5 DEF SingleStored, Saved, Deleted
  <2>6. SingleStored(t)'
    BY <1>1, <1>7, <2>2, <2>3, <2>5 DEF SingleStored, Saved, Deleted, Absent
  <2> QED
    BY <2>4, <2>6 DEF t
<1>11. SingleInv'
  BY <1>9, <1>10, OneObject DEF PageInv
<1> QED
  BY <1>4, <1>5, <1>6, <1>8, <1>11 DEF PageInv

LEMMA ForeignInv ==
    ASSUME PageInv, NEW i \in Ids, NEW content \in {Absent, [rev |-> 0, rollups |-> 2]},
           Foreign(i, content)
    PROVE  PageInv'
<1>1. /\ store' = [store EXCEPT ![i] = content] /\ foreign' = foreign \cup {i}
      /\ UNCHANGED <<page, task, calls, loading, list, owner, saved, asked, overlapped, dropped, early,
                     edits, sent, faults>>
  BY DEF Foreign, bounds
<1>2. content \in Contents
  BY PageBoundsAssumption DEF Absent, Contents
<1>3. store' \in [Ids -> Contents] /\ \A j \in Ids \ foreign' : store'[j] = store[j]
  BY <1>1, <1>2 DEF PageInv, Types
<1>4. Types'
  BY <1>1, <1>3 DEF PageInv, Types, Once
<1>5. Unused' = Unused /\ Shown' = Shown
  BY <1>1 DEF Unused, Shown
<1>6. UnusedClean' /\ IdsKnown' /\ CallsMade'
  BY <1>1, <1>5 DEF PageInv, UnusedClean, IdsKnown, OwnerOf, CallsMade, Absent
<1>7. ListFresh'
  BY <1>1, <1>3 DEF PageInv, ListFresh, Types, Absent
<1>8. Gone'
  BY <1>1, <1>3, <1>5 DEF PageInv, Gone, Absent
<1>9. ASSUME NEW u \in Tasks, Single(u)' PROVE SameObject(u)
  BY <1>1, <1>3, <1>5, <1>9 DEF SameObject, Single
<1>10. SingleInv'
  <2>1. ASSUME NEW u \in Tasks, Single(u)' PROVE SingleCalls(u)' /\ SingleStored(u)'
    <3>1. SameObject(u) /\ Single(u)
      BY <1>9, <2>1 DEF SameObject
    <3> QED
      BY <3>1, SameSingle DEF PageInv, SingleInv
  <2> QED
    BY <2>1 DEF SingleInv
<1> QED
  BY <1>4, <1>6, <1>7, <1>8, <1>10 DEF PageInv

-----------------------------------------------------------------------------
(* The answers.                                                            *)

(* A request is answered or no longer waited for; the server does nothing. *)
LEMMA RequestEndsInv ==
    ASSUME PageInv, NEW c \in calls, Types',
           UNCHANGED <<store, loading, list, owner, foreign, asked, early>>,
           overlapped \subseteq overlapped', dropped \subseteq dropped',
           \A e \in calls' : e \in calls \/ (e.state # "ok" /\ e.of = c.of /\ e.id = c.id
                                             /\ e.kind = c.kind /\ e.rev = c.rev),
           \A e \in calls : e \in calls' \/ e = c,
           \A t \in Tasks \ {c.of} : task'[t] = task[t] /\ saved'[t] = saved[t],
           task'[c.of].rev = task[c.of].rev, task'[c.of].id \in {task[c.of].id, c.id},
           Shown' \subseteq Shown, Shown \ {c.of} \subseteq Shown', Shown \ Shown' \subseteq asked,
           Single(c.of)' => SingleCalls(c.of)' /\ SingleStored(c.of)'
    PROVE  PageInv'
<1>1. c \in Requests /\ c.of \in Tasks /\ calls \subseteq Requests
  BY DEF PageInv, Types, Requests
<1>2. Unused' = Unused
  BY DEF Unused
<1>3. c.of \notin Unused
  BY DEF PageInv, UnusedClean
<1>4. UnusedClean'
  BY <1>2, <1>3 DEF PageInv, UnusedClean, Unused, Absent
<1>5. IdsKnown'
  <2>1. ASSUME NEW t \in Tasks, task'[t].id # NoId PROVE OwnerOf(task'[t].id, t)
    BY <2>1 DEF PageInv, IdsKnown
  <2>2. ASSUME NEW e \in calls', e.id # NoId PROVE OwnerOf(e.id, e.of)
    BY <2>2 DEF PageInv, IdsKnown
  <2> QED
    BY <2>1, <2>2 DEF IdsKnown, OwnerOf
<1>6. CallsMade'
  BY DEF PageInv, CallsMade
<1>7. ListFresh'
  BY DEF PageInv, ListFresh, Absent
<1>8. Gone'
  BY <1>2 DEF PageInv, Gone, Absent
<1>9. ASSUME NEW u \in Tasks \ {c.of}, Single(u)' PROVE SameObject(u)
  <2>1. \A e : (e \in calls' /\ e.of = u) <=> (e \in calls /\ e.of = u)
    BY <1>9
  <2>2. u \in Shown' <=> u \in Shown
    BY <1>9
  <2>3. Single(u)
    BY <1>9 DEF Single
  <2> QED
    BY <1>9, <2>1, <2>2, <2>3 DEF SameObject
<1>10. SingleInv'
  BY <1>9, OneObject DEF PageInv
<1> QED
  BY <1>4, <1>5, <1>6, <1>7, <1>8, <1>10 DEF PageInv

LEMMA DropInv ==
    ASSUME PageInv, NEW c \in calls, Drop(c)
    PROVE  PageInv'
<1> DEFINE d == [c EXCEPT !.state = "ghost"]
<1>1. /\ dropped' = dropped \cup {c.of}
      /\ calls' = (calls \ {c}) \cup (IF c.state = "sent" THEN {d} ELSE {})
      /\ UNCHANGED <<store, page, task, loading, list, owner, saved, asked, overlapped, early, foreign,
                     edits, sent>>
  BY DEF Drop
<1>2. c \in Requests
  BY DEF PageInv, Types
<1>3. d \in Requests /\ d.state = "ghost" /\ d.of = c.of /\ d.id = c.id /\ d.kind = c.kind /\ d.rev = c.rev
  BY <1>2 DEF Requests
<1> HIDE DEF d
<1>4. Types'
  BY <1>1, <1>3 DEF PageInv, Types, Once
<1>5. Shown' = Shown
  BY <1>1 DEF Shown
<1>6. ~Single(c.of)'
  BY <1>1 DEF Single
<1> QED
  BY <1>1, <1>3, <1>4, <1>5, <1>6, RequestEndsInv

LEMMA RefuseInDoubtInv ==
    ASSUME PageInv, NEW c \in calls, RefuseInDoubt(c)
    PROVE  PageInv'
<1> DEFINE d == [c EXCEPT !.state = "refused"]
           e == [c EXCEPT !.state = "ghost"]
<1>1. /\ dropped' = dropped \cup {c.of} /\ calls' = (calls \ {c}) \cup {d, e}
      /\ UNCHANGED <<store, page, task, loading, list, owner, saved, asked, overlapped, early, foreign,
                     edits, sent>>
  BY DEF RefuseInDoubt
<1>2. c \in Requests
  BY DEF PageInv, Types
<1>3. /\ d \in Requests /\ d.state # "ok" /\ d.of = c.of /\ d.id = c.id /\ d.kind = c.kind /\ d.rev = c.rev
      /\ e \in Requests /\ e.state # "ok" /\ e.of = c.of /\ e.id = c.id /\ e.kind = c.kind /\ e.rev = c.rev
  BY <1>2 DEF Requests
<1> HIDE DEF d, e
<1>4. Types'
  BY <1>1, <1>3 DEF PageInv, Types, Once
<1>5. Shown' = Shown
  BY <1>1 DEF Shown
<1>6. ~Single(c.of)'
  BY <1>1 DEF Single
<1> QED
  BY <1>1, <1>3, <1>4, <1>5, <1>6, RequestEndsInv

LEMMA AlertInv ==
    ASSUME PageInv, NEW c \in calls, Alert(c)
    PROVE  PageInv'
<1>1. /\ c.state = "refused" /\ calls' = calls \ {c}
      /\ UNCHANGED <<store, page, task, loading, list, owner, saved, asked, overlapped, dropped, early,
                     foreign, edits, sent, faults>>
  BY DEF Alert, history, bounds
<1>2. Types'
  BY <1>1 DEF PageInv, Types, Once
<1>3. Shown' = Shown
  BY <1>1 DEF Shown
<1>4. ASSUME Single(c.of)' PROVE SingleCalls(c.of)' /\ SingleStored(c.of)'
  <2> DEFINE t == c.of
  <2>1. Single(t)
    BY <1>1, <1>4 DEF Single
  <2>2. (\A e \in calls : e.of = t => e = c) /\ t \in Shown /\ SingleStored(t)
    BY <2>1, OnlyRequest
  <2> HIDE DEF t
  <2>3. \A e \in calls' : e.of # t
    BY <1>1, <2>2
  <2>4. SingleCalls(t)'
    BY <2>3 DEF SingleCalls
  <2>5. ASSUME NEW j \in Ids, owner[j] = t
        PROVE  /\ \A k \in Ids : owner[k] = t => k = j
               /\ task[t].id = j
               /\ j \notin foreign => /\ store[j] # Absent
                                      /\ saved[t] # Absent => store[j] = saved[t]
    BY <1>1, <2>2, <2>5 DEF SingleStored, Saved, Deleted
  <2>6. SingleStored(t)'
    BY <1>1, <1>3, <2>2, <2>3, <2>5 DEF SingleStored, Saved, Deleted, Absent
  <2> QED
    BY <2>4, <2>6 DEF t
<1> QED
  BY <1>1, <1>2, <1>3, <1>4, RequestEndsInv

LEMMA SaveAnsweredInv ==
    ASSUME PageInv, NEW c \in calls, SaveAnswered(c)
    PROVE  PageInv'
<1>1. /\ c.kind = "save" /\ c.state = "ok" /\ calls' = calls \ {c}
      /\ task' = [task EXCEPT ![c.of].id = c.id]
      /\ saved' = [saved EXCEPT ![c.of] = [rev |-> c.rev, rollups |-> 1]]
      /\ UNCHANGED <<store, page, loading, list, owner, asked, overlapped, dropped, early, foreign,
                     edits, sent, faults>>
  BY DEF SaveAnswered, bounds
<1>2. /\ c \in Requests /\ c.of \in Tasks /\ c.id \in Ids \cup {NoId} /\ c.id # NoId
      /\ c.rev \in -1 .. MaxEdits /\ task \in [Tasks -> Objects] /\ task[c.of] \in Objects
      /\ saved \in [Tasks -> Contents]
  BY <1>1 DEF PageInv, Types, Requests, CallsMade
<1> DEFINE x == [task[c.of] EXCEPT !.id = c.id]
<1>3. x \in Objects /\ x.id = c.id /\ x.rev = task[c.of].rev
  BY <1>2 DEF Objects
<1>4. task' = [task EXCEPT ![c.of] = x]
  BY <1>1, <1>2 DEF Objects
<1> HIDE DEF x
<1>5. /\ task' \in [Tasks -> Objects] /\ task'[c.of].id = c.id /\ task'[c.of].rev = task[c.of].rev
      /\ \A t \in Tasks \ {c.of} : task'[t] = task[t]
  BY <1>2, <1>3, <1>4
<1>6. /\ saved' \in [Tasks -> Contents] /\ saved'[c.of] = [rev |-> c.rev, rollups |-> 1]
      /\ \A t \in Tasks \ {c.of} : saved'[t] = saved[t]
  BY <1>1, <1>2 DEF Contents
<1>7. Types'
  BY <1>1, <1>5, <1>6 DEF PageInv, Types, Once
<1>8. Shown' = Shown
  BY <1>1 DEF Shown
<1>9. ASSUME Single(c.of)' PROVE SingleCalls(c.of)' /\ SingleStored(c.of)'
  <2> DEFINE t == c.of
  <2>1. Single(t)
    BY <1>1, <1>9 DEF Single
  <2>2. /\ \A e \in calls : e.of = t => e = c
        /\ t \in Shown /\ task[t].id \in {NoId, c.id} /\ SingleStored(t)
    BY <1>1, <2>1, OnlyRequest DEF Saved
  <2> HIDE DEF t
  <2>3. \A e \in calls' : e.of # t
    BY <1>1, <2>2
  <2>4. SingleCalls(t)'
    BY <2>3 DEF SingleCalls
  <2>5. c.of = t
    BY DEF t
  <2>6. ASSUME NEW j \in Ids, owner[j] = t
        PROVE  /\ \A k \in Ids : owner[k] = t => k = j
               /\ c.id = j
               /\ j \notin foreign => store[j] # Absent /\ store[j] = [rev |-> c.rev, rollups |-> 1]
    <3>1. task[t].id = j \/ \E e \in calls : e.of = t /\ Saved(e) /\ e.id = j
      BY <2>2, <2>6 DEF SingleStored
    <3>2. c.id = j
      BY <2>2, <2>6, <3>1, NoTaskAssumption
    <3>3. \A e \in calls : e.of = t => ~Deleted(e)
      BY <1>1, <2>2 DEF Deleted
    <3>4. j \notin foreign => store[j] # Absent /\ store[j] = [rev |-> c.rev, rollups |-> 1]
      BY <1>1, <2>2, <2>5, <2>6, <3>3 DEF SingleStored, Saved
    <3>5. \A k \in Ids : owner[k] = t => k = j
      BY <2>2, <2>6 DEF SingleStored
    <3> QED
      BY <3>2, <3>4, <3>5
  <2>7. SingleStored(t)'
    BY <1>1, <1>5, <1>6, <1>8, <2>2, <2>3, <2>5, <2>6 DEF SingleStored, Saved, Deleted, Absent
  <2> QED
    BY <2>4, <2>7 DEF t
<1> QED
  BY <1>1, <1>5, <1>6, <1>7, <1>8, <1>9, RequestEndsInv

LEMMA DeleteAnsweredInv ==
    ASSUME PageInv, NEW c \in calls, DeleteAnswered(c)
    PROVE  PageInv'
<1>1. /\ c.kind = "delete" /\ c.state = "ok" /\ calls' = calls \ {c}
      /\ page' = RemoveFirst(page, c.of)
      /\ UNCHANGED <<store, task, loading, list, owner, saved, asked, overlapped, dropped, early, foreign,
                     edits, sent, faults>>
  BY DEF DeleteAnswered, history, bounds
<1>2. page \in Seq(Tasks) /\ Once(page)
  BY DEF PageInv, Types
<1>3. page' \in Seq(Tasks) /\ Once(page') /\ ToSet(page') = ToSet(page) \ {c.of}
  BY <1>1, <1>2, RemovedFirst
<1>4. Types'
  BY <1>1, <1>3 DEF PageInv, Types, Once
<1>5. Shown' = Shown \ {c.of} /\ c.of \in asked
  BY <1>1, <1>3 DEF Shown, PageInv, CallsMade
<1>6. ASSUME Single(c.of)' PROVE SingleCalls(c.of)' /\ SingleStored(c.of)'
  <2> DEFINE t == c.of
  <2>1. Single(t)
    BY <1>1, <1>6 DEF Single
  <2>2. (\A e \in calls : e.of = t => e = c) /\ SingleStored(t)
    BY <2>1, OnlyRequest
  <2>3. c \in calls /\ c.of = t /\ Deleted(c) /\ ~Saved(c) /\ t \notin Shown'
    BY <1>1, <1>5 DEF Deleted, Saved
  <2> HIDE DEF t
  <2>4. \A e \in calls' : e.of # t
    BY <1>1, <2>2
  <2>5. SingleCalls(t)'
    BY <2>4 DEF SingleCalls
  <2>6. ASSUME NEW j \in Ids, owner[j] = t
        PROVE  /\ \A k \in Ids : owner[k] = t => k = j
               /\ task[t].id = j
               /\ j \notin foreign => store[j] = Absent
    BY <2>2, <2>3, <2>6 DEF SingleStored
  <2>7. SingleStored(t)'
    BY <1>1, <2>3, <2>4, <2>6 DEF SingleStored, Absent
  <2> QED
    BY <2>5, <2>7 DEF t
<1> QED
  BY <1>1, <1>4, <1>5, <1>6, RequestEndsInv

-----------------------------------------------------------------------------
(* The load of the page.                                                   *)

(* Every order of a finite set has each of its elements exactly once.      *)
LEMMA OrderOfSet ==
    ASSUME NEW S, IsFiniteSet(S), S \subseteq Tasks, NEW s \in SetToSeqs(S)
    PROVE  s \in Seq(Tasks) /\ Once(s) /\ ToSet(s) = S
<1> DEFINE n == Cardinality(S)
<1>1. n \in Nat
  BY FS_CardinalityType
<1>2. /\ s \in [1 .. n -> S]
      /\ \A i, j \in 1 .. n : i # j => s[i] # s[j]
  BY DEF SetToSeqs
<1> HIDE DEF n
<1>3. s \in Injection(1 .. n, S)
  BY <1>2 DEF Injection, IsInjective
<1>4. IsFiniteSet(1 .. n) /\ Cardinality(1 .. n) = n
  BY <1>1, FS_Interval
<1>5. s \in Surjection(1 .. n, S)
  BY <1>3, <1>4, FS_Injection DEF n
<1>6. s \in Seq(Tasks) /\ DOMAIN s = 1 .. n
  BY <1>1, <1>2
<1> QED
  BY <1>2, <1>5, <1>6 DEF Once, ToSet, Surjection

LEMMA ShownFinite ==
    ASSUME Types
    PROVE  IsFiniteSet(Shown) /\ Shown \subseteq Tasks
<1>1. page \in [1 .. Len(page) -> Tasks] /\ Len(page) \in Nat
  BY DEF Types
<1>2. Shown = {page[j] : j \in 1 .. Len(page)}
  BY <1>1 DEF Shown, ToSet
<1>3. page \in Surjection(1 .. Len(page), Shown)
  BY <1>1, <1>2 DEF Surjection
<1>4. IsFiniteSet(1 .. Len(page))
  BY <1>1, FS_Interval
<1> QED
  BY <1>1, <1>2, <1>3, <1>4, FS_Surjection

(* Steps that touch no object and no task.                                 *)
LEMMA LoadStepInv ==
    ASSUME PageInv, Types', ListFresh',
           UNCHANGED <<store, page, task, calls, owner, saved, asked, overlapped, dropped, early,
                       foreign>>
    PROVE  PageInv'
<1>1. Unused' = Unused /\ Shown' = Shown
  BY DEF Unused, Shown
<1>2. UnusedClean' /\ IdsKnown' /\ CallsMade' /\ Gone'
  BY <1>1 DEF PageInv, UnusedClean, IdsKnown, OwnerOf, CallsMade, Gone, Absent
<1>3. ASSUME NEW t \in Tasks, Single(t)' PROVE SingleCalls(t)' /\ SingleStored(t)'
  <2>1. SameObject(t)
    BY <1>1 DEF SameObject, Single
  <2>2. Single(t)
    BY <1>3 DEF Single
  <2> QED
    BY <2>1, <2>2, SameSingle DEF PageInv, SingleInv
<1> QED
  BY <1>2, <1>3 DEF PageInv, SingleInv

LEMMA DescriptorsAnsweredInv ==
    ASSUME PageInv, DescriptorsAnswered
    PROVE  PageInv'
<1>1. /\ loading = "descriptors" /\ loading' = "list"
      /\ UNCHANGED <<store, page, task, calls, list, owner, saved, asked, overlapped, dropped, early,
                     foreign, edits, sent, faults>>
  BY DEF DescriptorsAnswered, history, bounds
<1>2. Types'
  BY <1>1 DEF PageInv, Types, Once
<1>3. ListFresh'
  BY <1>1 DEF PageInv, ListFresh
<1> QED
  BY <1>1, <1>2, <1>3, LoadStepInv

LEMMA ListServedInv ==
    ASSUME PageInv, ListServed
    PROVE  PageInv'
<1> DEFINE D == {j \in Ids : store[j] # Absent}
<1>1. /\ loading = "list" /\ loading' = "listed" /\ list' = [i \in D |-> store[i].rollups]
      /\ UNCHANGED <<store, page, task, calls, owner, saved, asked, overlapped, dropped, early,
                     foreign, edits, sent, faults>>
  BY DEF ListServed, history, bounds
<1>2. DOMAIN list' = D /\ \A i \in D : list'[i] \in 0 .. 2
  BY <1>1 DEF PageInv, Types, Contents
<1>3. list' \in [D -> 0 .. 2]
  BY <1>1, <1>2
<1>4. Types'
  BY <1>1, <1>2, <1>3 DEF PageInv, Types, Once
<1>5. \A i \in DOMAIN list' : IF owner[i] = NoTask THEN store[i] # Absent ELSE owner[i] \in early
  BY <1>1, <1>2 DEF PageInv, ListFresh
<1>6. ListFresh'
  BY <1>1, <1>5 DEF ListFresh, Absent
<1> QED
  BY <1>1, <1>4, <1>6, LoadStepInv

LEMMA LoadFailsInv ==
    ASSUME PageInv, LoadFails
    PROVE  PageInv'
<1>1. /\ loading' = "failed"
      /\ UNCHANGED <<store, page, task, calls, list, owner, saved, asked, overlapped, dropped, early,
                     foreign, edits, sent>>
  BY DEF LoadFails, history
<1>2. Types'
  BY <1>1 DEF PageInv, Types, Once
<1>3. ListFresh'
  BY <1>1 DEF ListFresh
<1> QED
  BY <1>1, <1>2, <1>3, LoadStepInv

LEMMA ListAnsweredInv ==
    ASSUME PageInv, ListAnswered
    PROVE  PageInv'
<1> DEFINE Idof(new, t) == CHOOSE i \in DOMAIN list : new[i] = t
<1>1. PICK new \in Injection(DOMAIN list, Unused) :
         /\ page' \in SetToSeqs(Shown \cup Range(new))
         /\ task' = [t \in Tasks |->
                IF t \in Range(new)
                THEN [id |-> Idof(new, t), rev |-> 0, complex |-> list[Idof(new, t)] > 1, incomplete |-> FALSE]
                ELSE task[t]]
         /\ owner' = [i \in Ids |-> IF i \in DOMAIN list /\ owner[i] = NoTask THEN new[i] ELSE owner[i]]
  BY DEF ListAnswered
<1>2. /\ loading = "listed" /\ loading' = "done"
      /\ UNCHANGED <<store, calls, list, saved, asked, overlapped, dropped, early, foreign,
                     edits, sent, faults>>
  BY DEF ListAnswered, bounds
<1> DEFINE loaded == Range(new)
           idOf(t) == Idof(new, t)
<1>3. /\ \A i \in DOMAIN list : new[i] \in loaded
      /\ \A i, j \in DOMAIN list : new[i] = new[j] => i = j
      /\ \A t \in loaded : \E i \in DOMAIN list : new[i] = t
      /\ loaded \subseteq Unused /\ new \in Surjection(DOMAIN list, loaded)
  BY DEF Injection, IsInjective, Range, Surjection
<1>4. Types /\ DOMAIN list \subseteq Ids /\ list \in [DOMAIN list -> 0 .. 2] /\ Unused \subseteq Tasks
  BY DEF PageInv, Types, Unused
<1>5. \A t \in loaded : idOf(t) \in DOMAIN list /\ new[idOf(t)] = t
  BY <1>3
<1>6. /\ \A t \in loaded : task'[t] = [id |-> idOf(t), rev |-> 0, complex |-> list[idOf(t)] > 1,
                                       incomplete |-> FALSE]
      /\ \A t \in Tasks \ loaded : task'[t] = task[t]
      /\ DOMAIN task' = Tasks /\ task' = [t \in Tasks |-> task'[t]]
  BY <1>1, <1>3, <1>4
<1> HIDE DEF Idof, loaded
<1>7. /\ page' \in Seq(Tasks) /\ Once(page') /\ Shown' = Shown \cup loaded
  <2>1. IsFiniteSet(DOMAIN list)
    BY <1>4, IdsAssumption, FS_Subset
  <2>2. IsFiniteSet(loaded)
    BY <1>3, <2>1, FS_Surjection
  <2>3. IsFiniteSet(Shown \cup loaded) /\ Shown \cup loaded \subseteq Tasks
    BY <1>3, <1>4, <2>2, ShownFinite, FS_Union
  <2>4. page' \in SetToSeqs(Shown \cup loaded)
    BY <1>1 DEF loaded
  <2> QED
    BY <2>3, <2>4, OrderOfSet DEF Shown
<1>8. ASSUME NEW t \in loaded
      PROVE  /\ t \in Tasks /\ idOf(t) \in Ids /\ task'[t] \in Objects /\ task'[t].id = idOf(t)
             /\ task'[t].rev = 0
  <2>1. t \in Tasks /\ idOf(t) \in Ids /\ (list[idOf(t)] > 1) \in BOOLEAN
    BY <1>3, <1>4, <1>5
  <2>2. 0 \in -1 .. MaxEdits
    BY PageBoundsAssumption
  <2> DEFINE i == idOf(t)
             more == list[i] > 1
  <2>3. /\ task'[t] = [id |-> i, rev |-> 0, complex |-> more, incomplete |-> FALSE]
        /\ i \in Ids /\ more \in BOOLEAN
    BY <1>6, <2>1
  <2> HIDE DEF i, more
  <2>4. task'[t] \in Objects /\ task'[t].id = i /\ task'[t].rev = 0
    BY <2>2, <2>3 DEF Objects
  <2> QED
    BY <2>1, <2>4 DEF i
<1>9. task' \in [Tasks -> Objects]
  <2>1. \A t \in Tasks \ loaded : task'[t] \in Objects
    BY <1>4, <1>6 DEF Types
  <2>2. \A t \in Tasks : task'[t] \in Objects
    BY <1>8, <2>1
  <2> QED
    BY <1>6, <2>2
<1>10. \A i \in Ids : owner'[i] = IF i \in DOMAIN list /\ owner[i] = NoTask THEN new[i] ELSE owner[i]
  BY <1>1
<1>11. owner' \in [Ids -> Tasks \cup {NoTask}]
  <2>1. \A i \in Ids : owner'[i] \in Tasks \cup {NoTask}
    BY <1>3, <1>4, <1>10 DEF Types
  <2> QED
    BY <1>1, <2>1
<1>12. Types'
  BY <1>2, <1>4, <1>7, <1>9, <1>11 DEF Types, Once
<1>13. Unused' = Unused \ loaded
  <2>1. \A t \in loaded : task'[t].rev # -1
    BY <1>8
  <2> QED
    BY <1>6, <2>1 DEF Unused
<1>14. ASSUME NEW t \in Unused
       PROVE  /\ t \notin Shown /\ task[t].id = NoId /\ saved[t] = Absent
              /\ (\A c \in calls : c.of # t) /\ (\A i \in Ids : owner[i] # t)
  BY DEF PageInv, UnusedClean
<1>15. UnusedClean'
  <2> SUFFICES ASSUME NEW t \in Unused \ loaded
               PROVE  /\ t \notin Shown' /\ task'[t].id = NoId /\ saved'[t] = Absent'
                      /\ \A c \in calls' : c.of # t
                      /\ \A i \in Ids : owner'[i] # t
    BY <1>13 DEF UnusedClean
  <2>1. t \in Tasks /\ task'[t] = task[t]
    BY <1>4, <1>6
  <2>2. \A i \in Ids : owner'[i] # t
    BY <1>3, <1>10, <1>14
  <2> QED
    BY <1>2, <1>7, <1>14, <2>1, <2>2 DEF Absent
<1>16. \A i \in Ids, t \in Tasks : OwnerOf(i, t) => OwnerOf(i, t)'
  BY <1>2, <1>10 DEF OwnerOf
<1>17. IdsKnown'
  <2>1. ASSUME NEW t \in Tasks, task'[t].id # NoId PROVE OwnerOf(task[t].id, t)'
    <3>1. CASE t \in loaded
      <4> DEFINE i == idOf(t)
      <4>1. i \in DOMAIN list /\ i \in Ids /\ new[i] = t /\ task'[t].id = i
        BY <1>5, <1>8, <3>1
      <4>2. owner[i] # NoTask => owner[i] \in early
        BY <1>2, <4>1 DEF PageInv, ListFresh
      <4> HIDE DEF i
      <4>3. owner'[i] # NoTask /\ (owner'[i] = t \/ owner'[i] \in early')
        BY <1>2, <1>10, <4>1, <4>2, NoTaskAssumption
      <4> QED
        BY <4>1, <4>3 DEF OwnerOf
    <3>2. CASE t \notin loaded
      <4>1. task'[t] = task[t] /\ task[t].id \in Ids /\ OwnerOf(task[t].id, t)
        BY <1>4, <1>6, <2>1, <3>2 DEF PageInv, IdsKnown, Types, Objects
      <4>2. OwnerOf(task[t].id, t)'
        BY <1>10, <1>2, <4>1 DEF OwnerOf
      <4> QED
        BY <4>2
    <3> QED
      BY <3>1, <3>2
  <2>2. ASSUME NEW c \in calls, c.id # NoId PROVE OwnerOf(c.id, c.of)'
    <3>1. c.id \in Ids /\ c.of \in Tasks /\ OwnerOf(c.id, c.of)
      BY <1>4, <2>2 DEF PageInv, IdsKnown, Types, Requests
    <3> QED
      BY <1>16, <3>1
  <2> QED
    BY <1>2, <2>1, <2>2 DEF IdsKnown
<1>18. CallsMade'
  BY <1>2 DEF PageInv, CallsMade
<1>19. ListFresh'
  BY <1>2 DEF ListFresh
<1>20. ASSUME NEW i \in DOMAIN list, owner[i] = NoTask
       PROVE  store[i] # Absent \/ i \in foreign
  BY <1>2, <1>20 DEF PageInv, ListFresh
<1>21. Gone'
  <2>1. Tasks \ (Unused' \cup Shown') \subseteq asked
    BY <1>7, <1>13 DEF PageInv, Gone
  <2>2. ASSUME NEW i \in Ids \ foreign, store[i] = Absent, owner'[i] # NoTask
        PROVE  owner'[i] \in asked \cup early
    BY <1>10, <1>20, <2>2 DEF PageInv, Gone
  <2> QED
    BY <1>2, <2>1, <2>2 DEF Gone, Absent
<1>22. SingleInv'
  <2> SUFFICES ASSUME NEW t \in Tasks, Single(t)' PROVE SingleCalls(t)' /\ SingleStored(t)'
    BY DEF SingleInv
  <2>1. Single(t)
    BY <1>2 DEF Single
  <2>2. CASE t \in loaded
    <3>1. (\A c \in calls' : c.of # t) /\ t \in Shown' /\ saved'[t] = Absent
      BY <1>2, <1>3, <1>7, <1>14, <2>2
    <3>2. SingleCalls(t)'
      BY <3>1 DEF SingleCalls
    <3>3. ASSUME NEW i \in Ids, owner'[i] = t
          PROVE  i \in DOMAIN list /\ owner[i] = NoTask /\ new[i] = t
      BY <1>3, <1>10, <1>14, <2>2, <3>3
    <3>4. ASSUME NEW i \in Ids, owner'[i] = t
          PROVE  /\ \A j \in Ids : owner'[j] = t => j = i
                 /\ task'[t].id = i
                 /\ i \notin foreign => store'[i] # Absent
      <4>1. \A j \in Ids : owner'[j] = t => j = i
        BY <1>3, <3>3, <3>4
      <4>2. idOf(t) = i
        BY <1>3, <1>5, <2>2, <3>3, <3>4
      <4> QED
        BY <1>2, <1>8, <1>20, <2>2, <3>3, <3>4, <4>1, <4>2
    <3>5. SingleStored(t)'
      BY <1>2, <3>1, <3>4 DEF SingleStored, Absent
    <3> QED
      BY <3>2, <3>5
  <2>3. CASE t \notin loaded
    <3>1. \A i \in Ids : owner'[i] = t <=> owner[i] = t
      BY <1>3, <1>10, <2>3, NoTaskAssumption
    <3>2. SameObject(t)
      BY <1>2, <1>6, <1>7, <2>1, <2>3, <3>1 DEF SameObject
    <3> QED
      BY <2>1, <3>2, SameSingle DEF PageInv, SingleInv
  <2> QED
    BY <2>2, <2>3
<1> QED
  BY <1>12, <1>15, <1>17, <1>18, <1>19, <1>21, <1>22 DEF PageInv

-----------------------------------------------------------------------------
(* Every step keeps the invariant.                                         *)

LEMMA PageInit == Init => PageInv
<1> SUFFICES ASSUME Init PROVE PageInv
  OBVIOUS
<1>1. /\ store \in [Ids -> {Absent} \cup [rev : {0}, rollups : 1 .. 2]]
      /\ page = <<>> /\ task = [t \in Tasks |-> Bare] /\ calls = {}
      /\ loading = "descriptors" /\ list = [i \in {} |-> 0]
      /\ owner = [i \in Ids |-> NoTask] /\ saved = [t \in Tasks |-> Absent]
      /\ edits = 0 /\ sent = 0
  BY DEF Init
<1>2. MaxEdits \in Nat
  BY PageBoundsAssumption
<1>3. Absent \in Contents /\ [rev : {0}, rollups : 1 .. 2] \subseteq Contents
  <2>1. 0 \in -1 .. MaxEdits /\ -1 \in -1 .. MaxEdits
    BY <1>2
  <2> QED
    BY <2>1 DEF Absent, Contents
<1>4. store \in [Ids -> Contents] /\ saved \in [Tasks -> Contents]
  BY <1>1, <1>3
<1>5. task \in [Tasks -> Objects] /\ \A t \in Tasks : task[t].id = NoId /\ task[t].rev = -1
  BY <1>1, <1>2 DEF Bare, Objects
<1>6. page \in Seq(Tasks) /\ Once(page) /\ Shown = {}
  BY <1>1 DEF Once, Shown, ToSet
<1>7. DOMAIN list = {} /\ list \in [DOMAIN list -> 0 .. 2]
  BY <1>1
<1>8. Types
  BY <1>1, <1>2, <1>4, <1>5, <1>6, <1>7 DEF Types
<1>9. UnusedClean
  BY <1>1, <1>5, <1>6, NoTaskAssumption DEF UnusedClean, Unused
<1>10. IdsKnown /\ CallsMade
  BY <1>1, <1>5 DEF IdsKnown, CallsMade
<1>11. ListFresh
  BY <1>1 DEF ListFresh
<1>12. Gone
  BY <1>1, <1>5 DEF Gone, Unused
<1>13. SingleInv
  BY <1>1, NoTaskAssumption DEF SingleInv, SingleCalls, SingleStored
<1> QED
  BY <1>8, <1>9, <1>10, <1>11, <1>12, <1>13 DEF PageInv

LEMMA PageStep == PageInv /\ [Next]_vars => PageInv'
<1> SUFFICES ASSUME PageInv, [Next]_vars PROVE PageInv'
  OBVIOUS
<1>1. CASE DescriptorsAnswered
  BY <1>1, DescriptorsAnsweredInv
<1>2. CASE ListServed
  BY <1>2, ListServedInv
<1>3. CASE ListAnswered
  BY <1>3, ListAnsweredInv
<1>4. CASE LoadFails
  BY <1>4, LoadFailsInv
<1>5. CASE User
  <2>1. ASSUME NEW t \in Tasks, AddTask(t) PROVE PageInv'
    BY <2>1, AddTaskInv
  <2>2. ASSUME NEW t \in Tasks, Blur(t) PROVE PageInv'
    BY <2>2, BlurInv
  <2>3. ASSUME NEW t \in Tasks, DeleteTask(t) PROVE PageInv'
    BY <2>3, DeleteTaskInv
  <2>4. ASSUME NEW t \in Tasks, NEW incomplete \in BOOLEAN, ChangeUnsaved(t, incomplete)
        PROVE  PageInv'
    BY <2>4, ChangeUnsavedInv
  <2>5. ASSUME NEW selected \in SUBSET Shown, DeleteSelected(selected) PROVE PageInv'
    BY <2>5, DeleteSelectedInv
  <2> QED
    BY <1>5, <2>1, <2>2, <2>3, <2>4, <2>5 DEF User
<1>6. CASE Server
  <2>1. ASSUME NEW c \in calls, ServeSave(c) PROVE PageInv'
    BY <2>1, ServeSaveInv
  <2>2. ASSUME NEW c \in calls, ServeDelete(c) PROVE PageInv'
    BY <2>2, ServeDeleteInv
  <2>3. ASSUME NEW c \in calls, Refuse(c) PROVE PageInv'
    BY <2>3, RefuseInv
  <2>4. ASSUME NEW i \in Ids, NEW content \in {Absent, [rev |-> 0, rollups |-> 2]},
               Foreign(i, content)
        PROVE  PageInv'
    BY <2>4, ForeignInv
  <2>5. ASSUME NEW c \in calls, RefuseInDoubt(c) PROVE PageInv'
    BY <2>5, RefuseInDoubtInv
  <2> QED
    BY <1>6, <2>1, <2>2, <2>3, <2>4, <2>5 DEF Server
<1>7. ASSUME NEW c \in calls, Drop(c) PROVE PageInv'
  BY <1>7, DropInv
<1>8. ASSUME NEW c \in calls, SaveAnswered(c) PROVE PageInv'
  BY <1>8, SaveAnsweredInv
<1>9. ASSUME NEW c \in calls, DeleteAnswered(c) PROVE PageInv'
  BY <1>9, DeleteAnsweredInv
<1>10. ASSUME NEW c \in calls, Alert(c) PROVE PageInv'
  BY <1>10, AlertInv
<1>11. CASE UNCHANGED vars
  <2>1. UNCHANGED <<store, page, task, calls, loading, list, owner, saved, asked, overlapped, dropped,
                    early, foreign, edits, sent, faults>>
    BY <1>11 DEF vars, history, bounds
  <2>2. Types'
    BY <2>1 DEF PageInv, Types, Once
  <2>3. ListFresh'
    BY <2>1 DEF PageInv, ListFresh, Absent
  <2> QED
    BY <2>1, <2>2, <2>3, LoadStepInv
<1> QED
  BY <1>1, <1>2, <1>3, <1>4, <1>5, <1>6, <1>7, <1>8, <1>9, <1>10, <1>11 DEF Next

LEMMA PageInvAlways == Spec => []PageInv
  BY PageInit, PageStep, PTL DEF Spec

-----------------------------------------------------------------------------
(* What the invariant says of objects all of whose requests are answered.  *)

LEMMA CalmObject ==
    ASSUME PageInv, NEW i \in Ids \ foreign, Calm(owner[i])
    PROVE  /\ Single(owner[i]) /\ owner[i] \in Tasks
           /\ task[owner[i]].id = i
           /\ store[i] # Absent <=> owner[i] \in Shown
           /\ saved[owner[i]] # Absent /\ owner[i] \in Shown => store[i] = saved[owner[i]]
<1> DEFINE t == owner[i]
<1>1. t \in Tasks /\ Single(t) /\ UnderWay(t) = {}
  BY DEF Calm, Single
<1> HIDE DEF t
<1>2. \A c \in calls : c.of # t
  BY <1>1, NothingUnderWay DEF PageInv
<1>3. SingleStored(t) /\ owner[i] = t
  BY <1>1 DEF PageInv, SingleInv, t
<1> QED
  BY <1>1, <1>2, <1>3 DEF SingleStored, t

(* A task made by the page or loaded into it is on the server exactly when *)
(* the page shows it under its id, by one object (saveTask, deleteTask and *)
(* their answers; create and delete of RollUpResource).                    *)
THEOREM PageMirrorsStoreCorrect == Spec => []PageMirrorsStore
<1>1. PageInv => PageMirrorsStore
  <2> SUFFICES ASSUME PageInv, NEW i \in Ids \ foreign, Calm(owner[i])
               PROVE  /\ store[i] # Absent <=> owner[i] \in Shown /\ task[owner[i]].id = i
                      /\ \A t \in Shown : task[t].id = i => t = owner[i]
    BY DEF PageMirrorsStore
  <2>1. ASSUME NEW t \in Shown, task[t].id = i PROVE t = owner[i]
    <3>1. t \in Tasks /\ i # NoId
      BY NoTaskAssumption, ShownFinite DEF PageInv
    <3>2. OwnerOf(i, t)
      BY <2>1, <3>1 DEF PageInv, IdsKnown
    <3> QED
      BY <3>2, CalmObject DEF OwnerOf, Single
  <2> QED
    BY <2>1, CalmObject
<1> QED
  BY <1>1, PageInvAlways, PTL

(* The server keeps what the last successful save of a shown task carried  *)
(* (saveTask, create).                                                     *)
THEOREM ShownIsStoredCorrect == Spec => []ShownIsStored
<1>1. PageInv => ShownIsStored
  BY CalmObject DEF ShownIsStored
<1> QED
  BY <1>1, PageInvAlways, PTL

(* Only what the user asked to delete goes away (deleteTask,               *)
(* deleteSelected with its walk over an array that shrinks,                *)
(* removeTaskFromTasks).                                                   *)
THEOREM OnlyAskedGoneCorrect == Spec => []OnlyAskedGone
<1>1. PageInv => OnlyAskedGone
  BY DEF PageInv, Gone, OnlyAskedGone
<1> QED
  BY <1>1, PageInvAlways, PTL
=============================================================================
