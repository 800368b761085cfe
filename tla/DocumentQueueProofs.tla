------------------------- MODULE DocumentQueueProofs -------------------------
(***************************************************************************)
(* The ingest queue and its retries, proved for every number of uploads,   *)
(* owners and processes: what a queue holds, what removes an original, and *)
(* that an accepted upload keeps its job.                                  *)
(***************************************************************************)
EXTENDS DocumentErasureProofs, WellFoundedInduction, SequenceTheorems

-----------------------------------------------------------------------------
(* Induction over the positions of a queue, and recursion along them        *)

(* What holds at 0, and at n when it holds at n - 1, holds up to the end:   *)
(* True is the set of the positions at which it holds.                      *)
LEMMA UpTo ==
  ASSUME NEW end \in Nat, NEW True, 0 \in True,
         \A n \in 1 .. end : n - 1 \in True => n \in True
  PROVE  \A n \in 0 .. end : n \in True
  <1> DEFINE Below == {pair \in Nat \X Nat : pair[1] < pair[2]}
             Fails == {n \in 0 .. end : n \notin True}
  <1> SUFFICES ASSUME Fails # {}
               PROVE  FALSE
    OBVIOUS
  <1>1. IsWellFoundedOn(Below, Nat)
    BY NatLessThanWellFounded DEF OpToRel
  <1>2. PICK n \in Fails : \A k \in Fails : <<k, n>> \notin Below
    <2>1. Fails \subseteq Nat
      OBVIOUS
    <2> HIDE DEF Fails, Below
    <2>2. QED
      BY <1>1, <2>1, WFMin
  <1>3. n \in 1 .. end /\ n - 1 \in 0 .. end /\ n \notin True
    BY <1>2
  <1>4. <<n - 1, n>> \in Below
    BY <1>3
  <1>5. n - 1 \in True
    BY <1>2, <1>3, <1>4
  <1>6. QED
    BY <1>3, <1>5

(* A function defined by recursion along 0 .. end exists                    *)
Follows(f, first, step, end) ==
  f[0] = first /\ \A n \in 1 .. end : f[n] = step[n][f[n - 1]]

LEMMA Along ==
  ASSUME NEW end \in Nat, NEW S, NEW first \in S, NEW step \in [1 .. end -> [S -> S]]
  PROVE  \E f \in [0 .. end -> S] : Follows(f, first, step, end)
  <1> USE DEF Follows
  <1> DEFINE True == {n \in 0 .. end : \E f \in [0 .. n -> S] : Follows(f, first, step, n)}
  <1>1. 0 \in True
    <2> DEFINE g == [k \in 0 .. 0 |-> first]
    <2>1. g \in [0 .. 0 -> S] /\ g[0] = first /\ 1 .. 0 = {} /\ 0 \in 0 .. end
      OBVIOUS
    <2> HIDE DEF g
    <2>2. Follows(g, first, step, 0)
      BY <2>1
    <2>3. QED
      BY <2>1, <2>2
  <1>2. ASSUME NEW n \in 1 .. end, n - 1 \in True
        PROVE  n \in True
    <2>1. PICK f \in [0 .. n - 1 -> S] : Follows(f, first, step, n - 1)
      BY <1>2
    <2> DEFINE g == [k \in 0 .. n |-> IF k = n THEN step[n][f[n - 1]] ELSE f[k]]
    <2>2. step[n] \in [S -> S] /\ f[n - 1] \in S
      OBVIOUS
    <2>3. g \in [0 .. n -> S]
      BY <2>2
    <2>4. \A k \in 0 .. n - 1 : g[k] = f[k]
      OBVIOUS
    <2>5. g[n] = step[n][g[n - 1]]
      BY <2>4
    <2>6. \A k \in 1 .. n - 1 : g[k] = step[k][g[k - 1]]
      BY <2>1, <2>4
    <2>7. g[0] = first
      BY <2>1, <2>4
    <2> HIDE DEF g
    <2>8. \A k \in 1 .. n : g[k] = step[k][g[k - 1]]
      BY <2>5, <2>6
    <2>9. QED
      BY <2>3, <2>7, <2>8
  <1>3. end \in True
    <2> HIDE DEF True
    <2>1. \A n \in 0 .. end : n \in True
      BY <1>1, <1>2, UpTo
    <2>2. QED
      BY <2>1
  <1>4. QED
    BY <1>3

-----------------------------------------------------------------------------
(* What a queue holds                                                       *)
In(jobs, u)    == \E i \in 1 .. Len(jobs) : jobs[i] = u
Distinct(jobs) == \A i, j \in 1 .. Len(jobs) : jobs[i] = jobs[j] => i = j

LEMMA AtTheBack ==
  ASSUME NEW jobs \in Seq(Uploads), NEW x \in Uploads
  PROVE  /\ Append(jobs, x) \in Seq(Uploads)
         /\ \A u : In(Append(jobs, x), u) <=> In(jobs, u) \/ u = x
         /\ Distinct(jobs) /\ ~In(jobs, x) => Distinct(Append(jobs, x))
  <1> DEFINE longer == Append(jobs, x)
  <1>1. /\ longer \in Seq(Uploads)
        /\ Len(jobs) \in Nat /\ Len(longer) = Len(jobs) + 1
        /\ \A i \in 1 .. Len(jobs) : longer[i] = jobs[i]
        /\ longer[Len(jobs) + 1] = x
    OBVIOUS
  <1> HIDE DEF longer
  <1>2. 1 .. Len(longer) = 1 .. Len(jobs) \cup {Len(jobs) + 1}
    BY <1>1
  <1>3. \A u : In(longer, u) <=> In(jobs, u) \/ u = x
    BY <1>1, <1>2 DEF In
  <1>4. Distinct(jobs) /\ ~In(jobs, x) => Distinct(longer)
    BY <1>1, <1>2 DEF In, Distinct
  <1>5. QED
    BY <1>1, <1>3, <1>4 DEF longer

LEMMA AtTheFront ==
  ASSUME NEW jobs \in Seq(Uploads), jobs # << >>
  PROVE  /\ Head(jobs) \in Uploads /\ In(jobs, Head(jobs))
         /\ Tail(jobs) \in Seq(Uploads)
         /\ Distinct(jobs) => /\ Distinct(Tail(jobs))
                              /\ \A u : In(Tail(jobs), u) <=> In(jobs, u) /\ u # Head(jobs)
  <1> DEFINE shorter == Tail(jobs)
             first == Head(jobs)
  <1>1. /\ shorter \in Seq(Uploads) /\ first \in Uploads
        /\ Len(jobs) \in Nat /\ Len(jobs) > 0 /\ Len(shorter) = Len(jobs) - 1
        /\ \A i \in 1 .. Len(shorter) : shorter[i] = jobs[i + 1]
        /\ first = jobs[1]
    BY HeadTailProperties, LenProperties, EmptySeq
  <1> HIDE DEF shorter, first
  <1>2. \A i \in 1 .. Len(jobs) : i = 1 \/ (i - 1 \in 1 .. Len(shorter) /\ (i - 1) + 1 = i)
    BY <1>1
  <1>3. \A i \in 1 .. Len(shorter) : i + 1 \in 1 .. Len(jobs) /\ i + 1 # 1
    BY <1>1
  <1>4. 1 \in 1 .. Len(jobs) /\ In(jobs, first)
    BY <1>1 DEF In
  <1>5. Distinct(jobs) => Distinct(shorter)
    BY <1>1, <1>3 DEF Distinct
  <1>6. ASSUME Distinct(jobs), NEW u
        PROVE  In(shorter, u) <=> In(jobs, u) /\ u # first
    <2>1. In(shorter, u) => In(jobs, u) /\ u # first
      BY <1>1, <1>3, <1>4, <1>6 DEF In, Distinct
    <2>2. ASSUME In(jobs, u), u # first
          PROVE  In(shorter, u)
      <3>1. PICK i \in 1 .. Len(jobs) : jobs[i] = u
        BY <2>2 DEF In
      <3>2. i - 1 \in 1 .. Len(shorter) /\ shorter[i - 1] = u
        BY <1>1, <1>2, <2>2, <3>1
      <3>3. QED
        BY <3>2 DEF In
    <2>3. QED
      BY <2>1, <2>2
  <1>7. QED
    BY <1>1, <1>4, <1>5, <1>6 DEF shorter, first

(* What erase_user puts back, position by position of the old queue         *)
LEMMA PutBackAlong ==
  ASSUME NEW jobs \in Seq(Uploads), NEW o
  PROVE  \E rest \in [0 .. Len(jobs) -> Seq(Uploads)] :
           /\ rest[0] = << >>
           /\ \A n \in 1 .. Len(jobs) :
                rest[n] = IF OwnerOf[jobs[n]] = o THEN rest[n - 1]
                                                  ELSE Append(rest[n - 1], jobs[n])
           /\ PutBack(jobs, o) = rest[Len(jobs)]
  <1> DEFINE end == Len(jobs)
             Then(n, s) == IF OwnerOf[jobs[n]] = o THEN s ELSE Append(s, jobs[n])
             step == [n \in 1 .. end |-> [s \in Seq(Uploads) |-> Then(n, s)]]
             Eqn(f) == f = [n \in 0 .. end |-> IF n = 0 THEN << >> ELSE Then(n, f[n - 1])]
             rest == CHOOSE f : Eqn(f)
  <1>1. end \in Nat /\ \A n \in 1 .. end : jobs[n] \in Uploads
    OBVIOUS
  <1>2. step \in [1 .. end -> [Seq(Uploads) -> Seq(Uploads)]]
    BY <1>1
  <1>3. PICK f \in [0 .. end -> Seq(Uploads)] :
          f[0] = << >> /\ \A n \in 1 .. end : f[n] = step[n][f[n - 1]]
    <2> DEFINE S == Seq(Uploads)
               none == << >>
    <2>1. none \in S
      OBVIOUS
    <2>2. end \in Nat /\ step \in [1 .. end -> [S -> S]]
      BY <1>1, <1>2
    <2> HIDE DEF step, end, S, none
    <2>3. \E f \in [0 .. end -> S] : Follows(f, none, step, end)
      BY <2>1, <2>2, Along
    <2>4. QED
      BY <2>3 DEF S, none, Follows
  <1>4. Eqn(f)
    <2>1. ASSUME NEW n \in 1 .. end
          PROVE  f[n] = Then(n, f[n - 1])
      <3>0. n - 1 \in 0 .. end
        BY <1>1
      <3> HIDE DEF end
      <3>1. f[n - 1] \in Seq(Uploads) /\ f[n] = step[n][f[n - 1]]
        BY <1>3, <3>0
      <3> USE DEF end
      <3> HIDE DEF Then, end
      <3>2. QED
        BY <3>1
    <2> HIDE DEF end, Then
    <2>2. QED
      BY <1>1, <1>3, <2>1
  <1>5. Eqn(rest)
    BY <1>4
  <1>6. PutBack(jobs, o) = rest[end]
    BY DEF PutBack
  <1>7. rest = [n \in 0 .. end |-> IF n = 0 THEN << >> ELSE Then(n, rest[n - 1])]
    BY <1>5
  <1> HIDE DEF rest, Eqn
  <1>8. /\ rest[0] = << >>
        /\ \A n \in 1 .. end : n \in 0 .. end /\ rest[n] = Then(n, rest[n - 1])
    <2> HIDE DEF Then
    <2>1. \A n \in 0 .. end : rest[n] = IF n = 0 THEN << >> ELSE Then(n, rest[n - 1])
      BY <1>7
    <2>2. QED
      BY <1>1, <2>1
  <1> DEFINE Typed == {n \in 0 .. end : rest[n] \in Seq(Uploads)}
  <1>9. \A n \in 0 .. end : n \in Typed
    <2>1. 0 \in Typed
      <3>1. rest[0] \in Seq(Uploads) /\ 0 \in 0 .. end
        BY <1>1, <1>8
      <3>2. QED
        BY <3>1
    <2>2. ASSUME NEW n \in 1 .. end, n - 1 \in Typed
          PROVE  n \in Typed
      <3>1. rest[n - 1] \in Seq(Uploads) /\ jobs[n] \in Uploads
        BY <1>1, <2>2
      <3>2. Then(n, rest[n - 1]) \in Seq(Uploads)
        BY <3>1
      <3>3. rest[n] \in Seq(Uploads) /\ n \in 0 .. end
        BY <1>8, <3>2
      <3>4. QED
        BY <3>3
    <2> HIDE DEF Typed, end
    <2>3. QED
      BY <1>1, <2>1, <2>2, UpTo
  <1>10. rest \in [0 .. end -> Seq(Uploads)]
    <2>1. \A n \in 0 .. end : rest[n] \in Seq(Uploads)
      BY <1>9
    <2>2. DOMAIN rest = 0 .. end /\ rest = [n \in 0 .. end |-> rest[n]]
      BY <1>7
    <2> HIDE DEF end
    <2>3. QED
      BY <2>1, <2>2
  <1>11. QED
    BY <1>6, <1>8, <1>10

(* The rebuilt queue holds the jobs of the other owners, each one once.     *)
LEMMA PutBackHolds ==
  ASSUME NEW jobs \in Seq(Uploads), NEW o
  PROVE  /\ PutBack(jobs, o) \in Seq(Uploads)
         /\ \A u : In(PutBack(jobs, o), u) <=> In(jobs, u) /\ OwnerOf[u] # o
         /\ Distinct(jobs) => Distinct(PutBack(jobs, o))
  <1> DEFINE end == Len(jobs)
  <1>1. end \in Nat /\ \A n \in 1 .. end : jobs[n] \in Uploads
    OBVIOUS
  <1>2. PICK rest \in [0 .. end -> Seq(Uploads)] :
          /\ rest[0] = << >>
          /\ \A n \in 1 .. end :
               rest[n] = IF OwnerOf[jobs[n]] = o THEN rest[n - 1]
                                                 ELSE Append(rest[n - 1], jobs[n])
          /\ PutBack(jobs, o) = rest[end]
    BY PutBackAlong
  <1> DEFINE Before(u, n) == \E k \in 1 .. n : jobs[k] = u
             Ok(n) == /\ \A u : In(rest[n], u) <=> Before(u, n) /\ OwnerOf[u] # o
                      /\ Distinct(jobs) => Distinct(rest[n])
             Good == {n \in 0 .. end : Ok(n)}
  <1>3. 0 \in Good
    <2>1. 0 \in 0 .. end /\ rest[0] = << >> /\ 1 .. Len(<< >>) = {} /\ 1 .. 0 = {}
      BY <1>1, <1>2, EmptySeq
    <2> HIDE DEF end
    <2>2. Ok(0)
      BY <2>1 DEF In, Distinct
    <2>3. QED
      BY <2>1, <2>2
  <1>4. ASSUME NEW n \in 1 .. end, n - 1 \in Good
        PROVE  n \in Good
    <2>1. /\ n \in 0 .. end /\ n - 1 \in 0 .. end
          /\ 1 .. n = 1 .. n - 1 \cup {n}
          /\ n \notin 1 .. n - 1 /\ 1 .. n \subseteq 1 .. end
      BY <1>1
    <2>2. /\ jobs[n] \in Uploads /\ rest[n - 1] \in Seq(Uploads) /\ Ok(n - 1)
          /\ rest[n] = IF OwnerOf[jobs[n]] = o THEN rest[n - 1]
                                                ELSE Append(rest[n - 1], jobs[n])
      <3> HIDE DEF end, Ok
      <3>1. QED
        BY <1>1, <1>2, <1>4, <2>1
    <2>3. \A u : Before(u, n) <=> Before(u, n - 1) \/ u = jobs[n]
      BY <2>1
    <2>4. Distinct(jobs) => ~Before(jobs[n], n - 1)
      BY <2>1 DEF Distinct
    <2> HIDE DEF Before, end
    <2>5. CASE OwnerOf[jobs[n]] = o
      <3>1. rest[n] = rest[n - 1]
        BY <2>2, <2>5
      <3>2. QED
        BY <2>1, <2>2, <2>3, <2>5, <3>1
    <2>6. CASE OwnerOf[jobs[n]] # o
      <3>1. /\ \A u : In(rest[n], u) <=> In(rest[n - 1], u) \/ u = jobs[n]
            /\ Distinct(rest[n - 1]) /\ ~In(rest[n - 1], jobs[n]) => Distinct(rest[n])
        BY <2>2, <2>6, AtTheBack
      <3>2. QED
        BY <2>1, <2>2, <2>3, <2>4, <2>6, <3>1
    <2>7. QED
      BY <2>5, <2>6
  <1>5. end \in Good
    <2> HIDE DEF Good, end
    <2>1. \A n \in 0 .. end : n \in Good
      BY <1>1, <1>3, <1>4, UpTo
    <2>2. QED
      BY <1>1, <2>1
  <1>6. rest[end] \in Seq(Uploads)
    BY <1>1, <1>2
  <1>7. \A u : In(jobs, u) <=> Before(u, end)
    BY DEF In
  <1> HIDE DEF end, Before
  <1>8. QED
    BY <1>2, <1>5, <1>6, <1>7

-----------------------------------------------------------------------------
(* The invariant of the work on uploads, as predicates on their records:    *)
(* where a job can be (Placed); that a job has its original (Backed); that, *)
(* as long as the process serves, an original has a job (Kept).             *)
Unqueued == {"admitted", "saving", "saved", "created"}

Placed(s) ==
  /\ s.handler \in Unqueued \cup {"new"} => s.job = "none"
  /\ s.handler \in Unqueued \cup {"queued"} \/ s.job # "none" => s.at \in Processes

Backed(s, open) ==
  /\ open /\ s.handler \in {"saving", "saved", "created"} => s.file = "live"
  /\ s.handler # "refused" /\ s.job # "none" /\ (open \/ s.job \in Reading) => s.file = "live"

Kept(s, open, up) ==
  /\ open /\ up /\ s.handler \in {"queued", "answered"}
  /\ s.file = "live" \/ s.row = "processing"
  => s.job # "none"

Up(u) == upload[u].at \in Processes /\ running[upload[u].at] = "up"

Hosted(u) == upload[u].at \in Processes => running[upload[u].at] \in {"up", "stopping"}

MarkedIsFenced(u) == \A p \in Processes : OwnerOf[u] \in marked[p] => OwnerOf[u] \in fenced

LockedOut(u) == LockedExclusive(OwnerOf[u]) => upload[u].job \notin Reading

Holds(jobs, p) ==
  /\ jobs \in Seq(Uploads) /\ Distinct(jobs)
  /\ \A u \in Uploads : In(jobs, u) <=> upload[u].job = "queued" /\ upload[u].at = p

OtherTypes ==
  /\ running \in [Processes -> {"down", "starting", "up", "stopping"}]
  /\ sweep \subseteq Owners
  /\ marked \in [Processes -> SUBSET Owners]
  /\ fenced \subseteq Owners /\ wanted \subseteq Owners /\ wiped \subseteq Owners

WorkInv ==
  /\ EraseInv /\ OtherTypes
  /\ queue \in [Processes -> Seq(Uploads)] /\ \A p \in Processes : Holds(queue[p], p)
  /\ \A u \in Uploads : Placed(upload[u]) /\ Hosted(u) /\ MarkedIsFenced(u) /\ LockedOut(u)

(* One step on one upload                                                   *)
Loses(s, t, open) ==
  s.file = "live" /\ t.file = "none" /\ open =>
    \/ s.handler \notin {"answered", "refused"}
    \/ s.job \in Reading \cup {"locking"} /\ t.job = "none"

Worked(s, t, open, up) ==
  /\ Placed(t) /\ Loses(s, t, open)
  /\ Backed(s, open) => Backed(t, open)
  /\ "database" \notin Faults /\ Kept(s, open, up) => Kept(t, open, up)

Works(u) ==
  /\ Placed(upload'[u]) /\ Hosted(u)' /\ MarkedIsFenced(u)'
  /\ Loses(upload[u], upload'[u], Admitted(u))
  /\ Backed(upload[u], Admitted(u)) => Backed(upload[u], Admitted(u))'
  /\ "database" \notin Faults /\ Kept(upload[u], Admitted(u), Up(u)) =>
       Kept(upload[u], Admitted(u), Up(u))'

LEMMA StaysAt ==
  ASSUME WorkInv, NEW u \in Uploads, upload'[u].at = upload[u].at,
         Worked(upload[u], upload'[u], Admitted(u), Up(u)),
         upload[u].at \in Processes => running'[upload[u].at] \in {running[upload[u].at], "stopping"},
         fenced \subseteq fenced',
         \A p \in Processes : OwnerOf[u] \in marked'[p] => OwnerOf[u] \in marked[p] \cup fenced
  PROVE  Works(u)
  <1> DEFINE s == upload[u]
             t == upload'[u]
  <1>1. Placed(t) /\ Loses(s, t, Admitted(u))
    BY DEF Worked
  <1>2. Hosted(u)'
    BY DEF WorkInv, Hosted
  <1>3. MarkedIsFenced(u)'
    BY DEF WorkInv, MarkedIsFenced
  <1>4. (Admitted(u)' => Admitted(u)) /\ (Up(u)' => Up(u))
    BY DEF Admitted, Up
  <1>5. Kept(t, Admitted(u), Up(u)) => Kept(upload[u], Admitted(u), Up(u))'
    BY <1>4 DEF Kept
  <1>6. Backed(t, Admitted(u)) => Backed(upload[u], Admitted(u))'
    BY <1>4 DEF Backed
  <1>7. QED
    BY <1>1, <1>2, <1>3, <1>5, <1>6 DEF Works, Worked

LEMMA WorksUntouched ==
  ASSUME WorkInv, NEW u \in Uploads, upload'[u] = upload[u],
         upload[u].at \in Processes => running'[upload[u].at] \in {running[upload[u].at], "stopping"},
         fenced \subseteq fenced',
         \A p \in Processes : OwnerOf[u] \in marked'[p] => OwnerOf[u] \in marked[p] \cup fenced
  PROVE  Works(u)
  <1>1. Worked(upload[u], upload'[u], Admitted(u), Up(u))
    BY DEF WorkInv, Worked, Loses
  <1>2. QED
    BY <1>1, StaysAt

(* The queues, when nothing is put in or taken out                          *)
Steady(s, t) ==
  \/ t.at = s.at /\ t.job = s.job
  \/ t.job # "queued" /\ s.job # "queued"

QueuesHold == queue' \in [Processes -> Seq(Uploads)] /\ \A p \in Processes : Holds(queue[p], p)'

LEMMA QueuesRest ==
  ASSUME WorkInv, queue' = queue, \A u \in Uploads : Steady(upload[u], upload'[u])
  PROVE  QueuesHold
  BY DEF WorkInv, QueuesHold, Holds, Steady

(* The queues, when that of one process changes                             *)
OnlyAt(u, p) ==
  Steady(upload[u], upload'[u]) \/ (upload[u].at = p /\ upload'[u].at \in {p, NoProcess})

LEMMA OneQueue ==
  ASSUME WorkInv, NEW p \in Processes, NEW jobs \in Seq(Uploads), Distinct(jobs),
         queue' = [queue EXCEPT ![p] = jobs],
         \A u \in Uploads : In(jobs, u) <=> upload'[u].job = "queued" /\ upload'[u].at = p,
         \A u \in Uploads : OnlyAt(u, p)
  PROVE  QueuesHold
  <1>1. /\ queue \in [Processes -> Seq(Uploads)] /\ \A q \in Processes : Holds(queue[q], q)
        /\ NoProcess \notin Processes
    BY ConstantsAssumption DEF WorkInv
  <1>2. /\ queue' \in [Processes -> Seq(Uploads)] /\ queue'[p] = jobs
        /\ \A q \in Processes \ {p} : queue'[q] = queue[q]
    BY <1>1
  <1>3. Holds(queue[p], p)'
    BY <1>2 DEF Holds
  <1>4. ASSUME NEW q \in Processes \ {p}
        PROVE  Holds(queue[q], q)'
    <2>1. queue'[q] = queue[q] /\ Holds(queue[q], q) /\ q # p /\ q # NoProcess
      BY <1>1, <1>2
    <2>2. \A u \in Uploads :
            upload'[u].job = "queued" /\ upload'[u].at = q <=>
              upload[u].job = "queued" /\ upload[u].at = q
      BY <2>1 DEF Steady, OnlyAt
    <2>3. QED
      BY <2>1, <2>2 DEF Holds
  <1>5. QED
    BY <1>2, <1>3, <1>4 DEF QueuesHold

WorkStep == QueuesHold /\ \A u \in Uploads : Works(u)

LEMMA OneWorks ==
  ASSUME WorkInv, NEW u \in Uploads, NEW t, Becomes(u, t), t.at = upload[u].at,
         Worked(upload[u], t, Admitted(u), Up(u)),
         running' = running, marked' = marked, fenced' = fenced
  PROVE  \A x \in Uploads : Works(x)
  <1>1. upload'[u] = t /\ \A x \in Uploads \ {u} : upload'[x] = upload[x]
    BY DEF Becomes, WorkInv, EraseInv, TypeInv
  <1>2. Works(u)
    BY <1>1, StaysAt
  <1>3. \A x \in Uploads \ {u} : Works(x)
    BY <1>1, WorksUntouched
  <1>4. QED
    BY <1>2, <1>3

LEMMA OneWorked ==
  ASSUME WorkInv, NEW u \in Uploads, NEW t, Becomes(u, t), t.at = upload[u].at,
         Worked(upload[u], t, Admitted(u), Up(u)), Steady(upload[u], t),
         queue' = queue, running' = running, marked' = marked, fenced' = fenced
  PROVE  WorkStep
  <1>1. upload'[u] = t /\ \A x \in Uploads \ {u} : upload'[x] = upload[x]
    BY DEF Becomes, WorkInv, EraseInv, TypeInv
  <1>2. QueuesHold
    BY <1>1, QueuesRest DEF Steady
  <1>3. QED
    BY <1>2, OneWorks DEF WorkStep

(* A job put at the back of the queue of the upload's process               *)
LEMMA PutIn ==
  ASSUME WorkInv, NEW u \in Uploads, NEW t, Becomes(u, t), t.at = upload[u].at, t.job = "queued",
         upload[u].at \in Processes, upload[u].job # "queued",
         queue' = [queue EXCEPT ![upload[u].at] = Append(@, u)]
  PROVE  QueuesHold
  <1>1. PICK p \in Processes : p = upload[u].at
    OBVIOUS
  <1> DEFINE jobs == queue[p]
             longer == Append(jobs, u)
  <1>2. /\ upload'[u] = t /\ \A x \in Uploads \ {u} : upload'[x] = upload[x]
        /\ queue \in [Processes -> Seq(Uploads)] /\ Holds(jobs, p)
    BY <1>1 DEF Becomes, WorkInv, EraseInv, TypeInv
  <1>3. /\ longer \in Seq(Uploads) /\ Distinct(longer)
        /\ \A x : In(longer, x) <=> In(jobs, x) \/ x = u
    BY <1>1, <1>2, AtTheBack DEF Holds
  <1>4. queue' = [queue EXCEPT ![p] = longer]
    BY <1>1, <1>2
  <1> HIDE DEF longer
  <1>5. \A x \in Uploads : In(longer, x) <=> upload'[x].job = "queued" /\ upload'[x].at = p
    <2>1. \A x \in Uploads : In(jobs, x) <=> upload[x].job = "queued" /\ upload[x].at = p
      BY <1>2 DEF Holds
    <2>2. QED
      BY <1>1, <1>2, <1>3, <2>1
  <1>6. \A x \in Uploads : OnlyAt(x, p)
    BY <1>1, <1>2 DEF OnlyAt, Steady
  <1>7. QED
    BY <1>3, <1>4, <1>5, <1>6, OneQueue

(* The fields of what the operators on an upload return                     *)
Is(t, at, handler, file, row, job) ==
  t.at = at /\ t.handler = handler /\ t.file = file /\ t.row = row /\ t.job = job

LEMMA Records ==
  ASSUME NEW s \in UploadState
  PROVE  /\ Is(s, s.at, s.handler, s.file, s.row, s.job)
         /\ Is(Unlinked(s), s.at, s.handler, "none", s.row, s.job)
         /\ Is(JobDone(s), s.at, s.handler, "none", s.row, "none")
         /\ Is(Refused(s), s.at, "refused", "none", s.row, s.job)
         /\ Is(RowGone(s), s.at, s.handler, s.file, "gone", s.job)
         /\ Is(RowFailed(s), s.at, s.handler, s.file, "failed", s.job)
         /\ Is(Stored(s), s.at, s.handler, s.file, "ready", s.job)
         /\ RowGone(s) \in UploadState /\ RowFailed(s) \in UploadState /\ Stored(s) \in UploadState
         /\ \A j : Is([s EXCEPT !.job = j], s.at, s.handler, s.file, s.row, j)
         /\ \A r, x : Is([s EXCEPT !.reindex = r, !.row = x], s.at, s.handler, s.file, x, s.job)
         /\ \A h : Is([s EXCEPT !.handler = h], s.at, h, s.file, s.row, s.job)
  <1> USE DEF UploadState, Is
  <1>1. /\ Is(Unlinked(s), s.at, s.handler, "none", s.row, s.job)
        /\ Is(JobDone(s), s.at, s.handler, "none", s.row, "none")
        /\ Is(Refused(s), s.at, "refused", "none", s.row, s.job)
    BY DEF Unlinked, JobDone, Refused
  <1>2. /\ Is(RowGone(s), s.at, s.handler, s.file, "gone", s.job)
        /\ Is(RowFailed(s), s.at, s.handler, s.file, "failed", s.job)
        /\ Is(Stored(s), s.at, s.handler, s.file, "ready", s.job)
    BY DEF RowGone, RowFailed, Stored
  <1>3. RowGone(s) \in UploadState /\ RowFailed(s) \in UploadState /\ Stored(s) \in UploadState
    BY DEF RowGone, RowFailed, Stored
  <1>4. /\ \A j : Is([s EXCEPT !.job = j], s.at, s.handler, s.file, s.row, j)
        /\ \A h : Is([s EXCEPT !.handler = h], s.at, h, s.file, s.row, s.job)
    OBVIOUS
  <1>5. \A r, x : Is([s EXCEPT !.reindex = r, !.row = x], s.at, s.handler, s.file, x, s.job)
    OBVIOUS
  <1>6. Is(s, s.at, s.handler, s.file, s.row, s.job)
    OBVIOUS
  <1> HIDE DEF UploadState, Is
  <1>7. QED
    BY <1>1, <1>2, <1>3, <1>4, <1>5, <1>6

(* One step of a job                                                        *)
Begun(s) == s.job \in Reading \cup {"locking"}

(* A job goes on: its original stays, and a row is not made processing      *)
LEMMA GoesOn ==
  ASSUME NEW s, NEW t, NEW open \in BOOLEAN, NEW up \in BOOLEAN, Placed(s), s.job # "none",
         NEW row, NEW job, Is(t, s.at, s.handler, s.file, row, job),
         row = s.row \/ row # "processing",
         job # "none" \/ ~up,
         job \in Reading => s.job \in Reading \/ open
  PROVE  Worked(s, t, open, up)
  BY DEF Placed, Is, Worked, Loses, Kept, Backed, Unqueued

(* A job ends, with its original                                            *)
LEMMA IsDone ==
  ASSUME NEW s, NEW t, NEW open \in BOOLEAN, NEW up \in BOOLEAN, Placed(s), s.job # "none",
         NEW row, Is(t, s.at, s.handler, "none", row, "none"),
         Begun(s) \/ ~open,
         row # "processing" \/ ~open \/ "database" \in Faults
  PROVE  Worked(s, t, open, up)
  BY DEF Placed, Is, Worked, Loses, Kept, Backed, Unqueued, Begun

LEMMA RetryWorked ==
  ASSUME WorkInv, NEW u \in Uploads, NEW r \in UploadState, upload[u].job \in Reading,
         Is(r, upload[u].at, upload[u].handler, upload[u].file, r.row, upload[u].job),
         r.row = upload[u].row \/ r.row # "processing"
  PROVE  /\ Worked(upload[u], Retried(u, r), Admitted(u), Up(u))
         /\ Retried(u, r).at = upload[u].at /\ Steady(upload[u], Retried(u, r))
  <1> DEFINE s == upload[u]
             p == s.at
             row == r.row
             t == Retried(u, r)
             open == Admitted(u)
             up == Up(u)
  <1>1. /\ Placed(s) /\ s.job # "none" /\ Begun(s) /\ s.job # "queued" /\ p \in Processes
        /\ open \in BOOLEAN /\ up \in BOOLEAN
    BY DEF WorkInv, Reading, Begun, Placed, Admitted, Up
  <1>2. CASE OwnerOf[u] \in marked[p]
    <2>1. ~open
      BY <1>1, <1>2 DEF WorkInv, MarkedIsFenced, Admitted
    <2>2. t = JobDone(r)
      BY <1>2 DEF Retried
    <2>3. Is(t, p, s.handler, "none", row, "none")
      BY <2>2, Records DEF Is
    <2> HIDE DEF s, t, open, up
    <2>4. Worked(s, t, open, up)
      BY <1>1, <2>1, <2>3, IsDone
    <2>5. QED
      BY <1>1, <2>3, <2>4 DEF s, t, open, up, Is, Steady
  <1>3. CASE OwnerOf[u] \notin marked[p]
    <2> DEFINE job == IF running[p] = "stopping" THEN "none" ELSE "delayed"
    <2>1. t = [r EXCEPT !.job = job]
      BY <1>3 DEF Retried
    <2>2. job # "queued" /\ (job # "none" \/ ~up) /\ job \notin Reading
      BY DEF Up, Reading
    <2> HIDE DEF job
    <2>3. Is(t, p, s.handler, s.file, row, job)
      BY <2>1, Records DEF Is
    <2> HIDE DEF s, t, open, up
    <2>4. row = s.row \/ row # "processing"
      BY DEF s
    <2> HIDE DEF row
    <2>5. Worked(s, t, open, up)
      BY <1>1, <2>2, <2>3, <2>4, GoesOn
    <2>6. QED
      BY <1>1, <2>2, <2>3, <2>5 DEF s, t, open, up, Is, Steady
  <1>4. QED
    BY <1>2, <1>3

LEMMA JobWorks ==
  ASSUME WorkInv, NEW u \in Uploads,
         \/ JobBegins(u) \/ JobTurnedAway(u) \/ JobWithdrawn(u) \/ JobPrepared(u) \/ JobFails(u)
         \/ Store(u) \/ StoreFails(u) \/ MarkFailed(u) \/ MarkFails(u) \/ MarkUnavailable(u)
         \/ CipherFails(u)
  PROVE  WorkStep
  <1> DEFINE s == upload[u]
             open == Admitted(u)
             up == Up(u)
  <1>1. /\ s \in UploadState /\ Placed(s) /\ open \in BOOLEAN /\ up \in BOOLEAN
    BY DEF WorkInv, EraseInv, TypeInv, Admitted, Up
  <1>2. queue' = queue /\ running' = running /\ marked' = marked /\ fenced' = fenced
    BY DEF JobBegins, JobTurnedAway, JobWithdrawn, JobPrepared, JobFails, Store, StoreFails,
       MarkFailed, MarkFails, MarkUnavailable, CipherFails, JobEnds, OnlyUploads
  <1>3. Begun(s) /\ s.job # "none" /\ s.job # "queued"
    BY DEF JobBegins, JobTurnedAway, JobWithdrawn, JobPrepared, JobFails, Store, StoreFails,
       MarkFailed, MarkFails, MarkUnavailable, CipherFails, Begun, Reading
  <1>4. ASSUME NEW t, NEW row, NEW job, Becomes(u, t), Is(t, s.at, s.handler, s.file, row, job),
               row = s.row \/ row # "processing", job \notin {"none", "queued"},
               job \in Reading => s.job \in Reading \/ open
        PROVE  WorkStep
    <2>1. Worked(s, t, open, up)
      <3> HIDE DEF s, open, up
      <3>1. QED
        BY <1>1, <1>3, <1>4, GoesOn
    <2>2. QED
      BY <1>2, <1>3, <1>4, <2>1, OneWorked DEF Is, Steady
  <1>5. ASSUME NEW t, NEW row, Becomes(u, t), Is(t, s.at, s.handler, "none", row, "none"),
               row # "processing" \/ ~open \/ "database" \in Faults
        PROVE  WorkStep
    <2>1. Worked(s, t, open, up)
      <3> HIDE DEF s, open, up
      <3>1. QED
        BY <1>1, <1>3, <1>5, IsDone
    <2>2. QED
      BY <1>2, <1>3, <1>5, <2>1, OneWorked DEF Is, Steady
  <1>6. CASE JobBegins(u) \/ JobPrepared(u) \/ JobFails(u) \/ CipherFails(u)
    <2>1. PICK job \in Reading : Becomes(u, [s EXCEPT !.job = job])
      BY <1>6 DEF JobBegins, JobPrepared, JobFails, CipherFails, Reading
    <2>2. s.job \in Reading \/ open
      BY <1>6 DEF JobBegins, JobPrepared, JobFails, CipherFails, Reading
    <2>3. Is([s EXCEPT !.job = job], s.at, s.handler, s.file, s.row, job)
      BY <1>1, Records
    <2>4. QED
      BY <1>4, <2>1, <2>2, <2>3 DEF Reading
  <1>7. CASE JobTurnedAway(u) \/ JobWithdrawn(u)
    <2>1. Becomes(u, JobDone(s)) /\ (~open \/ "database" \in Faults)
      BY <1>7 DEF JobTurnedAway, JobWithdrawn, JobEnds
    <2>2. QED
      BY <1>1, <1>5, <2>1, Records
  <1>8. CASE Store(u) \/ StoreFails(u)
    <2>1. \/ Becomes(u, JobDone(Stored(s)))
          \/ Becomes(u, [s EXCEPT !.job = "failing"])
          \/ Becomes(u, [Stored(s) EXCEPT !.job = "failing"])
      BY <1>8 DEF Store, StoreFails, JobEnds
    <2>2. /\ Is(JobDone(Stored(s)), s.at, s.handler, "none", "ready", "none")
          /\ Is([s EXCEPT !.job = "failing"], s.at, s.handler, s.file, s.row, "failing")
          /\ Is([Stored(s) EXCEPT !.job = "failing"], s.at, s.handler, s.file, "ready", "failing")
      BY <1>1, Records DEF Is
    <2>3. "failing" \in Reading => s.job \in Reading
      BY <1>8 DEF Store, StoreFails, Reading
    <2>4. QED
      BY <1>4, <1>5, <2>1, <2>2, <2>3
  <1>9. CASE MarkFailed(u)
    <2>1. Is(JobDone(RowFailed(s)), s.at, s.handler, "none", "failed", "none")
      BY <1>1, Records DEF Is
    <2>2. QED
      BY <1>5, <1>9, <2>1 DEF MarkFailed, JobEnds
  <1>10. CASE MarkFails(u) \/ MarkUnavailable(u)
    <2>1. PICK r \in {s, RowFailed(s)} : Becomes(u, Retried(u, r))
      BY <1>10 DEF MarkFails, MarkUnavailable, JobEnds
    <2>2. /\ Is(r, s.at, s.handler, s.file, r.row, s.job)
          /\ r.row = s.row \/ r.row # "processing"
      BY <1>1, Records DEF Is
    <2>3. s.job \in Reading /\ r \in UploadState
      BY <1>1, <1>10, Records DEF MarkFails, MarkUnavailable, Reading
    <2>4. /\ Worked(s, Retried(u, r), open, up) /\ Retried(u, r).at = s.at
          /\ Steady(s, Retried(u, r))
      BY <2>2, <2>3, RetryWorked
    <2>5. QED
      BY <1>2, <2>1, <2>4, OneWorked
  <1>11. QED
    BY <1>6, <1>7, <1>8, <1>9, <1>10

LEMMA RequeueWorks ==
  ASSUME WorkInv, NEW u \in Uploads, Requeue(u) \/ RequeueFails(u)
  PROVE  WorkStep
  <1> DEFINE s == upload[u]
             open == Admitted(u)
             up == Up(u)
  <1>1. /\ s \in UploadState /\ Placed(s) /\ open \in BOOLEAN /\ up \in BOOLEAN
        /\ s.job = "delayed"
    BY DEF WorkInv, EraseInv, TypeInv, Admitted, Up, Requeue, RequeueFails
  <1>2. s.at \in Processes
    BY <1>1 DEF Placed
  <1>3. running' = running /\ marked' = marked /\ fenced' = fenced
    BY DEF Requeue, RequeueFails, OnlyUploads
  <1>4. CASE Requeue(u) /\ Accepted(u)
    <2> DEFINE t == [s EXCEPT !.job = "queued"]
    <2>1. /\ Becomes(u, t) /\ queue' = [queue EXCEPT ![s.at] = Append(@, u)]
          /\ Is(t, s.at, s.handler, s.file, s.row, "queued")
      BY <1>1, <1>4, Records DEF Requeue
    <2> HIDE DEF t
    <2>2. Worked(s, t, open, up)
      <3>1. Is(t, s.at, s.handler, s.file, s.row, "queued") /\ s.job # "none"
        BY <1>1, <2>1
      <3> HIDE DEF s, open, up
      <3>2. QED
        BY <1>1, <3>1, GoesOn DEF Reading
    <2>3. QueuesHold
      BY <1>1, <1>2, <2>1, PutIn DEF Is
    <2>4. \A x \in Uploads : Works(x)
      BY <1>3, <2>1, <2>2, OneWorks DEF Is
    <2>5. QED
      BY <2>3, <2>4 DEF WorkStep
  <1>5. CASE Requeue(u) /\ ~Accepted(u)
    <2> DEFINE t == JobDone(s)
    <2>1. /\ Becomes(u, t) /\ queue' = queue
          /\ Is(t, s.at, s.handler, "none", s.row, "none")
      BY <1>1, <1>5, Records DEF Requeue
    <2>2. ~open
      BY <1>2, <1>5 DEF Accepted, WorkInv, MarkedIsFenced, Admitted
    <2> HIDE DEF t
    <2>3. Worked(s, t, open, up)
      <3> HIDE DEF s, open, up
      <3>1. QED
        BY <1>1, <2>1, <2>2, IsDone
    <2>4. QED
      BY <1>1, <1>3, <2>1, <2>3, OneWorked DEF Is, Steady
  <1>6. CASE RequeueFails(u)
    <2> DEFINE t == [s EXCEPT !.job = "none"]
    <2>1. /\ Becomes(u, t) /\ queue' = queue /\ "database" \in Faults
          /\ Is(t, s.at, s.handler, s.file, s.row, "none")
      BY <1>1, <1>6, Records DEF RequeueFails, OnlyUploads
    <2> HIDE DEF t
    <2>2. Worked(s, t, open, up)
      BY <1>1, <2>1 DEF Is, Worked, Placed, Loses, Backed
    <2>3. QED
      BY <1>1, <1>3, <2>1, <2>2, OneWorked DEF Is, Steady
  <1>7. QED
    BY <1>4, <1>5, <1>6

LEMMA TakeWorks ==
  ASSUME WorkInv, NEW u \in Uploads, NEW p \in Processes, Take(u, p)
  PROVE  WorkStep
  <1> DEFINE s == upload[u]
             t == [s EXCEPT !.job = "locking"]
             jobs == queue[p]
             shorter == Tail(jobs)
  <1>1. /\ s \in UploadState /\ Placed(s) /\ Admitted(u) \in BOOLEAN /\ Up(u) \in BOOLEAN
        /\ queue \in [Processes -> Seq(Uploads)] /\ \A q \in Processes : Holds(queue[q], q)
    BY DEF WorkInv, EraseInv, TypeInv, Admitted, Up
  <1>2. /\ jobs \in Seq(Uploads) /\ jobs # << >> /\ u = Head(jobs) /\ Becomes(u, t)
        /\ queue' = [queue EXCEPT ![p] = shorter]
        /\ running' = running /\ marked' = marked /\ fenced' = fenced
    BY <1>1 DEF Take
  <1>3. Distinct(jobs) /\ \A x \in Uploads : In(jobs, x) <=> upload[x].job = "queued" /\ upload[x].at = p
    BY <1>1 DEF Holds
  <1>4. /\ In(jobs, u) /\ shorter \in Seq(Uploads) /\ Distinct(shorter)
        /\ \A x : In(shorter, x) <=> In(jobs, x) /\ x # u
    BY <1>2, <1>3, AtTheFront
  <1>5. s.job = "queued" /\ s.at = p
    BY <1>3, <1>4
  <1>6. Is(t, p, s.handler, s.file, s.row, "locking")
    BY <1>1, <1>5, Records
  <1>7. upload'[u] = t /\ \A x \in Uploads \ {u} : upload'[x] = upload[x]
    BY <1>2 DEF Becomes, WorkInv, EraseInv, TypeInv
  <1> HIDE DEF t, shorter
  <1>8. QueuesHold
    <2>1. \A x \in Uploads : In(shorter, x) <=> upload'[x].job = "queued" /\ upload'[x].at = p
      BY <1>3, <1>4, <1>6, <1>7 DEF Is
    <2>2. \A x \in Uploads : OnlyAt(x, p)
      BY <1>5, <1>6, <1>7 DEF OnlyAt, Steady, Is
    <2>3. QED
      BY <1>2, <1>4, <2>1, <2>2, OneQueue
  <1>9. Worked(s, t, Admitted(u), Up(u))
    <2> DEFINE open == Admitted(u)
               up == Up(u)
    <2>1. /\ open \in BOOLEAN /\ up \in BOOLEAN /\ Placed(s) /\ s.job # "none"
          /\ Is(t, s.at, s.handler, s.file, s.row, "locking")
      BY <1>1, <1>5, <1>6
    <2> HIDE DEF s, open, up
    <2>2. Worked(s, t, open, up)
      BY <2>1, GoesOn DEF Reading
    <2>3. QED
      BY <2>2 DEF s, open, up
  <1>10. QED
    BY <1>2, <1>5, <1>6, <1>8, <1>9, OneWorks DEF WorkStep, Is

LEMMA SaveBeginWorks ==
  ASSUME WorkInv, NEW u \in Uploads, NEW p \in Processes, SaveBegin(u, p)
  PROVE  WorkStep
  <1> DEFINE s == upload[u]
             t == [s EXCEPT !.handler = "admitted", !.at = p]
  <1>1. s \in UploadState /\ Placed(s) /\ s.handler = "new" /\ running[p] = "up"
    BY DEF WorkInv, EraseInv, TypeInv, SaveBegin, Serving
  <1>2. /\ upload'[u] = t /\ \A x \in Uploads \ {u} : upload'[x] = upload[x]
        /\ queue' = queue /\ running' = running /\ marked' = marked /\ fenced' = fenced
    BY DEF WorkInv, EraseInv, TypeInv, SaveBegin, Becomes, OnlyUploads
  <1>3. Is(t, p, "admitted", s.file, s.row, "none") /\ s.job = "none"
    BY <1>1 DEF Is, UploadState, Placed
  <1> HIDE DEF t
  <1>4. QueuesHold
    BY <1>2, <1>3, QueuesRest DEF Steady, Is
  <1>5. Works(u)
    <2>1. /\ Placed(t) /\ Kept(t, Admitted(u)', Up(u)') /\ Backed(t, Admitted(u)')
          /\ Loses(s, t, Admitted(u))
      BY <1>1, <1>3 DEF Placed, Kept, Backed, Loses, Is, Unqueued
    <2>2. Hosted(u)' /\ MarkedIsFenced(u)'
      BY <1>1, <1>2, <1>3 DEF WorkInv, Hosted, MarkedIsFenced, Is
    <2>3. QED
      BY <1>2, <2>1, <2>2 DEF Works
  <1>6. \A x \in Uploads \ {u} : Works(x)
    BY <1>2, WorksUntouched
  <1>7. QED
    BY <1>4, <1>5, <1>6 DEF WorkStep

LEMMA HandlerWorks ==
  ASSUME WorkInv, NEW u \in Uploads,
         \/ HandlerStep(u) \/ SaveFails(u) \/ CreateAnswerLost(u) \/ EnqueueFails(u) \/ Delete(u)
  PROVE  WorkStep
  <1> DEFINE s == upload[u]
             open == Admitted(u)
             up == Up(u)
  <1>1. /\ s \in UploadState /\ Placed(s) /\ open \in BOOLEAN /\ up \in BOOLEAN
    BY DEF WorkInv, EraseInv, TypeInv, Admitted, Up
  <1>2. running' = running /\ marked' = marked /\ fenced' = fenced
    BY DEF HandlerStep, SaveOpen, SaveEnd, CreateRow, Enqueue, Answer, TurnedAway, SaveFails,
       CreateAnswerLost, EnqueueFails, Delete, OnlyUploads
  <1>3. CASE SaveOpen(u)
    <2> DEFINE t == [s EXCEPT !.handler = "saving", !.file = "live"]
    <2>1. Becomes(u, t) /\ queue' = queue /\ s.handler = "admitted"
      BY <1>3 DEF SaveOpen, OnlyUploads
    <2>2. Is(t, s.at, "saving", "live", s.row, s.job)
      BY <1>1 DEF Is, UploadState
    <2> HIDE DEF t
    <2>3. Worked(s, t, open, up) /\ t.at = s.at /\ Steady(s, t)
      BY <1>1, <2>1, <2>2 DEF Worked, Placed, Kept, Backed, Loses, Is, Unqueued, Steady
    <2>4. QED
      BY <1>2, <2>1, <2>3, OneWorked
  <1>4. CASE SaveEnd(u) \/ Answer(u)
    <2> DEFINE t == [s EXCEPT !.handler = IF s.handler = "saving" THEN "saved" ELSE "answered"]
    <2>1. Becomes(u, t) /\ queue' = queue /\ s.handler \in {"saving", "queued"}
      BY <1>4 DEF SaveEnd, Answer, OnlyUploads
    <2>2. Is(t, s.at, IF s.handler = "saving" THEN "saved" ELSE "answered", s.file, s.row, s.job)
      BY <1>1, Records
    <2> HIDE DEF t
    <2>3. Worked(s, t, open, up) /\ t.at = s.at /\ Steady(s, t)
      BY <1>1, <2>1, <2>2 DEF Worked, Placed, Kept, Backed, Loses, Is, Unqueued, Steady
    <2>4. QED
      BY <1>2, <2>1, <2>3, OneWorked
  <1>5. CASE CreateRow(u)
    <2> DEFINE t == [s EXCEPT !.handler = "created", !.row = "processing"]
    <2>1. Becomes(u, t) /\ queue' = queue /\ s.handler = "saved"
      BY <1>5 DEF CreateRow, OnlyUploads
    <2>2. Is(t, s.at, "created", s.file, "processing", s.job)
      BY <1>1 DEF Is, UploadState
    <2> HIDE DEF t
    <2>3. Worked(s, t, open, up) /\ t.at = s.at /\ Steady(s, t)
      BY <1>1, <2>1, <2>2 DEF Worked, Placed, Kept, Backed, Loses, Is, Unqueued, Steady
    <2>4. QED
      BY <1>2, <2>1, <2>3, OneWorked
  <1>6. CASE Enqueue(u)
    <2> DEFINE t == [s EXCEPT !.handler = "queued", !.job = "queued"]
    <2>1. /\ Becomes(u, t) /\ queue' = [queue EXCEPT ![s.at] = Append(@, u)]
          /\ s.handler = "created"
      BY <1>6 DEF Enqueue
    <2>2. Is(t, s.at, "queued", s.file, s.row, "queued")
      BY <1>1 DEF Is, UploadState
    <2>3. s.at \in Processes /\ s.job = "none"
      BY <1>1, <2>1 DEF Placed, Unqueued
    <2> HIDE DEF t
    <2>4. Worked(s, t, open, up)
      BY <1>1, <2>1, <2>2, <2>3 DEF Worked, Placed, Kept, Backed, Loses, Is, Unqueued, Reading
    <2>5. QueuesHold
      BY <2>1, <2>2, <2>3, PutIn DEF Is
    <2>6. QED
      BY <1>2, <2>1, <2>2, <2>4, <2>5, OneWorks DEF WorkStep, Is
  <1>7. CASE TurnedAway(u) \/ SaveFails(u) \/ CreateAnswerLost(u) \/ EnqueueFails(u)
    <2>1. PICK t \in {Refused(s), Refused(RowGone(s)), [Refused(s) EXCEPT !.row = "processing"]} :
            Becomes(u, t)
      BY <1>7 DEF TurnedAway, SaveFails, CreateAnswerLost, EnqueueFails
    <2>2. queue' = queue /\ s.handler \notin {"answered", "refused"}
      BY <1>7 DEF TurnedAway, SaveFails, CreateAnswerLost, EnqueueFails, OnlyUploads
    <2>3. t.at = s.at /\ t.handler = "refused" /\ t.job = s.job
      <3>1. Is(Refused(RowGone(s)), s.at, "refused", "none", "gone", s.job)
        BY <1>1, Records DEF Is
      <3>2. Is([Refused(s) EXCEPT !.row = "processing"], s.at, "refused", "none", "processing", s.job)
        BY <1>1 DEF Refused, Unlinked, Is, UploadState
      <3>3. Is(Refused(s), s.at, "refused", "none", s.row, s.job)
        BY <1>1, Records
      <3>4. QED
        BY <2>1, <3>1, <3>2, <3>3 DEF Is
    <2>4. Worked(s, t, open, up) /\ Steady(s, t)
      BY <1>1, <2>2, <2>3 DEF Worked, Placed, Kept, Backed, Loses, Unqueued, Steady
    <2>5. QED
      BY <1>2, <2>1, <2>2, <2>3, <2>4, OneWorked
  <1>8. CASE Delete(u)
    <2> DEFINE t == RowGone(s)
    <2>1. Becomes(u, t) /\ queue' = queue
      BY <1>8 DEF Delete, OnlyUploads
    <2>2. Is(t, s.at, s.handler, s.file, "gone", s.job)
      BY <1>1, Records
    <2> HIDE DEF t
    <2>3. Worked(s, t, open, up) /\ t.at = s.at /\ Steady(s, t)
      BY <1>1, <2>2 DEF Worked, Placed, Kept, Backed, Loses, Is, Unqueued, Steady
    <2>4. QED
      BY <1>2, <2>1, <2>3, OneWorked
  <1>9. QED
    BY <1>3, <1>4, <1>5, <1>6, <1>7, <1>8 DEF HandlerStep

LEMMA ReindexSets ==
  ASSUME NEW u \in Uploads, upload[u] \in UploadState, ReindexStep(u)
  PROVE  \E reindex, row :
           /\ Becomes(u, [upload[u] EXCEPT !.reindex = reindex, !.row = row])
           /\ row = upload[u].row \/ row \in {"ready", "failed"}
  <1>1. ASSUME NEW r
        PROVE  [upload[u] EXCEPT !.reindex = r] = [upload[u] EXCEPT !.reindex = r, !.row = upload[u].row]
    BY DEF UploadState
  <1>2. CASE ReindexBegin(u) \/ ReindexFails(u) \/ ReindexDropped(u)
    BY <1>1, <1>2 DEF ReindexBegin, ReindexFails, ReindexDropped
  <1>3. CASE ReindexStore(u) \/ ReindexMark(u)
    BY <1>3 DEF ReindexStore, ReindexMark
  <1>4. QED
    BY <1>2, <1>3 DEF ReindexStep

LEMMA ReindexWorks ==
  ASSUME WorkInv, NEW u \in Uploads, ReindexStep(u)
  PROVE  WorkStep
  <1> DEFINE s == upload[u]
  <1>1. s \in UploadState /\ Placed(s)
    BY DEF WorkInv, EraseInv, TypeInv
  <1>2. OnlyUploads
    BY DEF ReindexStep, ReindexBegin, ReindexFails, ReindexStore, ReindexMark, ReindexDropped
  <1>3. PICK reindex, row :
          /\ Becomes(u, [s EXCEPT !.reindex = reindex, !.row = row])
          /\ row = s.row \/ row \in {"ready", "failed"}
    BY <1>1, ReindexSets
  <1> DEFINE t == [s EXCEPT !.reindex = reindex, !.row = row]
  <1>4. Is(t, s.at, s.handler, s.file, row, s.job)
    BY <1>1, Records
  <1>5. Becomes(u, t)
    BY <1>3
  <1> HIDE DEF t
  <1>6. Worked(s, t, Admitted(u), Up(u)) /\ t.at = s.at /\ Steady(s, t)
    BY <1>1, <1>3, <1>4 DEF Worked, Placed, Kept, Backed, Loses, Is, Unqueued, Steady
  <1>7. QED
    BY <1>2, <1>5, <1>6, OneWorked DEF OnlyUploads

-----------------------------------------------------------------------------
LEMMA EndsWorks ==
  ASSUME WorkInv, NEW p \in Processes, Ends(p), fenced' = fenced
  PROVE  WorkStep
  <1>1. /\ upload \in [Uploads -> UploadState]
        /\ running \in [Processes -> {"down", "starting", "up", "stopping"}]
        /\ marked \in [Processes -> SUBSET Owners]
        /\ NoProcess \notin Processes
    BY ConstantsAssumption DEF WorkInv, EraseInv, TypeInv, OtherTypes
  <1>2. ASSUME NEW u \in Uploads, upload[u].at = p
        PROVE  /\ upload'[u].at = NoProcess /\ upload'[u].job = "none"
               /\ upload'[u].handler \in {"answered", "refused"}
               /\ upload[u].file = "live" => upload'[u].file = "abandoned"
    BY <1>1, <1>2 DEF Ends, Leave, UploadState
  <1>3. \A u \in Uploads : upload[u].at # p => upload'[u] = upload[u]
    BY DEF Ends
  <1>4. QueuesHold
    <2> DEFINE none == << >>
    <2>1. none \in Seq(Uploads) /\ 1 .. Len(none) = {} /\ queue' = [queue EXCEPT ![p] = none]
      BY EmptySeq DEF Ends
    <2> HIDE DEF none
    <2>2. Distinct(none) /\ \A u : ~In(none, u)
      BY <2>1 DEF In, Distinct
    <2>3. \A u \in Uploads : upload'[u].at # p
      BY <1>1, <1>2, <1>3
    <2>4. \A u \in Uploads : OnlyAt(u, p)
      BY <1>2, <1>3 DEF OnlyAt, Steady
    <2>5. QED
      BY <2>1, <2>2, <2>3, <2>4, OneQueue
  <1>5. /\ \A q \in Processes \ {p} : running'[q] = running[q]
        /\ \A q \in Processes : marked'[q] \subseteq marked[q]
    BY <1>1 DEF Ends
  <1>6. ASSUME NEW u \in Uploads
        PROVE  Works(u)
    <2>1. CASE upload[u].at = p
      <3>1. Placed(upload'[u]) /\ Loses(upload[u], upload'[u], Admitted(u))
        BY <1>2, <2>1 DEF Placed, Loses, Unqueued
      <3>2. Kept(upload[u], Admitted(u), Up(u))' /\ Backed(upload[u], Admitted(u))'
        BY <1>1, <1>2, <2>1 DEF Kept, Backed, Up
      <3>3. Hosted(u)' /\ MarkedIsFenced(u)'
        BY <1>1, <1>2, <1>5, <2>1 DEF WorkInv, Hosted, MarkedIsFenced
      <3>4. QED
        BY <3>1, <3>2, <3>3 DEF Works
    <2>2. CASE upload[u].at # p
      BY <1>3, <1>5, <2>2, WorksUntouched
    <2>3. QED
      BY <2>1, <2>2
  <1>7. QED
    BY <1>4, <1>6 DEF WorkStep

LEMMA ProcessWorks ==
  ASSUME WorkInv,
         \/ \E p \in Processes : ProcessStep(p) \/ Crash(p) \/ Stop(p)
         \/ \E o \in Owners : Sweep(o)
  PROVE  WorkStep
  <1>1. /\ upload \in [Uploads -> UploadState]
        /\ running \in [Processes -> {"down", "starting", "up", "stopping"}]
        /\ \A u \in Uploads : Placed(upload[u]) /\ Hosted(u)
    BY DEF WorkInv, EraseInv, TypeInv, OtherTypes
  <1>2. ASSUME NEW p \in Processes, NEW u \in Uploads, Take(u, p)
        PROVE  WorkStep
    BY <1>2, TakeWorks
  <1>3. ASSUME NEW p \in Processes, Exit(p) \/ Crash(p)
        PROVE  WorkStep
    BY <1>3, EndsWorks DEF Exit, Crash
  <1>4. ASSUME NEW p \in Processes, Start(p) \/ Started(p)
        PROVE  WorkStep
    <2>1. /\ upload' = upload /\ queue' = queue /\ marked' = marked /\ fenced' = fenced
          /\ running[p] \in {"down", "starting"}
          /\ \A q \in Processes \ {p} : running'[q] = running[q]
      BY <1>1, <1>4 DEF Start, Started
    <2>2. QueuesHold
      BY <2>1, QueuesRest DEF Steady
    <2>3. ASSUME NEW u \in Uploads
          PROVE  Works(u)
      <3>1. upload[u].at # p
        BY <1>1, <2>1 DEF Hosted
      <3>2. QED
        BY <2>1, <3>1, WorksUntouched
    <2>4. QED
      BY <2>2, <2>3 DEF WorkStep
  <1>5. ASSUME NEW p \in Processes, Stop(p)
        PROVE  WorkStep
    <2>1. /\ queue' = queue /\ marked' = marked /\ fenced' = fenced
          /\ running' = [running EXCEPT ![p] = "stopping"]
          /\ \A u \in Uploads : upload'[u] = IF upload[u].at = p /\ upload[u].job = "delayed"
                                            THEN [upload[u] EXCEPT !.job = "none"] ELSE upload[u]
      BY <1>5 DEF Stop
    <2>2. ASSUME NEW u \in Uploads, upload[u].at = p, upload[u].job = "delayed"
          PROVE  Is(upload'[u], p, upload[u].handler, upload[u].file, upload[u].row, "none")
      BY <1>1, <2>1, <2>2, Records
    <2>3. QueuesHold
      BY <2>1, <2>2, QueuesRest DEF Steady, Is
    <2>4. ASSUME NEW u \in Uploads
          PROVE  Works(u)
      <3>1. CASE upload[u].at = p /\ upload[u].job = "delayed"
        <4>1. upload'[u].at = p /\ running'[p] = "stopping"
          BY <1>1, <2>1, <2>2, <3>1 DEF Is
        <4>2. Placed(upload'[u]) /\ Loses(upload[u], upload'[u], Admitted(u))
          BY <1>1, <2>2, <3>1 DEF Placed, Loses, Is
        <4>3. Hosted(u)' /\ MarkedIsFenced(u)' /\ ~Up(u)'
          BY <2>1, <4>1 DEF WorkInv, Hosted, MarkedIsFenced, Up
        <4>4. upload[u].handler \notin Unqueued
          BY <1>1, <3>1 DEF Placed
        <4>5. Kept(upload[u], Admitted(u), Up(u))' /\ Backed(upload[u], Admitted(u))'
          BY <2>2, <3>1, <4>3, <4>4 DEF Kept, Backed, Is, Unqueued
        <4>6. QED
          BY <4>2, <4>3, <4>5 DEF Works
      <3>2. CASE ~(upload[u].at = p /\ upload[u].job = "delayed")
        BY <1>1, <2>1, <3>2, WorksUntouched
      <3>3. QED
        BY <3>1, <3>2
    <2>5. QED
      BY <2>3, <2>4 DEF WorkStep
  <1>6. ASSUME NEW o \in Owners, Sweep(o)
        PROVE  WorkStep
    <2>1. /\ queue' = queue /\ marked' = marked /\ fenced' = fenced /\ running' = running
          /\ \A u \in Uploads :
               \/ upload'[u] = upload[u]
               \/ upload[u].file = "abandoned" /\ upload'[u] = Unlinked(upload[u])
      BY <1>6 DEF Sweep
    <2>2. ASSUME NEW u \in Uploads, upload[u].file = "abandoned", upload'[u] = Unlinked(upload[u])
          PROVE  /\ Steady(upload[u], upload'[u]) /\ upload'[u].at = upload[u].at
                 /\ Worked(upload[u], upload'[u], Admitted(u), Up(u))
      <3>1. Is(upload'[u], upload[u].at, upload[u].handler, "none", upload[u].row, upload[u].job)
        BY <1>1, <2>2, Records
      <3>2. QED
        BY <1>1, <2>2, <3>1 DEF Is, Steady, Worked, Placed, Loses, Kept, Backed
    <2>3. QueuesHold
      BY <2>1, <2>2, QueuesRest DEF Steady
    <2>4. ASSUME NEW u \in Uploads
          PROVE  Works(u)
      BY <2>1, <2>2, StaysAt, WorksUntouched
    <2>5. QED
      BY <2>3, <2>4 DEF WorkStep
  <1>7. QED
    BY <1>2, <1>3, <1>4, <1>5, <1>6 DEF ProcessStep

LEMMA DrainWorks ==
  ASSUME WorkInv, NEW o \in Owners, NEW p \in Processes, EraseDrain(o, p)
  PROVE  WorkStep
  <1> DEFINE Drained(u) == OwnerOf[u] = o /\ upload[u].at = p /\ upload[u].job \in {"queued", "delayed"}
  <1>1. /\ upload \in [Uploads -> UploadState] /\ queue \in [Processes -> Seq(Uploads)]
        /\ \A q \in Processes : Holds(queue[q], q)
        /\ marked \in [Processes -> SUBSET Owners]
        /\ \A u \in Uploads : Quiet(u) /\ Placed(upload[u])
    BY DEF WorkInv, EraseInv, TypeInv, OtherTypes
  <1>2. /\ erasing[o][p] = "fenced" /\ fenced' = fenced /\ running' = running
        /\ marked' = [marked EXCEPT ![p] = @ \cup {o}]
        /\ queue' = [queue EXCEPT ![p] = PutBack(@, o)]
        /\ \A u \in Uploads : upload'[u] = IF Drained(u) THEN JobDone(upload[u]) ELSE upload[u]
    BY DEF EraseDrain, Moves
  <1>3. \A u \in Uploads : OwnerOf[u] = o => o \in fenced
    BY <1>1, <1>2 DEF Quiet
  <1>4. ASSUME NEW u \in Uploads, Drained(u)
        PROVE  Is(upload'[u], p, upload[u].handler, "none", upload[u].row, "none")
    BY <1>1, <1>2, <1>4, Records
  <1>5. QueuesHold
    <2> DEFINE jobs == queue[p]
               others == PutBack(jobs, o)
    <2>1. jobs \in Seq(Uploads) /\ Distinct(jobs)
          /\ \A u \in Uploads : In(jobs, u) <=> upload[u].job = "queued" /\ upload[u].at = p
      BY <1>1 DEF Holds
    <2>2. /\ others \in Seq(Uploads) /\ Distinct(others)
          /\ \A u : In(others, u) <=> In(jobs, u) /\ OwnerOf[u] # o
      BY <2>1, PutBackHolds
    <2>3. queue' = [queue EXCEPT ![p] = others]
      BY <1>1, <1>2
    <2> HIDE DEF others
    <2>4. \A u \in Uploads : In(others, u) <=> upload'[u].job = "queued" /\ upload'[u].at = p
      BY <1>2, <1>4, <2>1, <2>2 DEF Is
    <2>5. \A u \in Uploads : OnlyAt(u, p)
      BY <1>2, <1>4 DEF OnlyAt, Steady, Is
    <2>6. QED
      BY <2>2, <2>3, <2>4, <2>5, OneQueue
  <1>6. ASSUME NEW u \in Uploads
        PROVE  Works(u)
    <2>1. \A q \in Processes : OwnerOf[u] \in marked'[q] => OwnerOf[u] \in marked[q] \cup fenced
      BY <1>1, <1>2, <1>3
    <2>2. CASE Drained(u)
      <3> DEFINE s == upload[u]
                 t == upload'[u]
                 open == Admitted(u)
                 up == Up(u)
      <3>1. /\ Is(t, s.at, s.handler, "none", s.row, "none") /\ Placed(s) /\ s.job # "none"
            /\ ~open /\ open \in BOOLEAN /\ up \in BOOLEAN
        BY <1>1, <1>3, <1>4, <2>2 DEF Admitted, Up
      <3> HIDE DEF s, t, open, up
      <3>2. Worked(s, t, open, up)
        BY <3>1, IsDone
      <3>3. t.at = s.at
        BY <3>1 DEF Is
      <3>4. QED
        BY <1>2, <2>1, <3>2, <3>3, StaysAt DEF s, t, open, up
    <2>3. CASE ~Drained(u)
      BY <1>2, <2>1, <2>3, WorksUntouched
    <2>4. QED
      BY <2>2, <2>3
  <1>7. QED
    BY <1>5, <1>6 DEF WorkStep

LEMMA EraseWorks ==
  ASSUME WorkInv,
         \E o \in Owners :
           Withdraw(o) \/ EraseStep(o) \/ \E p \in Processes : EraseAborts(o, p)
  PROVE  WorkStep
  <1>1. /\ upload \in [Uploads -> UploadState]
        /\ \A u \in Uploads : Quiet(u) /\ Placed(upload[u]) /\ LockedOut(u)
    BY DEF WorkInv, EraseInv, TypeInv
  <1>2. ASSUME NEW o \in Owners, NEW p \in Processes, EraseDrain(o, p)
        PROVE  WorkStep
    BY <1>2, DrainWorks
  <1>3. ASSUME NEW o \in Owners, NEW p \in Processes, EraseFiles(o, p)
        PROVE  WorkStep
    <2>1. /\ queue' = queue /\ marked' = marked /\ fenced' = fenced /\ running' = running
          /\ \A u \in Uploads :
               upload'[u] = IF OwnerOf[u] = o THEN Unlinked(upload[u]) ELSE upload[u]
          /\ erasing[o][p] = "locked"
      BY <1>3 DEF EraseFiles, Moves
    <2>2. ASSUME NEW u \in Uploads, OwnerOf[u] = o
          PROVE  /\ Steady(upload[u], upload'[u]) /\ upload'[u].at = upload[u].at
                 /\ Worked(upload[u], upload'[u], Admitted(u), Up(u))
      <3>1. Is(upload'[u], upload[u].at, upload[u].handler, "none", upload[u].row, upload[u].job)
        BY <1>1, <2>1, <2>2, Records
      <3>2. ~Admitted(u) /\ upload[u].job \notin Reading
        BY <1>1, <2>1, <2>2 DEF Quiet, Admitted, LockedOut, LockedExclusive
      <3>3. QED
        BY <1>1, <3>1, <3>2 DEF Is, Steady, Worked, Placed, Loses, Kept, Backed
    <2>3. QueuesHold
      BY <2>1, <2>2, QueuesRest DEF Steady
    <2>4. ASSUME NEW u \in Uploads
          PROVE  Works(u)
      BY <2>1, <2>2, StaysAt, WorksUntouched
    <2>5. QED
      BY <2>3, <2>4 DEF WorkStep
  <1>4. ASSUME NEW o \in Owners, NEW p \in Processes, EraseRows(o, p)
        PROVE  WorkStep
    <2>1. /\ queue' = queue /\ marked' = marked /\ fenced \subseteq fenced' /\ running' = running
          /\ \A u \in Uploads :
               upload'[u] = IF OwnerOf[u] = o /\ HasRow(u) THEN RowGone(upload[u]) ELSE upload[u]
      BY <1>4 DEF EraseRows
    <2>2. ASSUME NEW u \in Uploads, upload'[u] = RowGone(upload[u])
          PROVE  /\ Steady(upload[u], upload'[u]) /\ upload'[u].at = upload[u].at
                 /\ Worked(upload[u], upload'[u], Admitted(u), Up(u))
      <3>1. Is(upload'[u], upload[u].at, upload[u].handler, upload[u].file, "gone", upload[u].job)
        BY <1>1, <2>2, Records
      <3>2. QED
        BY <1>1, <3>1 DEF Is, Steady, Worked, Placed, Loses, Kept, Backed
    <2>3. QueuesHold
      BY <2>1, <2>2, QueuesRest DEF Steady
    <2>4. ASSUME NEW u \in Uploads
          PROVE  Works(u)
      BY <2>1, <2>2, StaysAt, WorksUntouched
    <2>5. QED
      BY <2>3, <2>4 DEF WorkStep
  <1>5. ASSUME NEW o \in Owners,
               \/ Withdraw(o)
               \/ \E p \in Processes : EraseFence(o, p) \/ EraseLock(o, p) \/ EraseAborts(o, p)
        PROVE  WorkStep
    <2>1. /\ upload' = upload /\ queue' = queue /\ marked' = marked /\ running' = running
          /\ fenced \subseteq fenced'
      BY <1>5 DEF Withdraw, EraseFence, EraseLock, EraseAborts
    <2>2. QueuesHold
      BY <2>1, QueuesRest DEF Steady
    <2>3. \A u \in Uploads : Works(u)
      BY <2>1, WorksUntouched
    <2>4. QED
      BY <2>2, <2>3 DEF WorkStep
  <1>6. QED
    BY <1>2, <1>3, <1>4, <1>5 DEF EraseStep

LEMMA WorkSteps ==
  ASSUME WorkInv, Next
  PROVE  WorkStep
  <1>1. CASE Fault
    BY <1>1, JobWorks, RequeueWorks, HandlerWorks, ProcessWorks, EraseWorks DEF Fault
  <1>2. CASE ~Fault
    BY <1>2, JobWorks, RequeueWorks, SaveBeginWorks, HandlerWorks, ReindexWorks, ProcessWorks,
       EraseWorks DEF Next, JobStep
  <1>3. QED
    BY <1>1, <1>2

LEMMA OtherTypesStep ==
  ASSUME WorkInv, Next
  PROVE  OtherTypes'
  <1>1. OtherTypes
    BY DEF WorkInv
  <1>2. ASSUME NEW u \in Uploads,
               \/ \E p \in Processes : SaveBegin(u, p)
               \/ HandlerStep(u) \/ ReindexStep(u) \/ Delete(u)
               \/ SaveFails(u) \/ CreateAnswerLost(u) \/ EnqueueFails(u)
        PROVE  OtherTypes'
    BY <1>1, <1>2 DEF HandlerStep, ReindexStep, SaveBegin, SaveOpen, SaveEnd, CreateRow, Enqueue,
       Answer, TurnedAway, SaveFails, CreateAnswerLost, EnqueueFails, Delete, ReindexBegin,
       ReindexFails, ReindexStore, ReindexMark, ReindexDropped, OnlyUploads, OtherTypes
  <1>3. ASSUME NEW u \in Uploads, JobStep(u) \/ CipherFails(u) \/ RequeueFails(u)
        PROVE  OtherTypes'
    BY <1>1, <1>3 DEF JobStep, JobBegins, JobTurnedAway, JobWithdrawn, JobPrepared, JobFails, Store,
       StoreFails, MarkFailed, MarkFails, MarkUnavailable, Requeue, CipherFails, RequeueFails,
       JobEnds, OnlyUploads, OtherTypes
  <1>4. ASSUME NEW p \in Processes, ProcessStep(p) \/ Crash(p) \/ Stop(p)
        PROVE  OtherTypes'
    BY <1>1, <1>4 DEF ProcessStep, Take, Exit, Start, Started, Crash, Stop, Ends, OtherTypes
  <1>5. ASSUME NEW o \in Owners,
               \/ Withdraw(o) \/ Sweep(o) \/ EraseStep(o)
               \/ \E p \in Processes : EraseAborts(o, p)
        PROVE  OtherTypes'
    BY <1>1, <1>5 DEF Withdraw, Sweep, EraseStep, EraseFence, EraseDrain, EraseLock, EraseFiles,
       EraseRows, EraseAborts, OtherTypes
  <1>6. QED
    BY <1>2, <1>3, <1>4, <1>5 DEF Next, Fault, JobStep

(* Who begins to read finds the owner's lock free of erasures               *)
Reads(s, t, free) == t.job \in Reading => s.job \in Reading \/ free

LEMMA ReadSteps ==
  ASSUME WorkInv, Next, NEW u \in Uploads
  PROVE  Reads(upload[u], upload'[u], ~LockedExclusive(OwnerOf[u]))
  <1> DEFINE Ok(x) == Reads(upload[x], upload'[x], ~LockedExclusive(OwnerOf[x]))
  <1>1. upload \in [Uploads -> UploadState]
    BY DEF WorkInv, EraseInv, TypeInv
  <1>2. ASSUME NEW x \in Uploads, NEW t, Becomes(x, t),
               t.job \in Reading => upload[x].job \in Reading \/ ~LockedExclusive(OwnerOf[x])
        PROVE  Ok(u)
    BY <1>1, <1>2 DEF Becomes, Reads
  <1>3. ASSUME NEW x \in Uploads,
               \/ \E p \in Processes : SaveBegin(x, p) \/ Take(x, p)
               \/ HandlerStep(x) \/ ReindexStep(x) \/ Delete(x)
               \/ SaveFails(x) \/ CreateAnswerLost(x) \/ EnqueueFails(x)
        PROVE  Ok(u)
    <2>1. upload'[x].job \in {upload[x].job, "queued", "locking"} /\ \E t : Becomes(x, t)
      <3>1. CASE \/ \E p \in Processes : SaveBegin(x, p) \/ Take(x, p)
                 \/ SaveOpen(x) \/ SaveEnd(x) \/ CreateRow(x) \/ Enqueue(x) \/ Answer(x)
        <4> DEFINE s == upload[x]
                   Goal == upload'[x].job \in {s.job, "queued", "locking"} /\ \E t : Becomes(x, t)
        <4>1. s \in UploadState
          BY <1>1
        <4>2. ASSUME NEW t, Becomes(x, t), t.job \in {s.job, "queued", "locking"}
              PROVE  Goal
          BY <1>1, <4>2 DEF Becomes
        <4>3. ASSUME NEW p \in Processes, SaveBegin(x, p) \/ Take(x, p)
              PROVE  Goal
          <5>1. /\ [s EXCEPT !.handler = "admitted", !.at = p].job = s.job
                /\ [s EXCEPT !.job = "locking"].job = "locking"
            BY <4>1 DEF UploadState
          <5> HIDE DEF Goal
          <5>2. QED
            BY <4>2, <4>3, <5>1 DEF SaveBegin, Take
        <4>4. ASSUME SaveOpen(x) \/ SaveEnd(x) \/ CreateRow(x) \/ Enqueue(x) \/ Answer(x)
              PROVE  Goal
          <5>1. PICK t \in {[s EXCEPT !.handler = "saving", !.file = "live"],
                            [s EXCEPT !.handler = "saved"], [s EXCEPT !.handler = "answered"],
                            [s EXCEPT !.handler = "created", !.row = "processing"],
                            [s EXCEPT !.handler = "queued", !.job = "queued"]} : Becomes(x, t)
            BY <4>4 DEF SaveOpen, SaveEnd, CreateRow, Enqueue, Answer
          <5>2. t.job \in {s.job, "queued"}
            BY <4>1, <5>1 DEF UploadState
          <5> HIDE DEF Goal
          <5>3. QED
            BY <4>2, <5>1, <5>2
        <4> HIDE DEF Goal
        <4>5. Goal
          BY <3>1, <4>3, <4>4
        <4>6. QED
          BY <4>5 DEF Goal
      <3>2. CASE TurnedAway(x) \/ SaveFails(x) \/ CreateAnswerLost(x) \/ EnqueueFails(x) \/ Delete(x)
        <4>1. PICK t \in {Refused(upload[x]), Refused(RowGone(upload[x])), RowGone(upload[x]),
                          [Refused(upload[x]) EXCEPT !.row = "processing"]} : Becomes(x, t)
          BY <3>2 DEF TurnedAway, SaveFails, CreateAnswerLost, EnqueueFails, Delete
        <4>2. \A s \in UploadState :
                /\ Refused(s).job = s.job /\ RowGone(s).job = s.job
                /\ Refused(RowGone(s)).job = s.job
                /\ [Refused(s) EXCEPT !.row = "processing"].job = s.job
          BY DEF Refused, Unlinked, RowGone, UploadState
        <4>3. QED
          BY <1>1, <4>1, <4>2 DEF Becomes
      <3>3. CASE ReindexStep(x)
        <4>1. PICK reindex, row : Becomes(x, [upload[x] EXCEPT !.reindex = reindex, !.row = row])
          BY <1>1, <3>3, ReindexSets
        <4>2. Is([upload[x] EXCEPT !.reindex = reindex, !.row = row], upload[x].at,
                 upload[x].handler, upload[x].file, row, upload[x].job)
          BY <1>1, Records
        <4>3. QED
          BY <1>1, <4>1, <4>2 DEF Becomes, Is
      <3>4. QED
        BY <1>3, <3>1, <3>2, <3>3 DEF HandlerStep
    <2>2. QED
      BY <1>1, <1>2, <2>1 DEF Becomes, Reading
  <1>4. ASSUME NEW x \in Uploads, JobStep(x) \/ CipherFails(x) \/ RequeueFails(x)
        PROVE  Ok(u)
    <2>1. CASE upload[x].job \in Reading
      <3>1. PICK t : Becomes(x, t)
        BY <1>4 DEF JobStep, JobBegins, JobTurnedAway, JobWithdrawn, JobPrepared, JobFails, Store,
           StoreFails, MarkFailed, MarkFails, MarkUnavailable, Requeue, CipherFails, RequeueFails,
           JobEnds
      <3>2. QED
        BY <1>2, <2>1, <3>1
    <2>2. CASE JobBegins(x)
      BY <1>2, <2>2 DEF JobBegins
    <2>3. CASE upload[x].job \notin Reading /\ ~JobBegins(x)
      <3>1. PICK t \in {JobDone(upload[x]), [upload[x] EXCEPT !.job = "none"],
                        [upload[x] EXCEPT !.job = "queued"]} : Becomes(x, t)
        BY <1>4, <2>3 DEF JobStep, JobTurnedAway, JobWithdrawn, JobPrepared, JobFails, Store,
           StoreFails, MarkFailed, MarkFails, MarkUnavailable, Requeue, CipherFails, RequeueFails,
           JobEnds, Reading
      <3>2. \A s \in UploadState :
              /\ JobDone(s).job = "none" /\ [s EXCEPT !.job = "none"].job = "none"
              /\ [s EXCEPT !.job = "queued"].job = "queued"
        BY Records DEF Is
      <3>3. QED
        BY <1>1, <1>2, <3>1, <3>2 DEF Reading
    <2>4. QED
      BY <2>1, <2>2, <2>3
  <1>5. CASE upload'[u].job \in {upload[u].job, "none"}
    BY <1>5 DEF Reads, Reading
  <1>6. ASSUME NEW p \in Processes, Exit(p) \/ Start(p) \/ Started(p) \/ Crash(p) \/ Stop(p)
        PROVE  Ok(u)
    <2>1. \/ upload' = upload
          \/ upload'[u] \in {upload[u], Leave(upload[u]), [upload[u] EXCEPT !.job = "none"]}
      BY <1>6 DEF Exit, Start, Started, Crash, Stop, Ends
    <2>2. QED
      BY <1>1, <1>5, <2>1 DEF Leave, UploadState
  <1>7. ASSUME NEW o \in Owners,
               \/ Withdraw(o) \/ Sweep(o) \/ EraseStep(o)
               \/ \E p \in Processes : EraseAborts(o, p)
        PROVE  Ok(u)
    <2>1. \/ upload' = upload
          \/ upload'[u] \in {upload[u], Unlinked(upload[u]), JobDone(upload[u]), RowGone(upload[u])}
      BY <1>7 DEF Withdraw, Sweep, EraseStep, EraseFence, EraseDrain, EraseLock, EraseFiles,
         EraseRows, EraseAborts
    <2>2. QED
      BY <1>1, <1>5, <2>1, Records DEF Is
  <1>8. CASE Fault
    BY <1>3, <1>4, <1>6, <1>7, <1>8 DEF Fault, JobStep
  <1>9. CASE ~Fault
    BY <1>3, <1>4, <1>6, <1>7, <1>9 DEF Next, ProcessStep
  <1>10. QED
    BY <1>8, <1>9

(* No erasure holds the lock of an owner beside a job that reads            *)
LEMMA LockedOutStep ==
  ASSUME WorkInv, Next, NEW u \in Uploads
  PROVE  LockedOut(u)'
  <1> DEFINE o == OwnerOf[u]
  <1>1. o \in Owners /\ LockedOut(u) /\ TypeInv
    BY ConstantsAssumption DEF WorkInv, EraseInv
  <1>2. ASSUME NEW p \in Processes, erasing'[o][p] = "locked", upload'[u].job \in Reading
        PROVE  FALSE
    <2>1. erasing[o][p] = "locked" \/ EraseLock(o, p)
      BY <1>1, <1>2, ControlSteps DEF Control, EraseControl
    <2>2. CASE erasing[o][p] = "locked"
      BY <1>1, <1>2, <2>2, ReadSteps DEF Reads, LockedOut, LockedExclusive
    <2>3. CASE EraseLock(o, p)
      BY <1>2, <2>3 DEF EraseLock, LockedShared
    <2>4. QED
      BY <2>1, <2>2, <2>3
  <1>3. QED
    BY <1>2 DEF LockedOut, LockedExclusive

LEMMA WorkInvInit == Init => WorkInv
  <1> SUFFICES ASSUME Init
               PROVE  WorkInv
    OBVIOUS
  <1>1. << >> \in Seq(Uploads) /\ 1 .. Len(<< >>) = {}
    BY EmptySeq
  <1>2. OtherTypes /\ queue \in [Processes -> Seq(Uploads)]
    BY <1>1 DEF Init, OtherTypes
  <1>3. \A u \in Uploads : upload[u].job = "none" /\ upload[u].handler = "new" /\ upload[u].at = NoProcess
    BY DEF Init, NewUpload
  <1>4. \A p \in Processes : Holds(queue[p], p)
    BY <1>1, <1>3 DEF Init, Holds, In, Distinct
  <1>5. \A u \in Uploads : Placed(upload[u]) /\ Hosted(u) /\ MarkedIsFenced(u) /\ LockedOut(u)
    BY <1>3, ConstantsAssumption DEF Init, Placed, Hosted, MarkedIsFenced, LockedOut, Unqueued, Reading
  <1>6. QED
    BY <1>2, <1>4, <1>5, EraseInvInit DEF WorkInv

LEMMA WorkInvStep == WorkInv /\ [Next]_vars => WorkInv'
  <1> SUFFICES ASSUME WorkInv, [Next]_vars
               PROVE  WorkInv'
    OBVIOUS
  <1>1. EraseInv'
    BY EraseInvStep DEF WorkInv
  <1>2. CASE UNCHANGED vars
    BY <1>1, <1>2 DEF vars, WorkInv, OtherTypes, Holds, Hosted, MarkedIsFenced,
       LockedOut, LockedExclusive
  <1>3. CASE Next
    BY <1>1, <1>3, WorkSteps, OtherTypesStep, LockedOutStep DEF WorkInv, WorkStep, QueuesHold, Works
  <1>4. QED
    BY <1>2, <1>3

THEOREM WorkInvHolds == Spec => []WorkInv
  BY WorkInvInit, WorkInvStep, PTL DEF Spec

(* Every variable keeps its type, and a queue holds exactly the uploads     *)
(* that are queued at its process, whatever is enqueued, taken, retried,    *)
(* drained or lost with a process.                                          *)
THEOREM TypeCorrect == Spec => []TypeOK
  <1>1. WorkInv => TypeOK
    BY DEF WorkInv, EraseInv, TypeInv, OtherTypes, Holds, In, TypeOK
  <1>2. QED
    BY <1>1, WorkInvHolds, PTL

(* The original of an accepted upload, of an owner who is not being erased, *)
(* is removed by the job that ingests it, as its last act, whatever         *)
(* fails: no retry, no drain, no start of another process loses it.         *)
THEOREM OriginalGoesWithItsJobHolds == Spec => OriginalGoesWithItsJob
  <1> DEFINE Gone == \A u \in Uploads :
       upload[u].file = "live" /\ upload'[u].file = "none" /\ Admitted(u) =>
         \/ upload[u].handler \notin {"answered", "refused"}
         \/ upload[u].job \in Reading \cup {"locking"} /\ upload'[u].job = "none"
  <1>1. WorkInv /\ [Next]_vars => [Gone]_vars
    BY WorkSteps DEF WorkStep, Works, Loses
  <1>2. QED
    BY <1>1, WorkInvHolds, PTL DEF Spec, OriginalGoesWithItsJob

BackInv == \A u \in Uploads : Backed(upload[u], Admitted(u))

(* A job whose upload was not refused has its original as long as the owner *)
(* is admitted, whatever fails; and a job that has begun to read it, under  *)
(* the owner's lock, keeps it to its end, also when an erasure or the start *)
(* of another process comes in between.                                     *)
JobHasItsOriginal ==
  \A u \in Uploads :
    /\ upload[u].handler # "refused" /\ upload[u].job # "none"
    /\ Admitted(u) \/ upload[u].job \in Reading
    => upload[u].file = "live"

LEMMA BackInvHolds == Spec => []BackInv
  <1>1. Init => BackInv
    BY DEF Init, NewUpload, BackInv, Backed
  <1>2. WorkInv /\ BackInv /\ [Next]_vars => BackInv'
    <2>1. ASSUME WorkInv, BackInv, Next
          PROVE  BackInv'
      BY <2>1, WorkSteps DEF BackInv, WorkStep, Works
    <2>2. ASSUME BackInv, UNCHANGED vars
          PROVE  BackInv'
      BY <2>2 DEF vars, BackInv, Backed, Admitted
    <2>3. QED
      BY <2>1, <2>2
  <1>3. QED
    BY <1>1, <1>2, WorkInvHolds, PTL DEF Spec

(* No job loses the original it is to read: not to an erasure, a cleanup, a *)
(* drain or a failure, for every set of faults.                             *)
THEOREM JobHasItsOriginalHolds == Spec => []JobHasItsOriginal
  <1>1. BackInv => JobHasItsOriginal
    BY DEF BackInv, Backed, JobHasItsOriginal
  <1>2. QED
    BY <1>1, BackInvHolds, PTL

-----------------------------------------------------------------------------
(* While the database answers                                               *)
RetainInv == \A u \in Uploads : Kept(upload[u], Admitted(u), Up(u))

LEMMA RetainInvInit == Init => RetainInv
  BY DEF Init, NewUpload, RetainInv, Kept

LEMMA RetainInvStep ==
  ASSUME "database" \notin Faults
  PROVE  WorkInv /\ RetainInv /\ [Next]_vars => RetainInv'
  <1>1. ASSUME WorkInv, RetainInv, Next
        PROVE  RetainInv'
    BY <1>1, WorkSteps DEF RetainInv, WorkStep, Works
  <1>2. ASSUME RetainInv, UNCHANGED vars
        PROVE  RetainInv'
    BY <1>2 DEF vars, RetainInv, Kept, Admitted, Up
  <1>3. QED
    BY <1>1, <1>2

(* Unless the database fails, an upload in its process that has an original *)
(* or a processing document has a job.                                      *)
THEOREM RetainInvHolds ==
  ASSUME "database" \notin Faults
  PROVE  Spec => []RetainInv
  BY RetainInvInit, RetainInvStep, WorkInvHolds, PTL DEF Spec

(* With encryption failing and processes stopping or crashing, but not the  *)
(* database, an accepted document that is processing has a job.             *)
THEOREM ProcessingHasJobHolds ==
  ASSUME "database" \notin Faults
  PROVE  Spec => []ProcessingHasJob
  <1>1. WorkInv /\ RetainInv => ProcessingHasJob
    BY DEF WorkInv, EraseInv, TypeInv, UploadState, RetainInv, Kept, ProcessingHasJob, Up, Serving
  <1>2. QED
    BY <1>1, WorkInvHolds, RetainInvHolds, PTL

(* With encryption failing and processes stopping or crashing, but not the  *)
(* database, an original that is kept is retried and every retry has one.   *)
THEOREM RetainedIsRetriedHolds ==
  ASSUME "database" \notin Faults
  PROVE  Spec => []RetainedIsRetried
  <1>1. WorkInv /\ BackInv /\ RetainInv => RetainedIsRetried
    BY DEF WorkInv, EraseInv, TypeInv, UploadState, BackInv, Backed, RetainInv, Kept,
       RetainedIsRetried, Up, Serving
  <1>2. QED
    BY <1>1, WorkInvHolds, BackInvHolds, RetainInvHolds, PTL
============================================================================
