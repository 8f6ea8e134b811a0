--------------------------- MODULE JiraSyncProofs ---------------------------
(***************************************************************************)
(* Proofs about JiraSync, for any projects, edits, failures and overlaps.  *)
(***************************************************************************)
EXTENDS JiraSync, FiniteSetTheorems, TLAPS

-----------------------------------------------------------------------------
(* What the helpers make of a run. *)

\* n is q without project p.
Without(n, q, p) ==
  /\ DOMAIN n.snap = DOMAIN q.snap \ {p}
  /\ \A x \in DOMAIN n.snap : n.snap[x] = q.snap[x]

LEMMA IdleRun ==
  /\ IsRun(Idle) /\ Idle.at = "idle" /\ Idle.start = 0 /\ DOMAIN Idle.snap = {}
  /\ DOMAIN Idle.keys = {} /\ ~Idle.errors /\ Idle.cur = None
BY DEF Idle, IsRun, Phases

LEMMA RestRun ==
  ASSUME NEW q, IsRun(q)
  PROVE  /\ IsRun(Rest(q)) /\ Without(Rest(q), q, q.cur)
         /\ Rest(q).at = "work" /\ Rest(q).cur = None
         /\ Rest(q).start = q.start /\ Rest(q).keys = q.keys
         /\ Rest(q).errors = q.errors
BY DEF Rest, IsRun, Phases, Without

LEMMA ErrorRun ==
  ASSUME NEW q, IsRun(q)
  PROVE  /\ IsRun(Error(q)) /\ Without(Error(q), q, q.cur)
         /\ Error(q).at = "work" /\ Error(q).cur = None
         /\ Error(q).start = q.start /\ Error(q).keys = q.keys
         /\ Error(q).errors
<1> DEFINE n == Rest(q)
<1>1. IsRun(n)
  BY RestRun
<1>2. Error(q) = [n EXCEPT !.errors = TRUE]
  BY DEF Error
<1>3. Without(n, q, q.cur) /\ n.at = "work" /\ n.cur = None /\ n.start = q.start
      /\ n.keys = q.keys
  BY RestRun
<1> HIDE DEF n
<1> QED
  BY <1>1, <1>2, <1>3 DEF IsRun, Without

LEMMA DoneRun ==
  ASSUME NEW q, IsRun(q), q.cur \in Projects
  PROVE  /\ IsRun(Done(q)) /\ Without(Done(q), q, q.cur)
         /\ Done(q).at = "work" /\ Done(q).cur = None
         /\ Done(q).start = q.start /\ Done(q).errors = q.errors
         /\ q.cur \in Children => Done(q).keys = q.keys
         /\ q.cur \in Parents =>
              /\ DOMAIN Done(q).keys = DOMAIN q.keys \union {q.cur}
              /\ Done(q).keys[q.cur] = q.target
              /\ \A p \in DOMAIN q.keys \ {q.cur} : Done(q).keys[p] = q.keys[p]
<1> DEFINE n == Rest(q)
           k == IF q.cur \in Children THEN q.keys
                ELSE [p \in DOMAIN q.keys \union {q.cur} |->
                        IF p = q.cur THEN q.target ELSE q.keys[p]]
<1>1. IsRun(n)
  BY RestRun
<1>2. Done(q) = [n EXCEPT !.keys = k]
  BY DEF Done
<1>3. /\ Without(n, q, q.cur) /\ n.at = "work" /\ n.cur = None
      /\ n.start = q.start /\ n.errors = q.errors
  BY RestRun
<1>4. DOMAIN k \subseteq Parents /\ k \in [DOMAIN k -> Nat]
  BY DEF IsRun, Children
<1>5. /\ q.cur \in Children => k = q.keys
      /\ q.cur \in Parents =>
           /\ DOMAIN k = DOMAIN q.keys \union {q.cur} /\ k[q.cur] = q.target
           /\ \A p \in DOMAIN q.keys \ {q.cur} : k[p] = q.keys[p]
  BY DEF Children
<1> HIDE DEF n, k
<1>6. IsRun(Done(q)) /\ Done(q).keys = k
  BY <1>1, <1>2, <1>4 DEF IsRun
<1>7. /\ Done(q).snap = n.snap /\ Done(q).at = n.at /\ Done(q).cur = n.cur
      /\ Done(q).start = n.start /\ Done(q).errors = n.errors
  BY <1>1, <1>2 DEF IsRun
<1> QED
  BY <1>3, <1>5, <1>6, <1>7 DEF Without

\* A run that turns to what it does next for p.
LEMMA TurnRun ==
  ASSUME NEW q, IsRun(q), NEW at \in Phases, NEW p \in Projects,
         NEW target \in Nat, NEW space \in Nat, NEW n,
         n = [q EXCEPT !.at = at, !.cur = p, !.target = target, !.space = space]
  PROVE  /\ IsRun(n) /\ n.at = at /\ n.cur = p /\ n.target = target
         /\ n.space = space /\ n.start = q.start /\ n.keys = q.keys
         /\ n.snap = q.snap /\ n.errors = q.errors
BY DEF IsRun

LEMMA SnapshotType ==
  ASSUME TypeOK, NEW S \in SUBSET Projects
  PROVE  /\ DOMAIN Snapshot(S) \subseteq S
         /\ DOMAIN Snapshot(S) = {p \in S : active[p]}
         /\ Snapshot(S) \in [DOMAIN Snapshot(S) -> [ver : Nat, key : Nat]]
         /\ \A p \in DOMAIN Snapshot(S) : /\ Snapshot(S)[p].ver = ver[p]
                                          /\ Snapshot(S)[p].key = key[p]
<1>1. \A p \in S : [ver |-> ver[p], key |-> key[p]] \in [ver : Nat, key : Nat]
  BY DEF TypeOK
<1> QED
  BY <1>1 DEF Snapshot

-----------------------------------------------------------------------------
(* What a step makes of the runs and of Jira. *)

LEMMA SetRun ==
  ASSUME TypeOK, NEW r \in Runs, NEW n, IsRun(n), Set(r, n)
  PROVE  /\ run' = [x \in Runs |-> run'[x]] /\ \A x \in Runs : IsRun(run'[x])
         /\ run'[r] = n /\ \A x \in Runs \ {r} : run'[x] = run[x]
<1>1. run = [x \in Runs |-> run[x]] /\ \A x \in Runs : IsRun(run[x])
  BY DEF TypeOK
<1>2. run' = [run EXCEPT ![r] = n]
  BY DEF Set
<1>3. run' = [x \in Runs |-> IF x = r THEN n ELSE run[x]]
  BY <1>1, <1>2
<1> QED
  BY <1>1, <1>3

Entry == [ver : Nat, space : Nat]

\* The Jira objects there are stay, with the spaces they are in.
Stays == \A p \in Projects :
  /\ DOMAIN jira[p] \subseteq DOMAIN jira'[p]
  /\ \A n \in DOMAIN jira[p] : jira'[p][n].space = jira[p][n].space

LEMMA JiraPut ==
  ASSUME TypeOK, NEW p \in Projects, NEW m \in DOMAIN jira[p], NEW v \in Nat,
         jira' = [jira EXCEPT ![p][m].ver = v]
  PROVE  /\ jira' \in [Projects -> Seq(Entry)] /\ Stays
         /\ \A x \in Projects : DOMAIN jira'[x] = DOMAIN jira[x] /\ Len(jira'[x]) = Len(jira[x])
         /\ jira'[p][m].ver = v
         /\ \A x \in Projects : \A n \in DOMAIN jira[x] :
              x # p \/ n # m => jira'[x][n] = jira[x][n]
<1>1. jira \in [Projects -> Seq(Entry)]
  BY DEF TypeOK, Entry
<1> DEFINE s == [jira[p] EXCEPT ![m].ver = v]
<1>2. jira' = [jira EXCEPT ![p] = s]
  OBVIOUS
<1>3. jira[p] \in Seq(Entry)
  BY <1>1
<1>4. jira[p][m] \in Entry
  BY <1>3
<1>5. [jira[p][m] EXCEPT !.ver = v] \in Entry
  BY <1>4 DEF Entry
<1>6. s \in Seq(Entry) /\ DOMAIN s = DOMAIN jira[p] /\ Len(s) = Len(jira[p])
  BY <1>3, <1>5
<1>7. s[m].ver = v /\ s[m].space = jira[p][m].space
  BY <1>3, <1>4 DEF Entry
<1>8. \A n \in DOMAIN jira[p] \ {m} : s[n] = jira[p][n]
  BY <1>3
<1> HIDE DEF s
<1> QED
  BY <1>1, <1>2, <1>6, <1>7, <1>8 DEF Stays

LEMMA JiraMore ==
  ASSUME TypeOK, NEW p \in Projects, NEW t \in Seq(Entry),
         jira' = [jira EXCEPT ![p] = @ \o t]
  PROVE  /\ jira' \in [Projects -> Seq(Entry)] /\ Stays
         /\ Len(jira'[p]) = Len(jira[p]) + Len(t)
         /\ DOMAIN jira'[p] = 1 .. Len(jira[p]) + Len(t)
         /\ \A n \in DOMAIN jira[p] : jira'[p][n] = jira[p][n]
         /\ \A n \in 1 .. Len(t) : jira'[p][Len(jira[p]) + n] = t[n]
         /\ \A x \in Projects \ {p} : jira'[x] = jira[x]
<1>1. jira \in [Projects -> Seq(Entry)]
  BY DEF TypeOK, Entry
<1>2. jira[p] \in Seq(Entry)
  BY <1>1
<1> DEFINE s == jira[p] \o t
<1>3. s \in Seq(Entry) /\ Len(s) = Len(jira[p]) + Len(t)
      /\ DOMAIN s = 1 .. Len(jira[p]) + Len(t)
  BY <1>2
<1>4. \A n \in DOMAIN jira[p] : s[n] = jira[p][n]
  BY <1>2
<1>5. \A n \in 1 .. Len(t) : s[Len(jira[p]) + n] = t[n]
  BY <1>2
<1>6. jira' = [jira EXCEPT ![p] = s]
  OBVIOUS
<1>7. DOMAIN jira[p] = 1 .. Len(jira[p]) /\ Len(jira[p]) \in Nat /\ Len(t) \in Nat
  BY <1>2
<1> HIDE DEF s
<1> QED
  BY <1>1, <1>3, <1>4, <1>5, <1>6, <1>7 DEF Stays

LEMMA AppendIsMore ==
  ASSUME TypeOK, NEW p \in Projects, NEW o \in Entry,
         jira' = [jira EXCEPT ![p] = Append(@, o)]
  PROVE  jira' = [jira EXCEPT ![p] = @ \o <<o>>] /\ <<o>> \in Seq(Entry)
<1>1. jira[p] \in Seq(Entry)
  BY DEF TypeOK, Entry
<1>2. Append(jira[p], o) = jira[p] \o <<o>>
  BY <1>1
<1> QED
  BY <1>2

-----------------------------------------------------------------------------
(* What each step does to its run. *)

\* n is at another point of the same work.
Same(n, q) ==
  n.start = q.start /\ n.snap = q.snap /\ n.keys = q.keys /\ n.errors = q.errors

\* The run of r leaves its project, with or without an error.
Leaves(r, p) ==
  /\ Without(run'[r], run[r], p)
  /\ run'[r].at = "work" /\ run'[r].cur = None
  /\ run'[r].start = run[r].start
  /\ run[r].errors => run'[r].errors

\* It goes on to make a new object for p, or to update or write back an old one.
Turns(r, p, at) ==
  run'[r].at = at /\ run'[r].cur = p /\ Same(run'[r], run[r])

Others(r) ==
  /\ run' = [x \in Runs |-> run'[x]] /\ \A x \in Runs : IsRun(run'[x])
  /\ \A x \in Runs \ {r} : run'[x] = run[x]

LEMMA PickParentRun ==
  ASSUME TypeOK, NEW r \in Runs, NEW p \in Projects, PickParent(r, p)
  PROVE  /\ Others(r)
         /\ p \in Parents /\ p \in DOMAIN run[r].snap /\ run[r].at = "work"
         /\ \/ /\ run[r].snap[p].key # 0 /\ Turns(r, p, "put")
               /\ run'[r].target = run[r].snap[p].key
            \/ Leaves(r, p) /\ run'[r].errors /\ run'[r].keys = run[r].keys
            \/ run[r].snap[p].key = 0 /\ Turns(r, p, "post")
<1> DEFINE q == [run[r] EXCEPT !.cur = p]
           old == run[r].snap[p].key
<1>1. IsRun(run[r]) /\ p \in Parents /\ p \in DOMAIN run[r].snap /\ run[r].at = "work"
  BY DEF TypeOK, PickParent, Turn
<1>2. old \in Nat /\ FreeKey(p) \in Nat
  BY <1>1 DEF IsRun, TypeOK, FreeKey
<1>3. IsRun(q) /\ q.cur = p /\ Same(q, run[r])
  BY <1>1 DEF IsRun, Same
<1>4. CASE old # 0
  <2> DEFINE n == [q EXCEPT !.at = "put", !.target = old]
  <2>1. IsRun(n) /\ n.at = "put" /\ n.cur = p /\ n.target = old /\ Same(n, q)
    BY <1>2, <1>3 DEF IsRun, Phases, Same
  <2>2. Set(r, n)
    BY <1>4 DEF PickParent
  <2> HIDE DEF n, q
  <2> QED
    BY <1>1, <1>3, <1>4, <2>1, <2>2, SetRun DEF Others, Turns, Same
<1>5. CASE old = 0 /\ Account = "no"
  <2>1. Set(r, Error(q))
    BY <1>5 DEF PickParent
  <2> HIDE DEF q
  <2>2. IsRun(Error(q)) /\ Without(Error(q), q, p) /\ Error(q).at = "work"
        /\ Error(q).cur = None /\ Error(q).start = q.start /\ Error(q).keys = q.keys
        /\ Error(q).errors
    BY <1>3, ErrorRun
  <2>3. /\ Error(q) = run'[r] /\ run' = [x \in Runs |-> run'[x]]
        /\ \A x \in Runs : IsRun(run'[x]) /\ \A y \in Runs \ {r} : run'[y] = run[y]
    BY <2>1, <2>2, SetRun
  <2>4. Leaves(r, p)
    BY <1>3, <2>2, <2>3 DEF Leaves, Without, Same
  <2> QED
    BY <1>1, <1>3, <2>2, <2>3, <2>4 DEF Others, Same
<1>6. CASE old = 0 /\ Account # "no"
  <2> DEFINE n == [q EXCEPT !.at = "post", !.target = FreeKey(p)]
  <2>1. IsRun(n) /\ n.at = "post" /\ n.cur = p /\ Same(n, q)
    BY <1>2, <1>3 DEF IsRun, Phases, Same
  <2>2. Set(r, n)
    BY <1>6 DEF PickParent
  <2> HIDE DEF n, q
  <2> QED
    BY <1>1, <1>3, <1>6, <2>1, <2>2, SetRun DEF Others, Turns, Same
<1> QED
  BY <1>4, <1>5, <1>6

LEMMA SpaceType ==
  ASSUME TypeOK, NEW r \in Runs, NEW c \in Children
  PROVE  SpaceFor(run[r], c) \in Nat
BY JiraAssumption DEF TypeOK, IsRun, SpaceFor, Children, Parents

LEMMA PickChildRun ==
  ASSUME TypeOK, NEW r \in Runs, NEW c \in Projects, PickChild(r, c)
  PROVE  /\ Others(r)
         /\ c \in Children /\ c \in DOMAIN run[r].snap /\ run[r].at = "work"
         /\ DOMAIN run[r].snap \subseteq Children
         /\ \/ /\ Leaves(r, c) /\ run'[r].errors = run[r].errors
               /\ run'[r].keys = run[r].keys
               /\ skipped' = IF r = "scheduled" /\ run[r].snap[c].ver = ver[c]
                             THEN skipped \union {c} ELSE skipped
            \/ /\ UNCHANGED skipped
               /\ SpaceFor(run[r], c) # 0 /\ run'[r].space = SpaceFor(run[r], c)
               /\ \/ /\ Turns(r, c, "post") /\ run[r].snap[c].key = 0
                     /\ FindEpic(c, SpaceFor(run[r], c)) = {}
                  \/ /\ Turns(r, c, "put")
                     /\ \/ run'[r].target = run[r].snap[c].key /\ run[r].snap[c].key # 0
                        \/ /\ run'[r].target \in FindEpic(c, SpaceFor(run[r], c))
                           /\ run[r].snap[c].key = 0
<1> DEFINE s == SpaceFor(run[r], c)
           q == [run[r] EXCEPT !.cur = c, !.space = s]
           old == q.snap[c].key
           known == IF old # 0 THEN {old} ELSE FindEpic(c, q.space)
<1>1. IsRun(run[r]) /\ c \in Children /\ c \in DOMAIN run[r].snap /\ run[r].at = "work"
  BY DEF TypeOK, PickChild, Turn
<1>2. DOMAIN run[r].snap \subseteq Children
  BY <1>1 DEF PickChild, Turn, Children, Parents
<1>3. s \in Nat
  BY <1>1, SpaceType
<1>4. IsRun(q) /\ q.cur = c /\ q.space = s /\ Same(q, run[r])
  BY <1>1, <1>3 DEF IsRun, Same
<1>5. old \in Nat /\ old = run[r].snap[c].key
  BY <1>1, <1>4 DEF IsRun, Same
<1>6. known \subseteq Nat
  BY <1>5 DEF FindEpic, TypeOK
<1>7. CASE s = 0
  <2>1. Set(r, Rest(q)) /\ skipped' = IF r = "scheduled" /\ q.snap[c].ver = ver[c]
                                     THEN skipped \union {c} ELSE skipped
    BY <1>4, <1>7 DEF PickChild
  <2> HIDE DEF q
  <2>2. IsRun(Rest(q)) /\ Without(Rest(q), q, c) /\ Rest(q).at = "work"
        /\ Rest(q).cur = None /\ Rest(q).start = q.start /\ Rest(q).keys = q.keys
        /\ Rest(q).errors = q.errors
    BY <1>4, RestRun
  <2>3. /\ Rest(q) = run'[r] /\ run' = [x \in Runs |-> run'[x]]
        /\ \A x \in Runs : IsRun(run'[x]) /\ \A y \in Runs \ {r} : run'[y] = run[y]
    BY <2>1, <2>2, SetRun
  <2>4. Leaves(r, c) /\ run'[r].errors = run[r].errors
    BY <1>4, <2>2, <2>3 DEF Leaves, Without, Same
  <2> QED
    BY <1>1, <1>2, <1>4, <2>1, <2>2, <2>3, <2>4 DEF Others, Same
<1>8. CASE s # 0 /\ known = {}
  <2> DEFINE n == [q EXCEPT !.at = "post"]
  <2>1. IsRun(n) /\ n.at = "post" /\ n.cur = c /\ n.space = s /\ Same(n, q)
    BY <1>4 DEF IsRun, Phases, Same
  <2>2. Set(r, n) /\ UNCHANGED skipped
    BY <1>4, <1>8 DEF PickChild
  <2>3. run[r].snap[c].key = 0 /\ FindEpic(c, s) = {}
    BY <1>4, <1>5, <1>8
  <2> HIDE DEF n, q
  <2>4. Others(r) /\ run'[r] = n
    BY <2>1, <2>2, SetRun DEF Others
  <2>5. Turns(r, c, "post") /\ run'[r].space = s
    BY <1>4, <2>1, <2>4 DEF Turns, Same
  <2> QED
    BY <1>1, <1>2, <1>8, <2>2, <2>3, <2>4, <2>5
<1>9. CASE s # 0 /\ known # {}
  <2>1. UNCHANGED skipped /\ \E m \in known : Set(r, [q EXCEPT !.at = "put", !.target = m])
    BY <1>4, <1>9 DEF PickChild
  <2>2. PICK m \in known : Set(r, [q EXCEPT !.at = "put", !.target = m])
    BY <2>1
  <2> DEFINE n == [q EXCEPT !.at = "put", !.target = m]
  <2>3. m \in Nat
    BY <1>6
  <2>4. IsRun(n) /\ n.at = "put" /\ n.cur = c /\ n.space = s /\ n.target = m /\ Same(n, q)
    BY <1>4, <2>3 DEF IsRun, Phases, Same
  <2>5. \/ m = run[r].snap[c].key /\ run[r].snap[c].key # 0
        \/ m \in FindEpic(c, s) /\ run[r].snap[c].key = 0
    BY <1>4, <1>5
  <2> HIDE DEF n, q, known
  <2>6. Others(r) /\ run'[r] = n
    BY <2>2, <2>4, SetRun DEF Others, n
  <2>7. Turns(r, c, "put") /\ run'[r].space = s /\ run'[r].target = m
    BY <1>4, <2>4, <2>6 DEF Turns, Same
  <2> QED
    BY <1>1, <1>2, <1>9, <2>1, <2>5, <2>6, <2>7
<1> QED
  BY <1>7, <1>8, <1>9

-----------------------------------------------------------------------------
(* Where a run is. *)

\* A run is at a project that it has read, the object it is about to update or
\* to write the key of exists, and it only makes one for a project that had no
\* key when it was read.
PhaseInv(r) ==
  LET q == run[r] IN
  /\ q.start <= now
  /\ q.at \notin {"put", "post", "write"} => q.cur = None
  /\ q.at = "idle" => DOMAIN q.snap = {}
  /\ \A p \in DOMAIN q.snap : q.snap[p].key \in {0} \union DOMAIN jira[p]
  /\ q.at \in {"put", "post", "write"} => q.cur \in DOMAIN q.snap
  /\ q.at \in {"post", "write"} => q.snap[q.cur].key = 0
  /\ q.at \in {"put", "write"} => q.target \in DOMAIN jira[q.cur]
  /\ q.at = "put" /\ Keyed(q) => q.target = q.snap[q.cur].key
  /\ q.at = "post" /\ q.cur \in Children => q.space # 0

\* What SPP has the key of exists, every epic is in a space, the watermark is
\* not ahead of the clock, and two runs at once have been counted.
WorldInv ==
  /\ \A p \in Projects : key[p] \in {0} \union DOMAIN jira[p]
  /\ \A c \in Children : \A n \in DOMAIN jira[c] : jira[c][n].space # 0
  /\ watermark # None => watermark <= now
  /\ (\A r \in Runs : Busy(r)) => overlaps > 0

BaseInv == WorldInv /\ \A r \in Runs : PhaseInv(r)

LEMMA AtWork ==
  ASSUME TypeOK, BaseInv, NEW r \in Runs, run[r].at \in {"put", "post", "write"}
  PROVE  /\ IsRun(run[r]) /\ run[r].cur \in DOMAIN run[r].snap
         /\ run[r].cur \in Projects
         /\ run[r].snap[run[r].cur].ver \in Nat
BY DEF TypeOK, BaseInv, PhaseInv, IsRun

LEMMA PutDoneRun ==
  ASSUME TypeOK, BaseInv, NEW r \in Runs, PutDone(r), NEW p, p = run[r].cur
  PROVE  /\ Others(r) /\ p \in DOMAIN run[r].snap /\ p \in Projects
         /\ run[r].at = "put" /\ run[r].target \in DOMAIN jira[p]
         /\ jira' = [jira EXCEPT ![p][run[r].target].ver = run[r].snap[p].ver]
         /\ \/ /\ run[r].snap[p].key # 0 /\ Leaves(r, p) /\ run'[r].errors = run[r].errors
               /\ run[r].target = run[r].snap[p].key
               /\ p \in Children => run'[r].keys = run[r].keys
               /\ p \in Parents =>
                    /\ DOMAIN run'[r].keys = DOMAIN run[r].keys \union {p}
                    /\ run'[r].keys[p] = run[r].target
                    /\ \A x \in DOMAIN run[r].keys \ {p} : run'[r].keys[x] = run[r].keys[x]
               /\ skipped' = skipped \ {p}
            \/ /\ run[r].snap[p].key = 0 /\ Turns(r, p, "write")
               /\ run'[r].target = run[r].target /\ UNCHANGED skipped
<1>1. run[r].at = "put"
  BY DEF PutDone
<1>2. IsRun(run[r]) /\ p \in DOMAIN run[r].snap /\ p \in Projects
  BY <1>1, AtWork
<1>3. /\ run[r].target \in DOMAIN jira[p]
      /\ jira' = [jira EXCEPT ![p][run[r].target].ver = run[r].snap[p].ver]
  BY <1>1 DEF PutDone, BaseInv, PhaseInv
<1>4. CASE run[r].snap[p].key # 0
  <2>1. Set(r, Done(run[r])) /\ skipped' = skipped \ {p}
    BY <1>4 DEF PutDone, Keyed
  <2>2. run[r].target = run[r].snap[p].key
    BY <1>1, <1>4 DEF BaseInv, PhaseInv, Keyed
  <2> DEFINE n == Done(run[r])
  <2>3. IsRun(n) /\ Without(n, run[r], p) /\ n.at = "work" /\ n.cur = None
        /\ n.start = run[r].start /\ n.errors = run[r].errors
    BY <1>2, DoneRun
  <2>4. /\ p \in Children => n.keys = run[r].keys
        /\ p \in Parents =>
             /\ DOMAIN n.keys = DOMAIN run[r].keys \union {p} /\ n.keys[p] = run[r].target
             /\ \A x \in DOMAIN run[r].keys \ {p} : n.keys[x] = run[r].keys[x]
    BY <1>2, DoneRun
  <2> HIDE DEF n
  <2>5. Others(r) /\ run'[r] = n
    BY <2>1, <2>3, SetRun DEF Others, n
  <2>6. Leaves(r, p) /\ run'[r].errors = run[r].errors
    BY <2>3, <2>5 DEF Leaves, Without
  <2> QED
    BY <1>1, <1>2, <1>3, <1>4, <2>1, <2>2, <2>4, <2>5, <2>6
<1>5. CASE run[r].snap[p].key = 0
  <2>1. Set(r, [run[r] EXCEPT !.at = "write"]) /\ UNCHANGED skipped
    BY <1>5 DEF PutDone, Keyed
  <2> DEFINE n == [run[r] EXCEPT !.at = "write"]
  <2>2. IsRun(n) /\ n.at = "write" /\ n.cur = p /\ n.target = run[r].target /\ Same(n, run[r])
    BY <1>2 DEF IsRun, Phases, Same
  <2> HIDE DEF n
  <2>3. Others(r) /\ run'[r] = n
    BY <2>1, <2>2, SetRun DEF Others, n
  <2> QED
    BY <1>1, <1>2, <1>3, <1>5, <2>1, <2>2, <2>3 DEF Turns, Same
<1> QED
  BY <1>4, <1>5, <1>2 DEF IsRun

LEMMA ObjectType ==
  ASSUME TypeOK, BaseInv, NEW r \in Runs, run[r].at = "post"
  PROVE  /\ Object(run[r]) \in Entry
         /\ Object(run[r]).ver = run[r].snap[run[r].cur].ver
         /\ run[r].cur \in Children => Object(run[r]).space = run[r].space
<1>1. IsRun(run[r]) /\ run[r].snap[run[r].cur].ver \in Nat
  BY AtWork
<1> QED
  BY <1>1 DEF Object, Entry, IsRun

LEMMA PostedRun ==
  ASSUME NEW q, IsRun(q), NEW n \in Nat
  PROVE  /\ IsRun(Posted(q, n)) /\ Posted(q, n).at = "write" /\ Posted(q, n).cur = q.cur
         /\ Posted(q, n).target = n /\ Same(Posted(q, n), q)
BY DEF Posted, IsRun, Phases, Same

LEMMA PostDoneRun ==
  ASSUME TypeOK, BaseInv, NEW r \in Runs, PostDone(r), NEW p, p = run[r].cur
  PROVE  /\ Others(r) /\ p \in DOMAIN run[r].snap /\ p \in Projects
         /\ run[r].at = "post" /\ run[r].snap[p].key = 0
         /\ \/ /\ jira' = [jira EXCEPT ![p] = Append(@, Object(run[r]))]
               /\ Turns(r, p, "write") /\ run'[r].target = Len(jira[p]) + 1
            \/ /\ UNCHANGED jira /\ Leaves(r, p) /\ run'[r].errors
               /\ run'[r].keys = run[r].keys
<1>1. run[r].at = "post" /\ run[r].snap[p].key = 0
  BY DEF PostDone, BaseInv, PhaseInv
<1>2. IsRun(run[r]) /\ p \in DOMAIN run[r].snap /\ p \in Projects
  BY <1>1, AtWork
<1>3. CASE Free(run[r])
  <2>1. /\ jira' = [jira EXCEPT ![p] = Append(@, Object(run[r]))]
        /\ Set(r, Posted(run[r], Len(jira[p]) + 1))
    BY <1>3 DEF PostDone
  <2>2. Len(jira[p]) + 1 \in Nat
    BY <1>2 DEF TypeOK
  <2>3. Others(r) /\ run'[r] = Posted(run[r], Len(jira[p]) + 1)
    BY <1>2, <2>1, <2>2, PostedRun, SetRun DEF Others
  <2> QED
    BY <1>1, <1>2, <2>1, <2>2, <2>3, PostedRun DEF Turns
<1>4. CASE ~Free(run[r])
  <2>1. UNCHANGED jira /\ Set(r, Error(run[r]))
    BY <1>4 DEF PostDone
  <2> QED
    BY <1>1, <1>2, <2>1, ErrorRun, SetRun DEF Others, Leaves, Without
<1> QED
  BY <1>3, <1>4

LEMMA WriteDoneRun ==
  ASSUME TypeOK, BaseInv, NEW r \in Runs, WriteDone(r), NEW p, p = run[r].cur
  PROVE  /\ Others(r) /\ p \in DOMAIN run[r].snap /\ p \in Projects
         /\ run[r].at = "write" /\ run[r].snap[p].key = 0
         /\ run[r].target \in DOMAIN jira[p] /\ run[r].target \in Nat \ {0}
         /\ Leaves(r, p) /\ run'[r].errors = run[r].errors
         /\ p \in Children => run'[r].keys = run[r].keys
         /\ p \in Parents =>
              /\ DOMAIN run'[r].keys = DOMAIN run[r].keys \union {p}
              /\ run'[r].keys[p] = run[r].target
              /\ \A x \in DOMAIN run[r].keys \ {p} : run'[r].keys[x] = run[r].keys[x]
<1>1. run[r].at = "write" /\ Set(r, Done(run[r]))
  BY DEF WriteDone
<1>2. /\ IsRun(run[r]) /\ p \in DOMAIN run[r].snap /\ p \in Projects
      /\ run[r].snap[p].key = 0 /\ run[r].target \in DOMAIN jira[p]
  BY <1>1, AtWork DEF BaseInv, PhaseInv
<1>3. run[r].target \in Nat \ {0}
  <2>1. jira[p] \in Seq([ver : Nat, space : Nat])
    BY <1>2 DEF TypeOK
  <2> QED
    BY <1>2, <2>1
<1> QED
  BY <1>1, <1>2, <1>3, DoneRun, SetRun DEF Others, Leaves, Without

LEMMA FailsRun ==
  ASSUME TypeOK, NEW r \in Runs, Fails(r)
  PROVE  /\ Others(r) /\ Leaves(r, run[r].cur) /\ run'[r].errors
         /\ run'[r].keys = run[r].keys
<1>1. Set(r, Error(run[r])) /\ IsRun(run[r])
  BY DEF Fails, TypeOK
<1> QED
  BY <1>1, ErrorRun, SetRun DEF Others, Leaves, Without

\* Nothing is left of a run that is over.
Over(r) == run'[r] = Idle

LEMMA OverRun ==
  ASSUME TypeOK, NEW r \in Runs, End(r) \/ Dies(r)
  PROVE  Others(r) /\ Over(r)
<1>1. Set(r, Idle)
  BY DEF End, Dies
<1> QED
  BY <1>1, IdleRun, SetRun DEF Others, Over

LEMMA PostUnheardRun ==
  ASSUME TypeOK, BaseInv, NEW r \in Runs, PostUnheard(r), NEW p, p = run[r].cur
  PROVE  /\ Others(r) /\ p \in DOMAIN run[r].snap /\ p \in Projects
         /\ run[r].at = "post" /\ run[r].snap[p].key = 0
         /\ \/ /\ jira' = [jira EXCEPT ![p] = Append(@, Object(run[r]))]
               /\ Leaves(r, p) /\ run'[r].errors /\ run'[r].keys = run[r].keys
            \/ /\ p \in Children
               /\ jira' = [jira EXCEPT ![p] = @ \o <<Object(run[r]), Object(run[r])>>]
               /\ Turns(r, p, "write") /\ run'[r].target = Len(jira[p]) + 2
<1>1. run[r].at = "post" /\ run[r].snap[p].key = 0
  BY DEF PostUnheard, BaseInv, PhaseInv
<1>2. IsRun(run[r]) /\ p \in DOMAIN run[r].snap /\ p \in Projects
  BY <1>1, AtWork
<1>3. CASE /\ jira' = [jira EXCEPT ![p] = Append(@, Object(run[r]))]
           /\ Set(r, Error(run[r]))
  BY <1>1, <1>2, <1>3, ErrorRun, SetRun DEF Others, Leaves, Without
<1>4. CASE /\ p \in Children
           /\ jira' = [jira EXCEPT ![p] = @ \o <<Object(run[r]), Object(run[r])>>]
           /\ Set(r, Posted(run[r], Len(jira[p]) + 2))
  <2>1. Len(jira[p]) + 2 \in Nat
    BY <1>2 DEF TypeOK
  <2>2. Others(r) /\ run'[r] = Posted(run[r], Len(jira[p]) + 2)
    BY <1>2, <1>4, <2>1, PostedRun, SetRun DEF Others
  <2>3. Turns(r, p, "write") /\ run'[r].target = Len(jira[p]) + 2
    BY <1>2, <2>1, <2>2, PostedRun DEF Turns
  <2> QED
    BY <1>1, <1>2, <1>4, <2>2, <2>3
<1> QED
  BY <1>3, <1>4 DEF PostUnheard

LEMMA BeginRun ==
  ASSUME TypeOK, NEW cold, Begin(cold)
  PROVE  /\ Others("scheduled")
         /\ run["scheduled"].at = "idle"
         /\ run'["scheduled"].at = "read" /\ run'["scheduled"].start = now
         /\ DOMAIN run'["scheduled"].snap = {} /\ DOMAIN run'["scheduled"].keys = {}
         /\ ~run'["scheduled"].errors /\ run'["scheduled"].cur = None
<1> DEFINE n == [Idle EXCEPT !.at = "read", !.start = now]
<1>1. IsRun(n) /\ n.at = "read" /\ n.start = now /\ DOMAIN n.snap = {} /\ DOMAIN n.keys = {}
      /\ ~n.errors /\ n.cur = None
  BY IdleRun DEF TypeOK, IsRun, Phases
<1>2. Set("scheduled", n) /\ run["scheduled"].at = "idle"
  BY DEF Begin, Busy
<1> HIDE DEF n
<1>3. "scheduled" \in Runs
  BY DEF Runs
<1> QED
  BY <1>1, <1>2, <1>3, SetRun DEF Others

LEMMA ReadRun ==
  ASSUME TypeOK, NEW r \in Runs, Read(r)
  PROVE  /\ Others(r) /\ run[r].at = "read" /\ run'[r].at = "work"
         /\ run'[r].snap = Snapshot({p \in Projects : Seen(p)})
         /\ run'[r].start = run[r].start /\ run'[r].keys = run[r].keys
         /\ run'[r].errors = run[r].errors /\ run'[r].cur = run[r].cur
<1> DEFINE s == Snapshot({p \in Projects : Seen(p)})
           n == [run[r] EXCEPT !.at = "work", !.snap = s]
<1>1. /\ DOMAIN s \subseteq Projects
      /\ s \in [DOMAIN s -> [ver : Nat, key : Nat]]
  <2>1. {p \in Projects : Seen(p)} \in SUBSET Projects
    OBVIOUS
  <2> QED
    BY <2>1, SnapshotType
<1>2. Set(r, n) /\ run[r].at = "read" /\ IsRun(run[r])
  BY DEF Read, TypeOK
<1> HIDE DEF s
<1>3. /\ IsRun(n) /\ n.at = "work" /\ n.snap = s /\ n.start = run[r].start
      /\ n.keys = run[r].keys /\ n.errors = run[r].errors /\ n.cur = run[r].cur
  BY <1>1, <1>2 DEF IsRun, Phases
<1> HIDE DEF n
<1> QED
  BY <1>2, <1>3, SetRun DEF Others, s

LEMMA ByHandRun ==
  ASSUME TypeOK, NEW cold, NEW S \in SUBSET Projects, ByHand(S, cold)
  PROVE  /\ Others("manual") /\ run["manual"].at = "idle"
         /\ run'["manual"].at = "work" /\ run'["manual"].snap = Snapshot(S)
         /\ run'["manual"].start = 0 /\ DOMAIN run'["manual"].keys = {}
         /\ run'["manual"].cur = None
<1> DEFINE s == Snapshot(S)
           n == [Idle EXCEPT !.at = "work", !.snap = s]
<1>1. /\ DOMAIN s \subseteq Projects
      /\ s \in [DOMAIN s -> [ver : Nat, key : Nat]]
  BY SnapshotType
<1>2. Set("manual", n) /\ run["manual"].at = "idle" /\ "manual" \in Runs
  BY DEF ByHand, Busy, Runs
<1> HIDE DEF s
<1>3. IsRun(n) /\ n.at = "work" /\ n.snap = s /\ n.start = 0 /\ DOMAIN n.keys = {}
      /\ n.cur = None
  BY <1>1, IdleRun DEF IsRun, Phases
<1> HIDE DEF n
<1> QED
  BY <1>2, <1>3, SetRun DEF Others, s

-----------------------------------------------------------------------------
(* Types, and where a run is. *)

\* The rest of Jira and SPP, while a run is somewhere else.
Types ==
  /\ now' \in Nat /\ ver' \in [Projects -> Nat] /\ active' \in [Projects -> BOOLEAN]
  /\ updated' \in [Projects -> Int] /\ key' \in [Projects -> Nat]
  /\ jira' \in [Projects -> Seq(Entry)] /\ leads' \in BOOLEAN /\ sppId' \in BOOLEAN
  /\ watermark' \in {None} \union Nat /\ cache' \in {"none", "no", "yes"}
  /\ skipped' \subseteq Children /\ aged' \subseteq Projects
  /\ faults' \in Nat /\ repeats' \in Nat /\ overlaps' \in Nat

LEMMA TypesAgain ==
  ASSUME NEW r \in Runs, Others(r), Types
  PROVE  TypeOK'
BY DEF TypeOK, Types, Others, Entry

LEMMA FaultType ==
  ASSUME TypeOK, Fault
  PROVE  faults' \in Nat /\ faults' = faults + 1
BY DEF TypeOK, Fault

LEMMA InvokedType ==
  ASSUME TypeOK, NEW cold, Invoked(cold)
  PROVE  /\ faults' \in Nat /\ overlaps' \in Nat /\ cache' \in {"none", "no", "yes"}
         /\ faults' >= faults /\ overlaps' >= overlaps
         /\ (\E o \in Runs : Busy(o)) => faults' = faults + 1 /\ overlaps' = overlaps + 1
BY DEF TypeOK, Invoked, Fault

LEMMA AccountType ==
  ASSUME TypeOK
  PROVE  Account \in {"none", "no", "yes"}
BY DEF TypeOK, Account

LEMMA TypeStep ==
  ASSUME TypeOK, BaseInv, [Next]_vars
  PROVE  TypeOK'
<1> USE DEF sppVars, site, ghosts
<1>1. CASE UNCHANGED vars
  <2>1. \A r \in Runs : run'[r] = run[r]
    BY <1>1 DEF vars
  <2> QED
    BY <1>1, <2>1 DEF TypeOK, vars
<1>2. CASE Tick
  BY <1>2 DEF Tick, TypeOK
<1>3. CASE Join
  BY <1>3 DEF Join, TypeOK
<1>4. ASSUME NEW p \in Projects, Edit(p) PROVE TypeOK'
  <2>1. now - Skew \in Int
    BY JiraAssumption DEF TypeOK
  <2> QED
    BY <1>4, <2>1 DEF Edit, TypeOK
<1>5. ASSUME NEW cold, Begin(cold) PROVE TypeOK'
  <2>1. Types
    BY <1>5, InvokedType DEF Begin, TypeOK, Types, Entry
  <2> QED
    BY <1>5, <2>1, BeginRun, TypesAgain DEF Runs
<1>6. ASSUME NEW cold, NEW S \in SUBSET Projects, ByHand(S, cold) PROVE TypeOK'
  <2>1. Types
    BY <1>6, InvokedType DEF ByHand, TypeOK, Types, Entry
  <2> QED
    BY <1>6, <2>1, ByHandRun, TypesAgain DEF Runs
<1>7. ASSUME NEW r \in Runs, Read(r) PROVE TypeOK'
  <2>1. Types
    BY <1>7 DEF Read, TypeOK, Types, Entry
  <2> QED
    BY <1>7, <2>1, ReadRun, TypesAgain
<1>8. ASSUME NEW r \in Runs, PutDone(r) PROVE TypeOK'
  <2>1. jira' \in [Projects -> Seq(Entry)]
    <3>1. run[r].at \in {"put", "post", "write"}
      BY <1>8 DEF PutDone
    <3>2. PICK p \in Projects : p = run[r].cur
      BY <3>1, AtWork
    <3>3. run[r].snap[p].ver \in Nat
      BY <3>1, <3>2, AtWork
    <3>4. /\ run[r].target \in DOMAIN jira[p]
          /\ jira' = [jira EXCEPT ![p][run[r].target].ver = run[r].snap[p].ver]
      BY <1>8, <3>2, PutDoneRun
    <3> QED
      BY <3>3, <3>4, JiraPut
  <2>2. Types
    BY <1>8, <2>1 DEF PutDone, TypeOK, Types
  <2> QED
    BY <1>8, <2>2, PutDoneRun, TypesAgain
<1>9. ASSUME NEW r \in Runs, PostDone(r) PROVE TypeOK'
  <2>1. jira' \in [Projects -> Seq(Entry)]
    <3>1. run[r].cur \in Projects /\ Object(run[r]) \in Entry
      BY <1>9, PostDoneRun, ObjectType
    <3>2. CASE UNCHANGED jira
      BY <3>2 DEF TypeOK, Entry
    <3>3. CASE jira' = [jira EXCEPT ![run[r].cur] = Append(@, Object(run[r]))]
      BY <3>1, <3>3, AppendIsMore, JiraMore
    <3> QED
      BY <1>9, <3>2, <3>3, PostDoneRun
  <2>2. Types
    BY <1>9, <2>1 DEF PostDone, TypeOK, Types
  <2> QED
    BY <1>9, <2>2, PostDoneRun, TypesAgain
<1>10. ASSUME NEW r \in Runs, WriteDone(r) PROVE TypeOK'
  <2>1. run[r].cur \in Projects /\ run[r].target \in Nat
    BY <1>10, WriteDoneRun
  <2>3. now - Skew \in Int
    BY JiraAssumption DEF TypeOK
  <2>2. Types
    BY <1>10, <2>1, <2>3 DEF WriteDone, TypeOK, Types, Entry
  <2> QED
    BY <1>10, <2>2, WriteDoneRun, TypesAgain
<1>11. ASSUME NEW r \in Runs, End(r) PROVE TypeOK'
  <2>1. run[r].start \in Nat
    BY DEF TypeOK, IsRun
  <2>2. Types
    BY <1>11, <2>1 DEF End, TypeOK, Types, Entry
  <2> QED
    BY <1>11, <2>2, OverRun, TypesAgain
<1>12. ASSUME NEW r \in Runs, NEW p \in Projects, PickParent(r, p) PROVE TypeOK'
  <2>1. Types
    BY <1>12, AccountType DEF PickParent, TypeOK, Types, Entry
  <2> QED
    BY <1>12, <2>1, PickParentRun, TypesAgain
<1>13. ASSUME NEW r \in Runs, NEW p \in Projects, PickChild(r, p) PROVE TypeOK'
  <2>1. skipped' \subseteq Children
    BY <1>13, PickChildRun DEF TypeOK
  <2>2. Types
    BY <1>13, <2>1 DEF PickChild, TypeOK, Types, Entry
  <2> QED
    BY <1>13, <2>2, PickChildRun, TypesAgain
<1>14. ASSUME NEW r \in Runs, Fails(r) PROVE TypeOK'
  <2>1. Types
    BY <1>14, FaultType DEF Fails, TypeOK, Types, Entry
  <2> QED
    BY <1>14, <2>1, FailsRun, TypesAgain
<1>15. ASSUME NEW r \in Runs, PostUnheard(r) PROVE TypeOK'
  <2>1. jira' \in [Projects -> Seq(Entry)]
    <3>1. run[r].cur \in Projects /\ Object(run[r]) \in Entry
      BY <1>15, PostUnheardRun, ObjectType
    <3>2. CASE jira' = [jira EXCEPT ![run[r].cur] = @ \o <<Object(run[r]), Object(run[r])>>]
      <4>1. <<Object(run[r]), Object(run[r])>> \in Seq(Entry)
        BY <3>1
      <4> QED
        BY <3>1, <3>2, <4>1, JiraMore
    <3>3. CASE jira' = [jira EXCEPT ![run[r].cur] = Append(@, Object(run[r]))]
      BY <3>1, <3>3, AppendIsMore, JiraMore
    <3> QED
      BY <1>15, <3>2, <3>3, PostUnheardRun
  <2>2. faults' \in Nat /\ repeats' \in Nat
    <3>1. Fault /\ repeats' = repeats + 1
      BY <1>15 DEF PostUnheard
    <3> QED
      BY <3>1, FaultType DEF TypeOK
  <2>3. UNCHANGED <<now, sppVars, site, watermark, cache, skipped, aged, overlaps>>
    BY <1>15 DEF PostUnheard
  <2>4. Types
    BY <2>1, <2>2, <2>3 DEF TypeOK, Types
  <2> QED
    BY <1>15, <2>4, PostUnheardRun, TypesAgain
<1>16. ASSUME NEW r \in Runs, Dies(r) PROVE TypeOK'
  <2>1. Types
    BY <1>16, FaultType DEF Dies, TypeOK, Types, Entry
  <2> QED
    BY <1>16, <2>1, OverRun, TypesAgain
<1> QED
  BY <1>1, <1>2, <1>3, <1>4, <1>5, <1>6, <1>7, <1>8, <1>9, <1>10, <1>11, <1>12,
     <1>13, <1>14, <1>15, <1>16 DEF Next, Step

\* Which steps can change what.
LEMMA Changes ==
  ASSUME [Next]_vars
  PROVE  /\ UNCHANGED now \/ Tick
         /\ UNCHANGED <<ver, active>> \/ \E p \in Projects : Edit(p)
         /\ UNCHANGED key \/ \E r \in Runs : WriteDone(r)
         /\ \/ UNCHANGED jira
            \/ \E r \in Runs : PutDone(r) \/ PostDone(r) \/ PostUnheard(r)
         /\ UNCHANGED watermark \/ \E r \in Runs : End(r)
<1> USE DEF sppVars, ghosts
<1>1. CASE UNCHANGED vars
  BY <1>1 DEF vars
<1>2. CASE Tick \/ Join \/ \E p \in Projects : Edit(p)
  BY <1>2 DEF Tick, Join, Edit
<1>3. CASE \E cold \in BOOLEAN : Begin(cold) \/ \E S \in SUBSET Projects \ {{}} : ByHand(S, cold)
  BY <1>3 DEF Begin, ByHand
<1>4. ASSUME NEW r \in Runs,
             Read(r) \/ PutDone(r) \/ PostDone(r) \/ WriteDone(r) \/ End(r)
      PROVE  /\ UNCHANGED <<now, ver, active>>
             /\ UNCHANGED key \/ WriteDone(r)
             /\ UNCHANGED jira \/ PutDone(r) \/ PostDone(r) \/ PostUnheard(r)
             /\ UNCHANGED watermark \/ End(r)
  BY <1>4 DEF Read, PutDone, PostDone, WriteDone, End
<1>5. ASSUME NEW r \in Runs, NEW p \in Projects, PickParent(r, p) \/ PickChild(r, p)
      PROVE  UNCHANGED <<now, ver, active, key, jira, watermark>>
  BY <1>5 DEF PickParent, PickChild
<1>6. ASSUME NEW r \in Runs, Fails(r) \/ PostUnheard(r) \/ Dies(r)
      PROVE  /\ UNCHANGED <<now, ver, active, key, watermark>>
             /\ UNCHANGED jira \/ PostUnheard(r)
  BY <1>6 DEF Fails, PostUnheard, Dies
<1> QED
  BY <1>1, <1>2, <1>3, <1>4, <1>5, <1>6 DEF Next, Step

LEMMA StaysStep ==
  ASSUME TypeOK, BaseInv, [Next]_vars
  PROVE  Stays /\ now' >= now
<1>1. now' >= now
  BY Changes DEF TypeOK, Tick
<1>2. ASSUME UNCHANGED jira PROVE Stays
  BY <1>2 DEF Stays
<1>3. ASSUME NEW r \in Runs, PutDone(r) PROVE Stays
  <2>1. run[r].at \in {"put", "post", "write"}
    BY <1>3 DEF PutDone
  <2>2. PICK p \in Projects : p = run[r].cur
    BY <2>1, AtWork
  <2>3. run[r].snap[p].ver \in Nat
    BY <2>1, <2>2, AtWork
  <2>4. /\ run[r].target \in DOMAIN jira[p]
        /\ jira' = [jira EXCEPT ![p][run[r].target].ver = run[r].snap[p].ver]
    BY <1>3, <2>2, PutDoneRun
  <2> QED
    BY <2>3, <2>4, JiraPut
<1>4. ASSUME NEW r \in Runs, PostDone(r) PROVE Stays
  <2>1. run[r].cur \in Projects /\ Object(run[r]) \in Entry
    BY <1>4, PostDoneRun, ObjectType
  <2>2. CASE jira' = [jira EXCEPT ![run[r].cur] = Append(@, Object(run[r]))]
    BY <2>1, <2>2, AppendIsMore, JiraMore
  <2> QED
    BY <1>2, <1>4, <2>2, PostDoneRun
<1>5. ASSUME NEW r \in Runs, PostUnheard(r) PROVE Stays
  <2>1. run[r].cur \in Projects /\ Object(run[r]) \in Entry
    BY <1>5, PostUnheardRun, ObjectType
  <2>2. CASE jira' = [jira EXCEPT ![run[r].cur] = @ \o <<Object(run[r]), Object(run[r])>>]
    <3>1. <<Object(run[r]), Object(run[r])>> \in Seq(Entry)
      BY <2>1
    <3> QED
      BY <2>1, <2>2, <3>1, JiraMore
  <2>3. CASE jira' = [jira EXCEPT ![run[r].cur] = Append(@, Object(run[r]))]
    BY <2>1, <2>3, AppendIsMore, JiraMore
  <2> QED
    BY <1>5, <2>2, <2>3, PostUnheardRun
<1> QED
  BY <1>1, <1>2, <1>3, <1>4, <1>5, Changes

LEMMA KeepPhase ==
  ASSUME TypeOK, BaseInv, Stays, now' >= now, TypeOK', NEW r \in Runs, run'[r] = run[r]
  PROVE  PhaseInv(r)'
<1> DEFINE q == run[r]
<1>1. IsRun(q) /\ PhaseInv(r) /\ now \in Nat /\ now' \in Nat
  BY DEF TypeOK, BaseInv
<1>2. q.start <= now'
  BY <1>1 DEF PhaseInv, IsRun
<1>3. \A p \in DOMAIN q.snap : q.snap[p].key \in {0} \union DOMAIN jira'[p]
  BY <1>1 DEF PhaseInv, Stays, IsRun
<1>4. q.at \in {"put", "write"} => q.target \in DOMAIN jira'[q.cur]
  BY <1>1 DEF PhaseInv, Stays, IsRun
<1> QED
  BY <1>1, <1>2, <1>3, <1>4 DEF PhaseInv, Keyed

LEMMA FreshPhase ==
  ASSUME TypeOK', NEW r \in Runs, run'[r].at \in {"idle", "read", "work"},
         run'[r].cur = None, run'[r].start <= now',
         run'[r].at = "idle" => DOMAIN run'[r].snap = {},
         \A p \in DOMAIN run'[r].snap : run'[r].snap[p].key \in {0} \union DOMAIN jira'[p]
  PROVE  PhaseInv(r)'
BY DEF PhaseInv

LEMMA LeavePhase ==
  ASSUME TypeOK, BaseInv, Stays, now' >= now, TypeOK', NEW r \in Runs, NEW p, Leaves(r, p)
  PROVE  PhaseInv(r)'
<1>1. \A x \in DOMAIN run'[r].snap : run'[r].snap[x].key \in {0} \union DOMAIN jira'[x]
  BY DEF BaseInv, PhaseInv, Leaves, Without, Stays, TypeOK, IsRun
<1>2. run'[r].start <= now'
  BY DEF BaseInv, PhaseInv, Leaves, TypeOK, IsRun
<1> QED
  BY <1>1, <1>2, FreshPhase DEF Leaves

LEMMA TurnPhase ==
  ASSUME TypeOK, BaseInv, Stays, now' >= now, TypeOK', NEW r \in Runs,
         NEW p \in DOMAIN run[r].snap, NEW at \in {"put", "post", "write"}, Turns(r, p, at),
         at \in {"post", "write"} => run[r].snap[p].key = 0,
         at \in {"put", "write"} => run'[r].target \in DOMAIN jira'[p],
         at = "put" /\ run[r].snap[p].key # 0 => run'[r].target = run[r].snap[p].key,
         at = "post" /\ p \in Children => run'[r].space # 0
  PROVE  PhaseInv(r)'
<1>1. \A x \in DOMAIN run'[r].snap : run'[r].snap[x].key \in {0} \union DOMAIN jira'[x]
  BY DEF BaseInv, PhaseInv, Turns, Same, Stays, TypeOK, IsRun
<1>2. run'[r].start <= now'
  BY DEF BaseInv, PhaseInv, Turns, Same, TypeOK, IsRun
<1> QED
  BY <1>1, <1>2 DEF PhaseInv, Turns, Same, Keyed

LEMMA SnapshotKeys ==
  ASSUME TypeOK, BaseInv, NEW S \in SUBSET Projects, Stays
  PROVE  \A p \in DOMAIN Snapshot(S) : Snapshot(S)[p].key \in {0} \union DOMAIN jira'[p]
BY SnapshotType DEF BaseInv, WorldInv, Stays

LEMMA PhaseStep ==
  ASSUME TypeOK, BaseInv, TypeOK', [Next]_vars, NEW r \in Runs
  PROVE  PhaseInv(r)'
<1> USE StaysStep
<1>1. CASE run'[r] = run[r]
  BY <1>1, KeepPhase
<1>2. CASE UNCHANGED run
  BY <1>1, <1>2
<1>3. ASSUME NEW cold, Begin(cold) PROVE PhaseInv(r)'
  <2>1. CASE r = "scheduled"
    <3>1. DOMAIN run'[r].snap = {} /\ run'[r].at = "read" /\ run'[r].cur = None
          /\ run'[r].start = now
      BY <1>3, <2>1, BeginRun
    <3>2. run'[r].start <= now'
      BY <3>1 DEF TypeOK
    <3> QED
      BY <3>1, <3>2, FreshPhase
  <2> QED
    BY <1>1, <1>3, <2>1, BeginRun DEF Others
<1>4. ASSUME NEW cold, NEW S \in SUBSET Projects, ByHand(S, cold) PROVE PhaseInv(r)'
  <2>1. CASE r = "manual"
    <3>1. run'[r].snap = Snapshot(S) /\ run'[r].at = "work" /\ run'[r].cur = None
          /\ run'[r].start = 0
      BY <1>4, <2>1, ByHandRun
    <3>2. run'[r].start <= now'
      BY <3>1 DEF TypeOK
    <3> QED
      BY <3>1, <3>2, FreshPhase, SnapshotKeys
  <2> QED
    BY <1>1, <1>4, <2>1, ByHandRun DEF Others
<1>5. CASE Read(r)
  <2> DEFINE S == {p \in Projects : Seen(p)}
  <2>1. S \in SUBSET Projects
    OBVIOUS
  <2> HIDE DEF S
  <2>2. run'[r].snap = Snapshot(S) /\ run'[r].at = "work" /\ run'[r].start = run[r].start
        /\ run[r].at = "read" /\ run'[r].cur = run[r].cur
    BY <1>5, ReadRun DEF S
  <2>3. run'[r].cur = None /\ run[r].start <= now
    BY <2>2 DEF BaseInv, PhaseInv
  <2>4. run'[r].start <= now'
    BY <1>5, <2>2, <2>3 DEF Read
  <2> QED
    BY <2>1, <2>2, <2>3, <2>4, FreshPhase, SnapshotKeys
<1>6. CASE PutDone(r)
  <2>1. PICK p : p = run[r].cur
    OBVIOUS
  <2>2. /\ p \in DOMAIN run[r].snap /\ p \in Projects /\ run[r].target \in DOMAIN jira[p]
        /\ \/ Leaves(r, p)
           \/ run[r].snap[p].key = 0 /\ Turns(r, p, "write") /\ run'[r].target = run[r].target
    BY <1>6, <2>1, PutDoneRun
  <2>3. run[r].target \in DOMAIN jira'[p]
    BY <2>2 DEF Stays
  <2> QED
    BY <2>2, <2>3, LeavePhase, TurnPhase
<1>7. CASE PostDone(r)
  <2>1. PICK p : p = run[r].cur
    OBVIOUS
  <2>2. /\ p \in DOMAIN run[r].snap /\ p \in Projects
        /\ \/ Leaves(r, p)
           \/ /\ run[r].snap[p].key = 0 /\ Turns(r, p, "write")
              /\ run'[r].target = Len(jira[p]) + 1
              /\ jira' = [jira EXCEPT ![p] = Append(@, Object(run[r]))]
    BY <1>7, <2>1, PostDoneRun
  <2>3. ASSUME jira' = [jira EXCEPT ![p] = Append(@, Object(run[r]))]
        PROVE  Len(jira[p]) + 1 \in DOMAIN jira'[p]
    <3>1. jira[p] \in Seq(Entry) /\ jira'[p] = Append(jira[p], Object(run[r]))
      BY <2>2, <2>3 DEF TypeOK, Entry
    <3> QED
      BY <3>1
  <2> QED
    BY <2>2, <2>3, LeavePhase, TurnPhase
<1>8. CASE PostUnheard(r)
  <2>1. PICK p : p = run[r].cur
    OBVIOUS
  <2>2. /\ p \in DOMAIN run[r].snap /\ p \in Projects
        /\ \/ Leaves(r, p)
           \/ /\ run[r].snap[p].key = 0 /\ Turns(r, p, "write")
              /\ run'[r].target = Len(jira[p]) + 2
              /\ jira' = [jira EXCEPT ![p] = @ \o <<Object(run[r]), Object(run[r])>>]
    BY <1>8, <2>1, PostUnheardRun
  <2>3. ASSUME jira' = [jira EXCEPT ![p] = @ \o <<Object(run[r]), Object(run[r])>>]
        PROVE  Len(jira[p]) + 2 \in DOMAIN jira'[p]
    <3>1. jira[p] \in Seq(Entry) /\ jira'[p] = jira[p] \o <<Object(run[r]), Object(run[r])>>
      BY <2>2, <2>3 DEF TypeOK, Entry
    <3> QED
      BY <3>1
  <2> QED
    BY <2>2, <2>3, LeavePhase, TurnPhase
<1>9. CASE WriteDone(r) \/ Fails(r)
  <2>1. \E p : Leaves(r, p)
    BY <1>9, WriteDoneRun, FailsRun
  <2> QED
    BY <2>1, LeavePhase
<1>10. CASE End(r) \/ Dies(r)
  <2>1. run'[r] = Idle
    BY <1>10, OverRun DEF Over
  <2>2. run'[r].start <= now' /\ run'[r].at = "idle" /\ run'[r].cur = None
        /\ DOMAIN run'[r].snap = {}
    BY <2>1, IdleRun DEF TypeOK
  <2> QED
    BY <2>2, FreshPhase
<1>11. ASSUME NEW p \in Projects, PickParent(r, p) PROVE PhaseInv(r)'
  <2>1. /\ p \in Parents /\ p \in DOMAIN run[r].snap
        /\ \/ Leaves(r, p)
           \/ run[r].snap[p].key = 0 /\ Turns(r, p, "post")
           \/ /\ run[r].snap[p].key # 0 /\ Turns(r, p, "put")
              /\ run'[r].target = run[r].snap[p].key
    BY <1>11, PickParentRun
  <2>2. run[r].snap[p].key # 0 => run[r].snap[p].key \in DOMAIN jira'[p]
    BY <2>1 DEF BaseInv, PhaseInv, Stays, Parents
  <2>3. p \notin Children
    BY <2>1 DEF Children
  <2> QED
    BY <2>1, <2>2, <2>3, LeavePhase, TurnPhase
<1>12. ASSUME NEW p \in Projects, PickChild(r, p) PROVE PhaseInv(r)'
  <2> DEFINE s == SpaceFor(run[r], p)
  <2>1. /\ p \in DOMAIN run[r].snap
        /\ \/ Leaves(r, p)
           \/ /\ run[r].snap[p].key = 0 /\ Turns(r, p, "post")
              /\ s # 0 /\ run'[r].space = s
           \/ /\ run[r].snap[p].key # 0 /\ Turns(r, p, "put")
              /\ run'[r].target = run[r].snap[p].key
           \/ /\ run[r].snap[p].key = 0 /\ Turns(r, p, "put")
              /\ run'[r].target \in FindEpic(p, s)
    BY <1>12, PickChildRun
  <2>2. run[r].snap[p].key # 0 => run[r].snap[p].key \in DOMAIN jira'[p]
    BY <2>1 DEF BaseInv, PhaseInv, Stays, TypeOK, IsRun
  <2>3. FindEpic(p, s) \subseteq DOMAIN jira'[p]
    BY <2>1 DEF Stays, FindEpic, TypeOK, IsRun
  <2> HIDE DEF s
  <2> QED
    BY <2>1, <2>2, <2>3, LeavePhase, TurnPhase
<1>13. ASSUME NEW o \in Runs, o # r, Others(o) PROVE PhaseInv(r)'
  BY <1>1, <1>13 DEF Others
<1>14. ASSUME NEW o \in Runs, Step(o) \/ Fails(o) \/ PostUnheard(o) \/ Dies(o)
       PROVE  Others(o)
  BY <1>14, ReadRun, PutDoneRun, PostDoneRun, WriteDoneRun, OverRun, PickParentRun,
     PickChildRun, FailsRun, PostUnheardRun DEF Step
<1>15. CASE Tick \/ Join \/ (\E p \in Projects : Edit(p)) \/ UNCHANGED vars
  BY <1>2, <1>15 DEF Tick, Join, Edit, vars
<1>16. ASSUME NEW o \in Runs, Step(o) \/ Fails(o) \/ PostUnheard(o) \/ Dies(o)
       PROVE  PhaseInv(r)'
  <2>1. CASE o = r
    BY <1>5, <1>6, <1>7, <1>8, <1>9, <1>10, <1>11, <1>12, <1>16, <2>1 DEF Step
  <2> QED
    BY <1>13, <1>14, <1>16, <2>1
<1> QED
  BY <1>3, <1>4, <1>15, <1>16 DEF Next
\* Run r makes k objects for p.
Adds(r, p, k) ==
  /\ \A x \in Projects \ {p} : jira'[x] = jira[x]
  /\ DOMAIN jira[p] = 1 .. Len(jira[p]) /\ DOMAIN jira'[p] = 1 .. Len(jira[p]) + k
  /\ Len(jira'[p]) = Len(jira[p]) + k
  /\ \A n \in DOMAIN jira[p] : jira'[p][n] = jira[p][n]
  /\ \A n \in DOMAIN jira'[p] \ DOMAIN jira[p] : jira'[p][n] = Object(run[r])

LEMMA AddsOne ==
  ASSUME TypeOK, BaseInv, NEW r \in Runs, run[r].at = "post", NEW p \in Projects,
         jira' = [jira EXCEPT ![p] = Append(@, Object(run[r]))]
  PROVE  Adds(r, p, 1)
<1> DEFINE o == Object(run[r])
<1>1. o \in Entry
  BY ObjectType
<1>2. jira[p] \in Seq(Entry) /\ DOMAIN jira[p] = 1 .. Len(jira[p]) /\ Len(jira[p]) \in Nat
  BY DEF TypeOK, Entry
<1> HIDE DEF o
<1>3. jira' = [jira EXCEPT ![p] = @ \o <<o>>] /\ <<o>> \in Seq(Entry)
  BY <1>1, AppendIsMore DEF o
<1> DEFINE t == <<o>>
<1>4. Len(t) = 1 /\ t[1] = o /\ t \in Seq(Entry) /\ jira' = [jira EXCEPT ![p] = @ \o t]
  BY <1>3
<1> HIDE DEF t
<1>6. /\ Len(jira'[p]) = Len(jira[p]) + Len(t)
      /\ DOMAIN jira'[p] = 1 .. Len(jira[p]) + Len(t)
      /\ \A n \in DOMAIN jira[p] : jira'[p][n] = jira[p][n]
      /\ \A n \in 1 .. Len(t) : jira'[p][Len(jira[p]) + n] = t[n]
      /\ \A x \in Projects \ {p} : jira'[x] = jira[x]
  BY <1>4, JiraMore
<1>5. /\ Len(jira'[p]) = Len(jira[p]) + 1
      /\ DOMAIN jira'[p] = 1 .. Len(jira[p]) + 1
      /\ \A n \in DOMAIN jira[p] : jira'[p][n] = jira[p][n]
      /\ jira'[p][Len(jira[p]) + 1] = o
      /\ \A x \in Projects \ {p} : jira'[x] = jira[x]
  BY <1>2, <1>4, <1>6
<1> QED
  BY <1>2, <1>5 DEF Adds, o

LEMMA AddsTwo ==
  ASSUME TypeOK, BaseInv, NEW r \in Runs, run[r].at = "post", NEW p \in Projects,
         jira' = [jira EXCEPT ![p] = @ \o <<Object(run[r]), Object(run[r])>>]
  PROVE  Adds(r, p, 2)
<1> DEFINE o == Object(run[r])
<1>1. o \in Entry
  BY ObjectType
<1>2. jira[p] \in Seq(Entry) /\ DOMAIN jira[p] = 1 .. Len(jira[p]) /\ Len(jira[p]) \in Nat
  BY DEF TypeOK, Entry
<1> HIDE DEF o
<1>3. jira' = [jira EXCEPT ![p] = @ \o <<o, o>>] /\ <<o, o>> \in Seq(Entry)
  BY <1>1 DEF o
<1> DEFINE t == <<o, o>>
<1>4. Len(t) = 2 /\ t[1] = o /\ t[2] = o /\ t \in Seq(Entry)
      /\ jira' = [jira EXCEPT ![p] = @ \o t]
  BY <1>3
<1> HIDE DEF t
<1>6. /\ Len(jira'[p]) = Len(jira[p]) + Len(t)
      /\ DOMAIN jira'[p] = 1 .. Len(jira[p]) + Len(t)
      /\ \A n \in DOMAIN jira[p] : jira'[p][n] = jira[p][n]
      /\ \A n \in 1 .. Len(t) : jira'[p][Len(jira[p]) + n] = t[n]
      /\ \A x \in Projects \ {p} : jira'[x] = jira[x]
  BY <1>4, JiraMore
<1>5. /\ Len(jira'[p]) = Len(jira[p]) + 2
      /\ DOMAIN jira'[p] = 1 .. Len(jira[p]) + 2
      /\ \A n \in DOMAIN jira[p] : jira'[p][n] = jira[p][n]
      /\ jira'[p][Len(jira[p]) + 1] = o /\ jira'[p][Len(jira[p]) + 2] = o
      /\ \A x \in Projects \ {p} : jira'[x] = jira[x]
  BY <1>2, <1>4, <1>6
<1> QED
  BY <1>2, <1>5 DEF Adds, o

\* What a step makes of Jira.
Makes(r, p) ==
  /\ run[r].at = "post" /\ p = run[r].cur /\ p \in Projects
  /\ p \in DOMAIN run[r].snap /\ run[r].snap[p].key = 0
  /\ \/ Adds(r, p, 1) /\ Turns(r, p, "write") /\ PostDone(r)
     \/ Adds(r, p, 1) /\ Leaves(r, p) /\ PostUnheard(r)
     \/ Adds(r, p, 2) /\ Turns(r, p, "write") /\ PostUnheard(r) /\ p \in Children

Renews(r, p) ==
  /\ PutDone(r) /\ p = run[r].cur /\ p \in Projects
  /\ \A x \in Projects : DOMAIN jira'[x] = DOMAIN jira[x] /\ Len(jira'[x]) = Len(jira[x])
  /\ \A x \in Projects : \A n \in DOMAIN jira[x] : jira'[x][n].space = jira[x][n].space
  /\ jira'[p][run[r].target].ver = run[r].snap[p].ver
  /\ \A x \in Projects : \A n \in DOMAIN jira[x] :
       x # p \/ n # run[r].target => jira'[x][n] = jira[x][n]

LEMMA JiraStep ==
  ASSUME TypeOK, BaseInv, [Next]_vars
  PROVE  \/ UNCHANGED jira
         \/ \E r \in Runs : \E p : Makes(r, p) \/ Renews(r, p)
<1>1. ASSUME NEW r \in Runs, PutDone(r) PROVE \E p : Renews(r, p)
  <2>1. run[r].at \in {"put", "post", "write"}
    BY <1>1 DEF PutDone
  <2>2. PICK p \in Projects : p = run[r].cur
    BY <2>1, AtWork
  <2>3. run[r].snap[p].ver \in Nat
    BY <2>1, <2>2, AtWork
  <2>4. /\ run[r].target \in DOMAIN jira[p]
        /\ jira' = [jira EXCEPT ![p][run[r].target].ver = run[r].snap[p].ver]
    BY <1>1, <2>2, PutDoneRun
  <2>5. /\ Stays
        /\ \A x \in Projects : DOMAIN jira'[x] = DOMAIN jira[x] /\ Len(jira'[x]) = Len(jira[x])
        /\ jira'[p][run[r].target].ver = run[r].snap[p].ver
        /\ \A x \in Projects : \A n \in DOMAIN jira[x] :
             x # p \/ n # run[r].target => jira'[x][n] = jira[x][n]
    <3> DEFINE m == run[r].target
               v == run[r].snap[p].ver
    <3>1. m \in DOMAIN jira[p] /\ v \in Nat /\ jira' = [jira EXCEPT ![p][m].ver = v]
      BY <2>3, <2>4
    <3> HIDE DEF m, v
    <3>2. /\ Stays
          /\ \A x \in Projects : DOMAIN jira'[x] = DOMAIN jira[x] /\ Len(jira'[x]) = Len(jira[x])
          /\ jira'[p][m].ver = v
          /\ \A x \in Projects : \A n \in DOMAIN jira[x] :
               x # p \/ n # m => jira'[x][n] = jira[x][n]
      BY <3>1, JiraPut
    <3> QED
      BY <3>2 DEF m, v
  <2> QED
    BY <1>1, <2>2, <2>5 DEF Renews, Stays
<1>2. ASSUME NEW r \in Runs, PostDone(r) PROVE UNCHANGED jira \/ \E p : Makes(r, p)
  <2>1. PICK p : p = run[r].cur
    OBVIOUS
  <2>2. /\ p \in DOMAIN run[r].snap /\ p \in Projects
        /\ run[r].at = "post" /\ run[r].snap[p].key = 0
    BY <1>2, <2>1, PostDoneRun
  <2>3. \/ UNCHANGED jira
        \/ /\ jira' = [jira EXCEPT ![p] = Append(@, Object(run[r]))]
           /\ Turns(r, p, "write")
    BY <1>2, <2>1, PostDoneRun
  <2>4. ASSUME jira' = [jira EXCEPT ![p] = Append(@, Object(run[r]))]
        PROVE  Adds(r, p, 1)
    BY <2>2, <2>4, AddsOne
  <2>5. CASE jira' = [jira EXCEPT ![p] = Append(@, Object(run[r]))] /\ Turns(r, p, "write")
    <3>1. Makes(r, p)
      BY <1>2, <2>1, <2>2, <2>4, <2>5 DEF Makes
    <3> QED
      BY <3>1
  <2> QED
    BY <2>3, <2>5
<1>3. ASSUME NEW r \in Runs, PostUnheard(r) PROVE \E p : Makes(r, p)
  <2>1. PICK p : p = run[r].cur
    OBVIOUS
  <2> QED
    BY <1>3, <2>1, PostUnheardRun, AddsOne, AddsTwo DEF Makes
<1> QED
  BY <1>1, <1>2, <1>3, Changes

LEMMA WorldStep ==
  ASSUME TypeOK, BaseInv, TypeOK', [Next]_vars
  PROVE  WorldInv'
<1>1. \A p \in Projects : key'[p] \in {0} \union DOMAIN jira'[p]
  <2>1. CASE UNCHANGED key
    BY <2>1, StaysStep DEF BaseInv, WorldInv, Stays
  <2>2. ASSUME NEW r \in Runs, WriteDone(r)
        PROVE  \A p \in Projects : key'[p] \in {0} \union DOMAIN jira'[p]
    <3>1. run[r].cur \in Projects /\ run[r].target \in DOMAIN jira[run[r].cur]
      BY <2>2, WriteDoneRun
    <3>2. key' = [key EXCEPT ![run[r].cur] = run[r].target] /\ UNCHANGED jira
      BY <2>2 DEF WriteDone
    <3> QED
      BY <3>1, <3>2 DEF BaseInv, WorldInv, TypeOK
  <2> QED
    BY <2>1, <2>2, Changes
<1>2. \A c \in Children : \A n \in DOMAIN jira'[c] : jira'[c][n].space # 0
  <2>1. \A c \in Children : c \in Projects
    BY DEF Children
  <2>2. CASE UNCHANGED jira
    BY <2>2 DEF BaseInv, WorldInv
  <2>3. ASSUME NEW r \in Runs, NEW p, Renews(r, p)
        PROVE  \A c \in Children : \A n \in DOMAIN jira'[c] : jira'[c][n].space # 0
    BY <2>1, <2>3 DEF BaseInv, WorldInv, Renews
  <2>4. ASSUME NEW r \in Runs, NEW p, Makes(r, p)
        PROVE  \A c \in Children : \A n \in DOMAIN jira'[c] : jira'[c][n].space # 0
    <3>1. p \in Children => Object(run[r]).space # 0
      BY <2>4, ObjectType DEF Makes, BaseInv, PhaseInv
    <3>2. \E k : Adds(r, p, k)
      BY <2>4 DEF Makes
    <3> QED
      BY <2>1, <3>1, <3>2 DEF BaseInv, WorldInv, Adds
  <2> QED
    BY <2>2, <2>3, <2>4, JiraStep
<1>3. watermark' # None => watermark' <= now'
  <2>1. CASE UNCHANGED watermark
    BY <2>1, StaysStep DEF BaseInv, WorldInv, TypeOK
  <2>2. ASSUME NEW r \in Runs, End(r) PROVE watermark' # None => watermark' <= now'
    <3>1. run[r].start <= now
      BY DEF BaseInv, PhaseInv
    <3> QED
      BY <2>2, <3>1 DEF End, BaseInv, WorldInv
  <2> QED
    BY <2>1, <2>2, Changes
<1>4. (\A r \in Runs : Busy(r))' => overlaps' > 0
  <2>1. CASE UNCHANGED <<run, overlaps>>
    BY <2>1 DEF BaseInv, WorldInv, Busy
  <2>2. ASSUME NEW cold, Begin(cold) \/ \E S \in SUBSET Projects : ByHand(S, cold)
        PROVE  (\A r \in Runs : Busy(r))' => overlaps' > 0
    <3>1. /\ Invoked(cold)
          /\ \E r \in Runs : Others(r) /\ run[r].at = "idle"
      BY <2>2, BeginRun, ByHandRun DEF Begin, ByHand, Runs
    <3>2. PICK r \in Runs : Others(r) /\ run[r].at = "idle"
      BY <3>1
    <3>3. PICK o \in Runs : o # r /\ \A x \in Runs : x = r \/ x = o
      BY DEF Runs
    <3>4. CASE run'[o].at = "idle"
      BY <3>3, <3>4 DEF Busy
    <3>5. CASE run'[o].at # "idle"
      <4>1. run[o].at # "idle"
        BY <3>2, <3>3, <3>5 DEF Others
      <4>2. overlaps' = overlaps + 1
        BY <3>1, <4>1 DEF Invoked, Busy
      <4> QED
        BY <4>2 DEF TypeOK
    <3> QED
      BY <3>4, <3>5
  <2>3. ASSUME NEW r \in Runs, Step(r) \/ Fails(r) \/ PostUnheard(r) \/ Dies(r)
        PROVE  (\A x \in Runs : Busy(x))' => overlaps' > 0
    <3>1. run[r].at # "idle"
      <4>1. CASE Fails(r)
        BY <4>1 DEF Fails, BaseInv, PhaseInv
      <4> QED
        BY <2>3, <4>1 DEF Step, Read, PutDone, PostDone, WriteDone, End, PickParent,
           PickChild, Turn, PostUnheard, Dies, Busy
    <3>2. UNCHANGED overlaps
      BY <2>3 DEF Step, Read, PutDone, PostDone, WriteDone, End, PickParent,
         PickChild, PostUnheard, Dies, Fails, ghosts
    <3>3. Others(r)
      BY <2>3, ReadRun, PutDoneRun, PostDoneRun, WriteDoneRun, OverRun, PickParentRun,
         PickChildRun, FailsRun, PostUnheardRun DEF Step
    <3>4. \A x \in Runs : run'[x].at # "idle" => run[x].at # "idle"
      BY <3>1, <3>3 DEF Others
    <3> QED
      BY <3>2, <3>4 DEF BaseInv, WorldInv, Busy
  <2>4. CASE Tick \/ Join \/ (\E p \in Projects : Edit(p)) \/ UNCHANGED vars
    BY <2>1, <2>4 DEF Tick, Join, Edit, vars, ghosts
  <2> QED
    BY <2>2, <2>3, <2>4 DEF Next
<1> QED
  BY <1>1, <1>2, <1>3, <1>4 DEF WorldInv

LEMMA BaseStep ==
  ASSUME TypeOK, BaseInv, [Next]_vars
  PROVE  TypeOK' /\ BaseInv'
<1>1. TypeOK'
  BY TypeStep
<1>2. \A r \in Runs : PhaseInv(r)'
  BY <1>1, PhaseStep
<1>3. WorldInv'
  BY <1>1, WorldStep
<1> QED
  BY <1>1, <1>2, <1>3 DEF BaseInv

LEMMA BaseInit ==
  ASSUME Init
  PROVE  TypeOK /\ BaseInv
<1>1. \A r \in Runs : run[r] = Idle
  BY DEF Init
<1>2. \A r \in Runs : IsRun(run[r]) /\ PhaseInv(r)
  BY <1>1, IdleRun DEF PhaseInv, Init
<1>3. TypeOK
  <2>1. jira \in [Projects -> Seq([ver : Nat, space : Nat])]
    BY DEF Init
  <2>2. run = [r \in Runs |-> run[r]]
    BY DEF Init
  <2>3. /\ now \in Nat /\ ver \in [Projects -> Nat] /\ active \in [Projects -> BOOLEAN]
        /\ updated \in [Projects -> Int] /\ key \in [Projects -> Nat]
    BY DEF Init
  <2>4. /\ watermark \in {None} \union Nat /\ cache \in {"none", "no", "yes"}
        /\ skipped \subseteq Children /\ aged \subseteq Projects
        /\ faults \in Nat /\ repeats \in Nat /\ overlaps \in Nat
        /\ leads \in BOOLEAN /\ sppId \in BOOLEAN
    BY DEF Init
  <2> QED
    BY <1>2, <2>1, <2>2, <2>3, <2>4 DEF TypeOK
<1>4. WorldInv
  BY <1>1, IdleRun DEF WorldInv, Init, Busy, Runs, Children
<1> QED
  BY <1>2, <1>3, <1>4 DEF BaseInv

\* In every reachable state of the sync each variable has its type.
THEOREM TypeCorrect == Spec => []TypeOK
<1>1. Init => TypeOK /\ BaseInv
  BY BaseInit
<1>2. TypeOK /\ BaseInv /\ [Next]_vars => (TypeOK /\ BaseInv)'
  BY BaseStep
<1> QED
  BY <1>1, <1>2, PTL DEF Spec

-----------------------------------------------------------------------------
(* A second epic in the same space is paid for by a repeat or an overlap.   *)

\* Epics of c in space s, and runs that are about to make one.
InSpace(c, s) == {n \in DOMAIN jira[c] : jira[c][n].space = s}
Posting(r, c, s) ==
  IF run[r].at = "post" /\ run[r].cur = c /\ run[r].space = s THEN 1 ELSE 0

EpicsInv ==
  sppId => \A c \in Children, s \in Nat :
    Cardinality(InSpace(c, s)) + Posting("scheduled", c, s) + Posting("manual", c, s)
      <= 1 + repeats + overlaps

LEMMA SppIdStays ==
  ASSUME [Next]_vars
  PROVE  sppId' = sppId
<1> USE DEF site
<1>1. CASE UNCHANGED vars
  BY <1>1 DEF vars
<1>2. CASE Tick \/ Join \/ (\E p \in Projects : Edit(p))
  BY <1>2 DEF Tick, Join, Edit
<1>3. CASE \E cold \in BOOLEAN : Begin(cold) \/ \E S \in SUBSET Projects \ {{}} : ByHand(S, cold)
  BY <1>3 DEF Begin, ByHand
<1>4. CASE \E r \in Runs : Step(r) \/ Fails(r) \/ PostUnheard(r) \/ Dies(r)
  BY <1>4 DEF Step, Read, PutDone, PostDone, WriteDone, End, PickParent, PickChild, Fails,
     PostUnheard, Dies
<1> QED
  BY <1>1, <1>2, <1>3, <1>4 DEF Next

\* x is about to make an object for p, which it has just turned to.
NowPosts(x, p) ==
  /\ Turns(x, p, "post") /\ Others(x) /\ run[x].at = "work" /\ UNCHANGED jira
  /\ p \in Projects /\ p \in DOMAIN run[x].snap /\ run[x].snap[p].key = 0
  /\ \/ p \in Parents
     \/ /\ p \in Children /\ FindEpic(p, run'[x].space) = {}
        /\ run'[x].space = SpaceFor(run[x], p)

LEMMA NewPost ==
  ASSUME TypeOK, BaseInv, [Next]_vars, NEW x \in Runs, run'[x].at = "post"
  PROVE  run'[x] = run[x] \/ \E p : NowPosts(x, p)
<1> DEFINE Goal == run'[x] = run[x] \/ \E p : NowPosts(x, p)
<1>1. CASE Tick \/ Join \/ (\E p \in Projects : Edit(p)) \/ UNCHANGED vars
  BY <1>1 DEF Tick, Join, Edit, vars
<1>2. ASSUME NEW cold, Begin(cold) \/ \E S \in SUBSET Projects : ByHand(S, cold)
      PROVE  Goal
  BY <1>2, BeginRun, ByHandRun DEF Others
<1>3. ASSUME NEW r \in Runs, Read(r) \/ WriteDone(r) \/ End(r) \/ Fails(r) \/ Dies(r)
      PROVE  Goal
  BY <1>3, ReadRun, WriteDoneRun, OverRun, FailsRun, IdleRun DEF Others, Over, Leaves
<1>4. ASSUME NEW r \in Runs, PutDone(r) \/ PostDone(r) \/ PostUnheard(r)
      PROVE  Goal
  BY <1>4, PutDoneRun, PostDoneRun, PostUnheardRun DEF Others, Leaves, Turns
<1>5. ASSUME NEW r \in Runs, NEW p \in Projects, PickParent(r, p) PROVE Goal
  <2>1. UNCHANGED jira
    BY <1>5 DEF PickParent
  <2> QED
    BY <1>5, <2>1, PickParentRun DEF Others, Leaves, Turns, NowPosts
<1>6. ASSUME NEW r \in Runs, NEW p \in Projects, PickChild(r, p) PROVE Goal
  <2>1. UNCHANGED jira
    BY <1>6 DEF PickChild
  <2> QED
    BY <1>6, <2>1, PickChildRun DEF Others, Leaves, Turns, NowPosts
<1> QED
  BY <1>1, <1>2, <1>3, <1>4, <1>5, <1>6 DEF Next, Step

LEMMA Counters ==
  ASSUME TypeOK, [Next]_vars
  PROVE  /\ repeats' >= repeats /\ overlaps' >= overlaps /\ faults' >= faults
         /\ \A r \in Runs : PostUnheard(r) => /\ repeats' = repeats + 1
                                              /\ faults' = faults + 1
<1> USE DEF sppVars, ghosts
<1>0. repeats \in Nat /\ overlaps \in Nat /\ faults \in Nat
  BY DEF TypeOK
<1>1. \A r \in Runs : PostUnheard(r) => /\ repeats' = repeats + 1 /\ faults' = faults + 1
                                        /\ overlaps' = overlaps
  BY DEF PostUnheard, Fault
<1>2. CASE Tick \/ Join \/ (\E p \in Projects : Edit(p)) \/ UNCHANGED vars
  BY <1>0, <1>1, <1>2 DEF Tick, Join, Edit, vars
<1>3. ASSUME NEW cold, Begin(cold) \/ \E S \in SUBSET Projects : ByHand(S, cold)
      PROVE  repeats' >= repeats /\ overlaps' >= overlaps /\ faults' >= faults
  <2>1. Invoked(cold) /\ UNCHANGED repeats
    BY <1>3 DEF Begin, ByHand
  <2> QED
    BY <1>0, <2>1, InvokedType
<1>4. ASSUME NEW r \in Runs, Step(r)
      PROVE  UNCHANGED <<repeats, overlaps, faults>>
  BY <1>4 DEF Step, Read, PutDone, PostDone, WriteDone, End, PickParent, PickChild
<1>5. ASSUME NEW r \in Runs, Fails(r) \/ Dies(r)
      PROVE  repeats' >= repeats /\ overlaps' >= overlaps /\ faults' >= faults
  BY <1>0, <1>5 DEF Fails, Dies, Fault
<1>6. ASSUME NEW r \in Runs, PostUnheard(r)
      PROVE  repeats' >= repeats /\ overlaps' >= overlaps /\ faults' >= faults
  BY <1>0, <1>1, <1>6
<1>7. repeats' >= repeats /\ overlaps' >= overlaps /\ faults' >= faults
  BY <1>0, <1>2, <1>3, <1>4, <1>5, <1>6 DEF Next
<1> QED
  BY <1>1, <1>7

LEMMA EpicsFinite ==
  ASSUME TypeOK, NEW c \in Children, NEW s
  PROVE  IsFiniteSet(InSpace(c, s)) /\ Cardinality(InSpace(c, s)) \in Nat
<1>1. jira[c] \in Seq(Entry)
  BY DEF TypeOK, Children, Entry
<1>2. InSpace(c, s) \subseteq 1 .. Len(jira[c]) /\ Len(jira[c]) \in Nat
  BY <1>1 DEF InSpace
<1>3. IsFiniteSet(1 .. Len(jira[c]))
  BY <1>2, FS_Interval
<1> QED
  BY <1>2, <1>3, FS_Subset, FS_CardinalityType

\* How the epics of c in a space grow, and what is done to it by whom.
LEMMA EpicsGrow ==
  ASSUME TypeOK, BaseInv, NEW c \in Children, NEW s \in Nat, NEW r \in Runs,
         NEW p, Makes(r, p)
  PROVE  \/ InSpace(c, s)' = InSpace(c, s)
         \/ /\ p = c /\ run[r].space = s
            /\ \/ /\ Adds(r, p, 1)
                  /\ Cardinality(InSpace(c, s)') = Cardinality(InSpace(c, s)) + 1
               \/ /\ PostUnheard(r)
                  /\ Cardinality(InSpace(c, s)') = Cardinality(InSpace(c, s)) + 2
<1> DEFINE I == InSpace(c, s)
           l == Len(jira[c])
<1>1. IsFiniteSet(I) /\ Cardinality(I) \in Nat
  BY EpicsFinite
<1>2. c \in Projects
  BY DEF Children
<1>3. CASE p # c
  <2>1. jira'[c] = jira[c]
    BY <1>2, <1>3 DEF Makes, Adds
  <2> QED
    BY <2>1 DEF InSpace
<1>4. CASE p = c
  <2>1. Object(run[r]).space = run[r].space
    BY <1>4, ObjectType DEF Makes
  <2>2. l \in Nat /\ DOMAIN jira[c] = 1 .. l
    BY <1>2 DEF TypeOK
  <2>3. PICK k \in {1, 2} : Adds(r, c, k) /\ (k = 2 => PostUnheard(r))
    BY <1>4 DEF Makes
  <2>4. /\ DOMAIN jira'[c] = 1 .. l + k
        /\ \A n \in 1 .. l : jira'[c][n].space = jira[c][n].space
        /\ \A n \in (1 .. l + k) \ (1 .. l) : jira'[c][n].space = run[r].space
    BY <2>1, <2>2, <2>3 DEF Adds
  <2>5. CASE run[r].space # s
    BY <2>2, <2>4, <2>5 DEF InSpace
  <2>6. CASE run[r].space = s
    <3>1. InSpace(c, s)' = I \union ((1 .. l + k) \ (1 .. l))
      BY <2>2, <2>4, <2>6 DEF InSpace
    <3>2. l + 1 \notin I /\ l + 2 \notin I
      BY <2>2 DEF InSpace
    <3> DEFINE J == I \union {l + 1}
    <3>3. IsFiniteSet(J) /\ Cardinality(J) = Cardinality(I) + 1
      BY <1>1, <3>2, FS_AddElement
    <3>4. CASE k = 1
      <4>1. InSpace(c, s)' = J
        BY <2>2, <3>1, <3>4
      <4> QED
        BY <1>4, <2>3, <2>6, <3>3, <3>4, <4>1
    <3>5. CASE k = 2
      <4>1. InSpace(c, s)' = J \union {l + 2}
        BY <2>2, <3>1, <3>5
      <4>2. l + 2 \notin J
        BY <2>2, <3>2
      <4> HIDE DEF J
      <4>3. Cardinality(J \union {l + 2}) = Cardinality(J) + 1
        BY <3>3, <4>2, FS_AddElement
      <4>4. Cardinality(InSpace(c, s)') = Cardinality(I) + 2
        BY <1>1, <3>3, <4>1, <4>3
      <4> QED
        BY <1>4, <2>3, <2>6, <3>5, <4>4
    <3> QED
      BY <3>4, <3>5
  <2> QED
    BY <2>5, <2>6
<1> QED
  BY <1>3, <1>4

LEMMA EpicsStep ==
  ASSUME TypeOK, BaseInv, EpicsInv, [Next]_vars
  PROVE  EpicsInv'
<1> SUFFICES ASSUME sppId, NEW c \in Children, NEW s \in Nat
             PROVE  Cardinality(InSpace(c, s)') + Posting("scheduled", c, s)'
                      + Posting("manual", c, s)' <= 1 + repeats' + overlaps'
  BY SppIdStays DEF EpicsInv
<1> DEFINE n == Cardinality(InSpace(c, s))
           n2 == Cardinality(InSpace(c, s)')
           P(x) == Posting(x, c, s)
           Q(x) == Posting(x, c, s)'
<1>1. /\ repeats \in Nat /\ overlaps \in Nat
      /\ repeats' \in Int /\ overlaps' \in Int
      /\ repeats' >= repeats /\ overlaps' >= overlaps
  BY TypeStep, Counters DEF TypeOK
<1>2. n \in Nat
  BY EpicsFinite
<1>3. n + P("scheduled") + P("manual") <= 1 + repeats + overlaps
  BY DEF EpicsInv
<1>4. /\ \A x : P(x) \in {0, 1} /\ Q(x) \in {0, 1}
      /\ \A x : P(x) = 1 <=> run[x].at = "post" /\ run[x].cur = c /\ run[x].space = s
      /\ \A x : Q(x) = 1 <=> run'[x].at = "post" /\ run'[x].cur = c /\ run'[x].space = s
  BY DEF Posting
<1>5. CASE \E x \in Runs : NowPosts(x, c) /\ run'[x].space = s
  <2>1. PICK x \in Runs : NowPosts(x, c) /\ run'[x].space = s
    BY <1>5
  <2>2. InSpace(c, s)' = {}
    BY <2>1 DEF NowPosts, InSpace, FindEpic, Children
  <2>3. n2 = 0
    BY <2>2, FS_EmptySet
  <2>4. PICK o \in Runs : o # x /\ \A y \in Runs : y = x \/ y = o
    BY DEF Runs
  <2>5. Q(o) = P(o)
    <3>1. run'[o] = run[o]
      BY <2>1, <2>4 DEF NowPosts, Others
    <3> QED
      BY <3>1 DEF Posting
  <2>6. P(o) = 1 => overlaps > 0
    <3>1. ASSUME P(o) = 1 PROVE \A y \in Runs : Busy(y)
      BY <1>4, <2>1, <2>4, <3>1 DEF NowPosts, Busy
    <3> QED
      BY <3>1 DEF BaseInv, WorldInv
  <2>7. Q("scheduled") + Q("manual") <= 1 + overlaps
    <3>1. Q(x) <= 1 /\ Q(o) <= overlaps
      BY <1>1, <1>4, <2>5, <2>6
    <3> HIDE DEF P
    <3>2. \/ x = "scheduled" /\ o = "manual"
          \/ x = "manual" /\ o = "scheduled"
      BY <2>1, <2>4 DEF Runs
    <3> HIDE DEF Q
    <3> QED
      BY <1>1, <1>4, <3>1, <3>2
  <2> HIDE DEF n, n2, P, Q
  <2> QED
    BY <1>1, <1>4, <2>3, <2>7 DEF n2, Q
<1>6. CASE ~\E x \in Runs : NowPosts(x, c) /\ run'[x].space = s
  <2>1. \A x \in Runs : Q(x) <= P(x)
    <3> SUFFICES ASSUME NEW x \in Runs, Q(x) = 1 PROVE P(x) = 1
      BY <1>4
    <3>1. run'[x].at = "post" /\ run'[x].cur = c /\ run'[x].space = s
      BY <1>4
    <3>2. run'[x] = run[x] \/ \E p : NowPosts(x, p)
      BY <3>1, NewPost
    <3>3. ASSUME NEW p, NowPosts(x, p) PROVE FALSE
      <4>1. p = c
        BY <3>1, <3>3 DEF NowPosts, Turns
      <4> QED
        BY <1>6, <3>1, <3>3, <4>1
    <3> QED
      BY <1>4, <3>1, <3>2, <3>3
  <2>2. CASE InSpace(c, s)' = InSpace(c, s)
    <3>1. n2 = n
      BY <2>2
    <3>2. Q("scheduled") <= P("scheduled") /\ Q("manual") <= P("manual")
      BY <2>1 DEF Runs
    <3> HIDE DEF n, n2, P, Q
    <3>3. n2 + Q("scheduled") + Q("manual") <= 1 + repeats' + overlaps'
      BY <1>1, <1>2, <1>3, <1>4, <3>1, <3>2
    <3> QED
      BY <3>3 DEF n2, Q
  <2>3. ASSUME NEW r \in Runs, NEW p, Makes(r, p), InSpace(c, s)' # InSpace(c, s)
        PROVE  n2 + Q("scheduled") + Q("manual") <= 1 + repeats' + overlaps'
    <3>1. /\ p = c /\ run[r].space = s
          /\ \/ n2 = n + 1
             \/ n2 = n + 2 /\ PostUnheard(r)
      BY <2>3, EpicsGrow
    <3>2. run[r].at = "post" /\ run[r].cur = c /\ run'[r].at # "post"
      BY <2>3, <3>1 DEF Makes, Turns, Leaves
    <3>3. P(r) = 1 /\ Q(r) = 0
      BY <1>4, <3>1, <3>2
    <3>4. n2 = n + 2 => repeats' = repeats + 1
      BY <1>2, <3>1, Counters
    <3>5. PICK o \in Runs : o # r /\ \A y \in Runs : y = r \/ y = o
      BY DEF Runs
    <3>6. \/ r = "scheduled" /\ o = "manual"
          \/ r = "manual" /\ o = "scheduled"
      <4> HIDE DEF P, Q, n, n2
      <4> QED
        BY <2>3, <3>5 DEF Runs
    <3>7. Q(o) <= P(o)
      BY <2>1
    <3>8. n2 = n + 1 \/ n2 = n + 2
      BY <3>1
    <3> HIDE DEF n, n2, P, Q
    <3>9. n + P(r) + P(o) <= 1 + repeats + overlaps
      BY <1>2, <1>3, <1>4, <3>6
    <3>10. n2 + Q(r) + Q(o) <= 1 + repeats' + overlaps'
      BY <1>1, <1>2, <1>4, <3>3, <3>4, <3>7, <3>8, <3>9
    <3>11. n2 \in Int
      BY <1>2, <3>8
    <3> QED
      BY <1>4, <3>6, <3>10, <3>11
  <2>4. CASE UNCHANGED jira \/ \E r \in Runs : \E p : Renews(r, p)
    <3>1. InSpace(c, s)' = InSpace(c, s)
      BY <2>4 DEF InSpace, Renews, Children
    <3> QED
      BY <2>2, <3>1
  <2> QED
    BY <2>2, <2>3, <2>4, JiraStep
<1> QED
  BY <1>5, <1>6

-----------------------------------------------------------------------------
(* A second space for a parent, or epic for a child, is paid for by a fault. *)

\* Runs that are about to write back the key of the object they have for p, and
\* runs that may still make one because they have read p without a key.
Writing(r, p) == IF run[r].at = "write" /\ run[r].cur = p THEN 1 ELSE 0
MayPost(r, p) ==
  IF /\ p \in DOMAIN run[r].snap /\ run[r].snap[p].key = 0
     /\ ~(run[r].at = "write" /\ run[r].cur = p)
  THEN 1 ELSE 0
Overlap == IF \A r \in Runs : Busy(r) THEN 1 ELSE 0

SpacesInv ==
  \A p \in Projects :
    /\ key[p] = 0 => Len(jira[p]) + Overlap
                       <= faults + Writing("scheduled", p) + Writing("manual", p)
    /\ key[p] # 0 => Len(jira[p]) + MayPost("scheduled", p) + MayPost("manual", p)
                       <= 1 + faults

\* What a step makes of what run x has read.
LEMMA SnapStep ==
  ASSUME TypeOK, BaseInv, [Next]_vars, NEW x \in Runs
  PROVE  \/ run'[x] = run[x]
         \/ \E S \in SUBSET Projects : run'[x].snap = Snapshot(S) /\ UNCHANGED <<ver, key>>
         \/ DOMAIN run'[x].snap = {}
         \/ \E p : Leaves(x, p) /\ (run[x].at = "write" => p = run[x].cur)
         \/ \E p, at : Turns(x, p, at) /\ run[x].at # "write"
<1> DEFINE Goal == \/ run'[x] = run[x]
                   \/ \E S \in SUBSET Projects :
                        run'[x].snap = Snapshot(S) /\ UNCHANGED <<ver, key>>
                   \/ DOMAIN run'[x].snap = {}
                   \/ \E p : Leaves(x, p) /\ (run[x].at = "write" => p = run[x].cur)
                   \/ \E p, at : Turns(x, p, at) /\ run[x].at # "write"
<1>1. CASE Tick \/ Join \/ (\E p \in Projects : Edit(p)) \/ UNCHANGED vars
  BY <1>1 DEF Tick, Join, Edit, vars
<1>2. ASSUME NEW cold, Begin(cold) \/ \E S \in SUBSET Projects : ByHand(S, cold)
      PROVE  Goal
  BY <1>2, BeginRun, ByHandRun DEF Others, ByHand, sppVars
<1>3. ASSUME NEW r \in Runs, Read(r) PROVE Goal
  <2>1. {p \in Projects : Seen(p)} \in SUBSET Projects
    OBVIOUS
  <2> QED
    BY <1>3, <2>1, ReadRun DEF Others, Read, sppVars
<1>4. ASSUME NEW r \in Runs, WriteDone(r) \/ End(r) \/ Fails(r) \/ Dies(r) PROVE Goal
  BY <1>4, WriteDoneRun, OverRun, FailsRun, IdleRun DEF Others, Over
<1>5. ASSUME NEW r \in Runs, PutDone(r) \/ PostDone(r) \/ PostUnheard(r)
      PROVE  Goal
  BY <1>5, PutDoneRun, PostDoneRun, PostUnheardRun DEF Others
<1>6. ASSUME NEW r \in Runs, NEW p \in Projects, PickParent(r, p) PROVE Goal
  BY <1>6, PickParentRun DEF Others
<1>7. ASSUME NEW r \in Runs, NEW p \in Projects, PickChild(r, p) PROVE Goal
  BY <1>7, PickChildRun DEF Others
<1> QED
  BY <1>1, <1>2, <1>3, <1>4, <1>5, <1>6, <1>7 DEF Next, Step

LEMMA MayPostFalls ==
  ASSUME TypeOK, BaseInv, [Next]_vars, NEW x \in Runs, NEW p \in Projects, key[p] # 0
  PROVE  MayPost(x, p)' <= MayPost(x, p)
<1>1. CASE run'[x] = run[x]
  BY <1>1 DEF MayPost
<1>2. ASSUME NEW S \in SUBSET Projects, run'[x].snap = Snapshot(S)
      PROVE  MayPost(x, p)' = 0
  <2> DEFINE n == Snapshot(S)
  <2>2. \A q \in DOMAIN n : n[q].key = key[q]
    BY SnapshotType
  <2> HIDE DEF n
  <2>1. p \in DOMAIN run'[x].snap => run'[x].snap[p].key = key[p]
    BY <1>2, <2>2 DEF n
  <2> QED
    BY <2>1 DEF MayPost
<1>3. CASE DOMAIN run'[x].snap = {}
  BY <1>3 DEF MayPost
<1>4. ASSUME NEW q, Leaves(x, q), run[x].at = "write" => q = run[x].cur
      PROVE  MayPost(x, p)' <= MayPost(x, p)
  <2> SUFFICES ASSUME MayPost(x, p)' # 0 PROVE MayPost(x, p) = 1
    BY DEF MayPost
  <2>1. p \in DOMAIN run'[x].snap /\ run'[x].snap[p].key = 0
    BY DEF MayPost
  <2>2. p \in DOMAIN run[x].snap /\ run[x].snap[p].key = 0 /\ p # q
    BY <1>4, <2>1 DEF Leaves, Without
  <2> QED
    BY <1>4, <2>2 DEF MayPost
<1>5. ASSUME NEW q, NEW at, Turns(x, q, at), run[x].at # "write"
      PROVE  MayPost(x, p)' <= MayPost(x, p)
  BY <1>5 DEF Turns, Same, MayPost
<1> QED
  BY <1>1, <1>2, <1>3, <1>4, <1>5, SnapStep DEF MayPost

LEMMA WritingStays ==
  ASSUME TypeOK, BaseInv, [Next]_vars, NEW x \in Runs, run[x].at = "write"
  PROVE  \/ run'[x] = run[x]
         \/ WriteDone(x)
         \/ (Others(x) /\ faults' = faults + 1)
<1>1. CASE Tick \/ Join \/ (\E p \in Projects : Edit(p)) \/ UNCHANGED vars
  BY <1>1 DEF Tick, Join, Edit, vars
<1>2. ASSUME NEW cold, Begin(cold) \/ \E S \in SUBSET Projects : ByHand(S, cold)
      PROVE  run'[x] = run[x]
  BY <1>2, BeginRun, ByHandRun DEF Others
<1>3. ASSUME NEW r \in Runs, Step(r) \/ PostUnheard(r), ~WriteDone(x)
      PROVE  run'[x] = run[x]
  <2>1. CASE r = x
    BY <1>3, <2>1 DEF Step, Read, PutDone, PostDone, End, PickParent, PickChild, Turn, PostUnheard
  <2>2. CASE r # x
    <3>1. Others(r)
      BY <1>3, ReadRun, PutDoneRun, PostDoneRun, WriteDoneRun, OverRun, PickParentRun,
         PickChildRun, PostUnheardRun DEF Step
    <3> QED
      BY <2>2, <3>1 DEF Others
  <2> QED
    BY <2>1, <2>2
<1>4. ASSUME NEW r \in Runs, Fails(r) \/ Dies(r)
      PROVE  run'[x] = run[x] \/ (Others(x) /\ faults' = faults + 1)
  <2>1. Others(r) /\ faults' = faults + 1
    BY <1>4, FailsRun, OverRun DEF Fails, Dies, Fault
  <2> QED
    BY <2>1 DEF Others
<1> QED
  BY <1>1, <1>2, <1>3, <1>4 DEF Next

LEMMA OverlapStep ==
  ASSUME TypeOK, BaseInv, [Next]_vars
  PROVE  /\ \A r \in Runs : Busy(r) /\ Others(r) => Overlap' <= Overlap
         /\ Overlap' <= Overlap \/ (Overlap' = Overlap + 1 /\ faults' = faults + 1)
<1>1. ASSUME NEW r \in Runs, Busy(r), Others(r) PROVE Overlap' <= Overlap
  <2> SUFFICES ASSUME (\A x \in Runs : Busy(x))' PROVE \A x \in Runs : Busy(x)
    BY DEF Overlap
  <2> QED
    BY <1>1 DEF Others, Busy
<1>2. ASSUME UNCHANGED run PROVE Overlap' <= Overlap
  BY <1>2 DEF Overlap, Busy
<1>3. ASSUME Tick \/ Join \/ (\E p \in Projects : Edit(p)) \/ UNCHANGED vars
      PROVE  Overlap' <= Overlap
  BY <1>2, <1>3 DEF Tick, Join, Edit, vars
<1>4. ASSUME NEW cold, Begin(cold) \/ \E S \in SUBSET Projects : ByHand(S, cold),
             ~(Overlap' <= Overlap)
      PROVE  Overlap' = Overlap + 1 /\ faults' = faults + 1
  <2>1. (\A x \in Runs : Busy(x))' /\ Overlap = 0 /\ Overlap' = 1
    BY <1>4 DEF Overlap
  <2>2. \E r \in Runs : Others(r) /\ run[r].at = "idle"
    BY <1>4, BeginRun, ByHandRun DEF Runs
  <2>3. PICK r \in Runs : Others(r) /\ run[r].at = "idle"
    BY <2>2
  <2>4. PICK o \in Runs : o # r
    BY DEF Runs
  <2>5. Busy(o)
    BY <2>1, <2>3, <2>4 DEF Others, Busy
  <2>6. Invoked(cold)
    BY <1>4 DEF Begin, ByHand
  <2> QED
    BY <2>1, <2>5, <2>6, InvokedType
<1>5. ASSUME NEW r \in Runs, Step(r) \/ Fails(r) \/ PostUnheard(r) \/ Dies(r)
      PROVE  Overlap' <= Overlap
  <2>1. Others(r)
    BY <1>5, ReadRun, PutDoneRun, PostDoneRun, WriteDoneRun, OverRun, PickParentRun,
       PickChildRun, FailsRun, PostUnheardRun DEF Step
  <2>2. Busy(r)
    <3>1. CASE Fails(r)
      BY <3>1 DEF Fails, BaseInv, PhaseInv, Busy
    <3> QED
      BY <1>5, <3>1 DEF Step, Read, PutDone, PostDone, WriteDone, End, PickParent,
         PickChild, Turn, PostUnheard, Dies, Busy
  <2> QED
    BY <1>1, <2>1, <2>2
<1> QED
  BY <1>1, <1>3, <1>4, <1>5 DEF Next

\* How the objects of a project grow, and what it costs.
LEMMA SpacesGrow ==
  ASSUME TypeOK, BaseInv, [Next]_vars, NEW p \in Projects
  PROVE  \/ Len(jira'[p]) = Len(jira[p])
         \/ \E r \in Runs :
              /\ Others(r)
              /\ run[r].at = "post" /\ p \in DOMAIN run[r].snap /\ run[r].snap[p].key = 0
              /\ \/ Len(jira'[p]) = Len(jira[p]) + 1 /\ run'[r].at = "write" /\ run'[r].cur = p
                 \/ /\ Len(jira'[p]) = Len(jira[p]) + 1 /\ faults' = faults + 1
                    /\ p \notin DOMAIN run'[r].snap
                 \/ /\ Len(jira'[p]) = Len(jira[p]) + 2 /\ faults' = faults + 1
                    /\ run'[r].at = "write" /\ run'[r].cur = p
<1>2. CASE UNCHANGED jira \/ \E r \in Runs : \E q : Renews(r, q)
  BY <1>2 DEF Renews
<1>3. ASSUME NEW r \in Runs, NEW q, Makes(r, q), q # p
      PROVE  Len(jira'[p]) = Len(jira[p])
  BY <1>3 DEF Makes, Adds
<1>4. ASSUME NEW r \in Runs, Makes(r, p)
      PROVE  /\ Others(r)
             /\ run[r].at = "post" /\ p \in DOMAIN run[r].snap /\ run[r].snap[p].key = 0
             /\ \/ Len(jira'[p]) = Len(jira[p]) + 1 /\ run'[r].at = "write" /\ run'[r].cur = p
                \/ /\ Len(jira'[p]) = Len(jira[p]) + 1 /\ faults' = faults + 1
                   /\ p \notin DOMAIN run'[r].snap
                \/ /\ Len(jira'[p]) = Len(jira[p]) + 2 /\ faults' = faults + 1
                   /\ run'[r].at = "write" /\ run'[r].cur = p
  <2>1. PostUnheard(r) => faults' = faults + 1
    BY Counters
  <2>2. Others(r)
    BY <1>4, PostDoneRun, PostUnheardRun DEF Makes
  <2>3. \/ Len(jira'[p]) = Len(jira[p]) + 1 /\ run'[r].at = "write" /\ run'[r].cur = p
        \/ /\ Len(jira'[p]) = Len(jira[p]) + 1 /\ faults' = faults + 1
           /\ p \notin DOMAIN run'[r].snap
        \/ /\ Len(jira'[p]) = Len(jira[p]) + 2 /\ faults' = faults + 1
           /\ run'[r].at = "write" /\ run'[r].cur = p
    <3>1. CASE Adds(r, p, 1) /\ Turns(r, p, "write")
      BY <3>1 DEF Adds, Turns
    <3>2. CASE Adds(r, p, 1) /\ Leaves(r, p) /\ PostUnheard(r)
      BY <2>1, <3>2 DEF Adds, Leaves, Without
    <3>3. CASE Adds(r, p, 2) /\ Turns(r, p, "write") /\ PostUnheard(r)
      BY <2>1, <3>3 DEF Adds, Turns
    <3> QED
      BY <1>4, <3>1, <3>2, <3>3 DEF Makes
  <2> QED
    BY <1>4, <2>2, <2>3 DEF Makes
<1> QED
  BY <1>2, <1>3, <1>4, JiraStep

LEMMA SpacesStep ==
  ASSUME TypeOK, BaseInv, SpacesInv, [Next]_vars
  PROVE  SpacesInv'
<1> SUFFICES ASSUME NEW p \in Projects
             PROVE  /\ key'[p] = 0 => Len(jira'[p]) + Overlap'
                          <= faults' + Writing("scheduled", p)' + Writing("manual", p)'
                    /\ key'[p] # 0 => Len(jira'[p]) + MayPost("scheduled", p)'
                          + MayPost("manual", p)' <= 1 + faults'
  BY DEF SpacesInv
<1> DEFINE l == Len(jira[p])
           m == Len(jira'[p])
           ov == Overlap
           ow == Overlap'
           W(x) == Writing(x, p)
           V(x) == Writing(x, p)'
           M(x) == MayPost(x, p)
           N(x) == MayPost(x, p)'
<1>1. l \in Nat /\ m \in Nat /\ faults \in Nat /\ faults' \in Nat /\ faults' >= faults
  <2>1. TypeOK'
    BY TypeStep
  <2>2. l \in Nat /\ faults \in Nat
    BY DEF TypeOK
  <2>3. m \in Nat /\ faults' \in Nat
    BY <2>1 DEF TypeOK
  <2> QED
    BY <2>2, <2>3, Counters
<1>2. /\ ov \in {0, 1} /\ ow \in {0, 1}
      /\ \A x : W(x) \in {0, 1} /\ V(x) \in {0, 1} /\ M(x) \in {0, 1} /\ N(x) \in {0, 1}
  BY DEF Overlap, Writing, MayPost
<1>3. /\ key[p] = 0 => l + ov <= faults + W("scheduled") + W("manual")
      /\ key[p] # 0 => l + M("scheduled") + M("manual") <= 1 + faults
  BY DEF SpacesInv
<1>4. /\ \A x : W(x) = 1 <=> run[x].at = "write" /\ run[x].cur = p
      /\ \A x : V(x) = 1 <=> run'[x].at = "write" /\ run'[x].cur = p
      /\ ow <= ov \/ (ow = ov + 1 /\ faults' = faults + 1)
      /\ \A r \in Runs : run[r].at # "idle" /\ Others(r) => ow <= ov
  BY OverlapStep DEF Writing, Busy
\* One run does something, and the other is o.
<1>5. ASSUME NEW r \in Runs
      PROVE  \E o \in Runs : /\ o # r
                             /\ \/ r = "scheduled" /\ o = "manual"
                                \/ r = "manual" /\ o = "scheduled"
                             /\ Others(r) => V(o) = W(o) /\ N(o) = M(o)
  <2>1. PICK o \in Runs : /\ o # r
                          /\ \/ r = "scheduled" /\ o = "manual"
                             \/ r = "manual" /\ o = "scheduled"
    BY DEF Runs
  <2>2. Others(r) => run'[o] = run[o]
    BY <2>1 DEF Others
  <2>3. run'[o] = run[o] => V(o) = W(o) /\ N(o) = M(o)
    BY DEF Writing, MayPost
  <2> HIDE DEF V, W, N, M
  <2> QED
    BY <2>1, <2>2, <2>3
<1>6. ASSUME NEW r \in Runs, run[r].at = "write", run[r].cur = p
      PROVE  M(r) = 0
  BY <1>6 DEF MayPost
<1>7. ASSUME NEW r \in Runs, Others(r), run[r].at = "post",
             p \in DOMAIN run[r].snap, run[r].snap[p].key = 0,
             \/ m = l + 1 /\ run'[r].at = "write" /\ run'[r].cur = p
             \/ m = l + 1 /\ faults' = faults + 1 /\ p \notin DOMAIN run'[r].snap
             \/ m = l + 2 /\ faults' = faults + 1 /\ run'[r].at = "write" /\ run'[r].cur = p
      PROVE  /\ W(r) = 0 /\ M(r) = 1 /\ N(r) = 0
             /\ \/ m = l + 1 /\ V(r) = 1
                \/ m = l + 1 /\ faults' = faults + 1
                \/ m = l + 2 /\ V(r) = 1 /\ faults' = faults + 1
             /\ ow <= ov
  <2>1. W(r) = 0 /\ M(r) = 1
    BY <1>7 DEF Writing, MayPost
  <2>2. N(r) = 0
    BY <1>7 DEF MayPost
  <2>3. \/ m = l + 1 /\ V(r) = 1
        \/ m = l + 1 /\ faults' = faults + 1
        \/ m = l + 2 /\ V(r) = 1 /\ faults' = faults + 1
    BY <1>7 DEF Writing
  <2>4. ow <= ov
    BY <1>4, <1>7
  <2> QED
    BY <2>1, <2>2, <2>3, <2>4
<1>8. ASSUME NEW r \in Runs, W(r) = 1, V(r) = 0
      PROVE  \/ WriteDone(r)
             \/ (Others(r) /\ faults' = faults + 1 /\ ow <= ov)
  <2>1. run[r].at = "write" /\ run[r].cur = p
    BY <1>4, <1>8
  <2>2. run'[r] # run[r]
    BY <1>4, <1>8, <2>1
  <2> QED
    BY <1>4, <2>1, <2>2, WritingStays
\* The key that a run writes back is the one the counts are about from then on.
<1>9. ASSUME NEW r \in Runs, WriteDone(r), run[r].cur = p
      PROVE  /\ Others(r) /\ W(r) = 1 /\ V(r) = 0 /\ N(r) = 0
             /\ m = l /\ key'[p] # 0 /\ faults' = faults
             /\ \A o \in Runs \ {r} : W(o) = 1 => M(o) = 0
             /\ \A o \in Runs \ {r} : ov = 0 => W(o) = 0 /\ M(o) = 0
  <2>1. /\ Others(r) /\ run[r].at = "write" /\ Leaves(r, p) /\ run[r].target # 0
    BY <1>9, WriteDoneRun
  <2>2. W(r) = 1 /\ V(r) = 0
    BY <1>2, <1>4, <1>9, <2>1 DEF Leaves
  <2>3. N(r) = 0
    BY <2>1 DEF MayPost, Leaves, Without
  <2>4. m = l /\ faults' = faults /\ key'[p] = run[r].target
    BY <1>1, <1>9 DEF WriteDone, TypeOK
  <2>5. \A o \in Runs \ {r} : W(o) = 1 => M(o) = 0
    BY <1>4, <1>6
  <2>6. \A o \in Runs \ {r} : ov = 0 => W(o) = 0 /\ M(o) = 0
    <3> SUFFICES ASSUME NEW o \in Runs \ {r}, ov = 0 PROVE W(o) = 0 /\ M(o) = 0
      OBVIOUS
    <3>1. ~Busy(o)
      <4>1. PICK x \in Runs : ~Busy(x)
        BY DEF Overlap
      <4>2. Busy(r)
        BY <2>1 DEF Busy
      <4> QED
        BY <4>1, <4>2 DEF Runs
    <3>2. run[o].at = "idle" /\ DOMAIN run[o].snap = {}
      BY <3>1 DEF Busy, BaseInv, PhaseInv
    <3> QED
      BY <3>2 DEF Writing, MayPost
  <2> QED
    BY <2>1, <2>2, <2>3, <2>4, <2>5, <2>6
<1>10. key'[p] = key[p] \/ \E r \in Runs : WriteDone(r) /\ run[r].cur = p
  <2>1. ASSUME NEW r \in Runs, WriteDone(r), run[r].cur # p PROVE key'[p] = key[p]
    BY <1>1, <2>1 DEF WriteDone, TypeOK
  <2> QED
    BY <2>1, Changes
<1>11. m = l \/ \E r \in Runs :
              /\ Others(r)
              /\ run[r].at = "post" /\ p \in DOMAIN run[r].snap /\ run[r].snap[p].key = 0
              /\ \/ m = l + 1 /\ run'[r].at = "write" /\ run'[r].cur = p
                 \/ m = l + 1 /\ faults' = faults + 1 /\ p \notin DOMAIN run'[r].snap
                 \/ m = l + 2 /\ faults' = faults + 1 /\ run'[r].at = "write" /\ run'[r].cur = p
  BY SpacesGrow
<1>12. key[p] # 0 => N("scheduled") <= M("scheduled") /\ N("manual") <= M("manual")
  BY <1>1, MayPostFalls DEF Runs
<1> HIDE DEF l, m, ov, ow, W, V, M, N
<1>13. CASE \E r \in Runs : WriteDone(r) /\ run[r].cur = p
  <2>1. PICK r \in Runs : WriteDone(r) /\ run[r].cur = p
    BY <1>13
  <2>2. PICK o \in Runs : /\ o # r
                          /\ \/ r = "scheduled" /\ o = "manual"
                             \/ r = "manual" /\ o = "scheduled"
                          /\ Others(r) => V(o) = W(o) /\ N(o) = M(o)
    BY <1>5
  <2>3. /\ W(r) = 1 /\ V(r) = 0 /\ N(r) = 0 /\ m = l /\ key'[p] # 0 /\ faults' = faults
        /\ ov = 0 => W(o) = 0 /\ M(o) = 0
    BY <1>9, <2>1, <2>2
  <2>4. W(o) = 1 => M(o) = 0
    BY <1>9, <2>1, <2>2
  <2>5. N(o) = M(o)
    BY <1>9, <2>1, <2>2
  <2>6. M(r) = 0
    BY <1>6, <1>9, <2>1, WriteDoneRun
  <2>7. m + N(r) + N(o) <= 1 + faults'
    <3>1. CASE key[p] = 0
      <4>1. l + ov <= faults + 1 + W(o)
        BY <1>1, <1>2, <1>3, <2>2, <2>3, <3>1
      <4> QED
        BY <1>1, <1>2, <2>2, <2>3, <2>4, <2>5, <4>1
    <3>2. CASE key[p] # 0
      <4>1. l + M(o) <= 1 + faults
        BY <1>1, <1>2, <1>3, <2>2, <2>6, <3>2
      <4> QED
        BY <1>1, <1>2, <2>2, <2>3, <2>5, <4>1
    <3> QED
      BY <3>1, <3>2
  <2>8. m + N("scheduled") + N("manual") <= 1 + faults'
    BY <1>1, <1>2, <2>2, <2>7
  <2> QED
    BY <2>3, <2>8 DEF m, N
<1>14. CASE key'[p] = key[p] /\ ~\E r \in Runs : WriteDone(r) /\ run[r].cur = p
  <2>1. CASE m = l /\ key[p] # 0
    <3>1. m + N("scheduled") + N("manual") <= 1 + faults'
      BY <1>1, <1>2, <1>3, <1>12, <2>1
    <3> QED
      BY <1>14, <2>1, <3>1 DEF m, N
  <2>2. CASE m = l /\ key[p] = 0
    <3>1. CASE \E r \in Runs : W(r) = 1 /\ V(r) = 0
      <4>1. PICK r \in Runs : W(r) = 1 /\ V(r) = 0
        BY <3>1
      <4>2. Others(r) /\ faults' = faults + 1 /\ ow <= ov
        BY <1>4, <1>8, <1>14, <4>1
      <4>3. PICK o \in Runs : /\ o # r
                              /\ \/ r = "scheduled" /\ o = "manual"
                                 \/ r = "manual" /\ o = "scheduled"
                              /\ Others(r) => V(o) = W(o) /\ N(o) = M(o)
        BY <1>5
      <4>4. m + ow <= faults' + V("scheduled") + V("manual")
        BY <1>1, <1>2, <1>3, <2>2, <4>1, <4>2, <4>3
      <4> QED
        BY <1>14, <2>2, <4>4 DEF m, ow, V
    <3>2. CASE ~\E r \in Runs : W(r) = 1 /\ V(r) = 0
      <4>1. W("scheduled") <= V("scheduled") /\ W("manual") <= V("manual")
        BY <1>2, <3>2 DEF Runs
      <4>2. ow <= ov \/ (ow = ov + 1 /\ faults' = faults + 1)
        BY <1>4
      <4>3. m + ow <= faults' + V("scheduled") + V("manual")
        BY <1>1, <1>2, <1>3, <2>2, <4>1, <4>2
      <4> QED
        BY <1>14, <2>2, <4>3 DEF m, ow, V
    <3> QED
      BY <3>1, <3>2
  <2>3. CASE m # l
    <3>1. PICK r \in Runs :
              /\ Others(r)
              /\ run[r].at = "post" /\ p \in DOMAIN run[r].snap /\ run[r].snap[p].key = 0
              /\ \/ m = l + 1 /\ run'[r].at = "write" /\ run'[r].cur = p
                 \/ m = l + 1 /\ faults' = faults + 1 /\ p \notin DOMAIN run'[r].snap
                 \/ m = l + 2 /\ faults' = faults + 1 /\ run'[r].at = "write" /\ run'[r].cur = p
      BY <1>11, <2>3
    <3>2. /\ W(r) = 0 /\ M(r) = 1 /\ N(r) = 0
          /\ \/ m = l + 1 /\ V(r) = 1
             \/ m = l + 1 /\ faults' = faults + 1
             \/ m = l + 2 /\ V(r) = 1 /\ faults' = faults + 1
          /\ ow <= ov
      BY <1>7, <3>1
    <3>3. PICK o \in Runs : /\ o # r
                            /\ \/ r = "scheduled" /\ o = "manual"
                               \/ r = "manual" /\ o = "scheduled"
                            /\ Others(r) => V(o) = W(o) /\ N(o) = M(o)
      BY <1>5
    <3>4. V(o) = W(o) /\ N(o) = M(o)
      BY <3>1, <3>3
    <3>5. CASE key[p] = 0
      <4>1. l + ov <= faults + W(o)
        BY <1>1, <1>2, <1>3, <3>2, <3>3, <3>5
      <4>2. m + ow <= faults' + V(r) + V(o)
        BY <1>1, <1>2, <3>2, <3>4, <4>1
      <4>3. m + ow <= faults' + V("scheduled") + V("manual")
        BY <1>1, <1>2, <3>3, <4>2
      <4> QED
        BY <1>14, <3>5, <4>3 DEF m, ow, V
    <3>6. CASE key[p] # 0
      <4>1. l + 1 + M(o) <= 1 + faults
        BY <1>1, <1>2, <1>3, <3>2, <3>3, <3>6
      <4>2. m + N(r) + N(o) <= 1 + faults'
        BY <1>1, <1>2, <3>2, <3>4, <4>1
      <4>3. m + N("scheduled") + N("manual") <= 1 + faults'
        BY <1>1, <1>2, <3>3, <4>2
      <4> QED
        BY <1>14, <3>6, <4>3 DEF m, N
    <3> QED
      BY <3>5, <3>6
  <2> QED
    BY <2>1, <2>2, <2>3
<1> QED
  BY <1>10, <1>13, <1>14

LEMMA DuplicatesInit ==
  ASSUME Init
  PROVE  EpicsInv /\ SpacesInv
<1>1. \A r \in Runs : run[r].at = "idle" /\ DOMAIN run[r].snap = {}
  BY IdleRun DEF Init
<1>2. "scheduled" \in Runs /\ "manual" \in Runs
  BY DEF Runs
<1>3. EpicsInv
  <2> SUFFICES ASSUME NEW c \in Children, NEW s \in Nat
               PROVE  Cardinality(InSpace(c, s)) + Posting("scheduled", c, s)
                        + Posting("manual", c, s) <= 1 + repeats + overlaps
    BY DEF EpicsInv
  <2>1. InSpace(c, s) = {}
    BY DEF InSpace, Init, Children
  <2>2. Cardinality(InSpace(c, s)) = 0
    BY <2>1, FS_EmptySet
  <2>3. Posting("scheduled", c, s) = 0 /\ Posting("manual", c, s) = 0
    BY <1>1, <1>2 DEF Posting
  <2> QED
    BY <2>2, <2>3 DEF Init
<1>4. SpacesInv
  <2> SUFFICES ASSUME NEW p \in Projects
               PROVE  /\ key[p] = 0
                      /\ Len(jira[p]) + Overlap
                           <= faults + Writing("scheduled", p) + Writing("manual", p)
    BY DEF SpacesInv
  <2>1. Overlap = 0 /\ Writing("scheduled", p) = 0 /\ Writing("manual", p) = 0
    BY <1>1, <1>2 DEF Overlap, Writing, Busy
  <2>2. Len(jira[p]) = 0 /\ key[p] = 0
    BY DEF Init
  <2> QED
    BY <2>1, <2>2 DEF Init
<1> QED
  BY <1>3, <1>4

LEMMA DuplicatesFollow ==
  ASSUME TypeOK, EpicsInv, SpacesInv
  PROVE  DuplicatesAreLosses
<1>1. faults \in Nat /\ repeats \in Nat /\ overlaps \in Nat
  BY DEF TypeOK
<1>2. ASSUME sppId, NEW c \in Children, NEW n \in DOMAIN jira[c]
      PROVE  Cardinality(Alike(c, n)) <= 1 + repeats + overlaps
  <2> DEFINE s == jira[c][n].space
  <2>1. s \in Nat
    <3>1. jira[c] \in Seq(Entry)
      BY DEF TypeOK, Children, Entry
    <3>2. jira[c][n] \in Entry
      BY <1>2, <3>1
    <3> QED
      BY <3>2 DEF Entry
  <2>2. Alike(c, n) = InSpace(c, s)
    BY DEF Alike, InSpace
  <2> HIDE DEF s
  <2>3. Cardinality(InSpace(c, s)) \in Nat
    BY EpicsFinite
  <2>4. Cardinality(InSpace(c, s)) + Posting("scheduled", c, s) + Posting("manual", c, s)
          <= 1 + repeats + overlaps
    BY <1>2, <2>1 DEF EpicsInv
  <2>5. Posting("scheduled", c, s) \in {0, 1} /\ Posting("manual", c, s) \in {0, 1}
    BY DEF Posting
  <2> QED
    BY <1>1, <2>2, <2>3, <2>4, <2>5
<1>3. ASSUME NEW p \in Projects
      PROVE  Len(jira[p]) <= 1 + faults
  <2>1. Len(jira[p]) \in Nat
    BY DEF TypeOK
  <2>2. CASE key[p] # 0
    <3>1. Len(jira[p]) + MayPost("scheduled", p) + MayPost("manual", p) <= 1 + faults
      BY <2>2 DEF SpacesInv
    <3>2. MayPost("scheduled", p) \in {0, 1} /\ MayPost("manual", p) \in {0, 1}
      BY DEF MayPost
    <3> QED
      BY <1>1, <2>1, <3>1, <3>2
  <2>3. CASE key[p] = 0
    <3> DEFINE v == Writing("scheduled", p)
               w == Writing("manual", p)
    <3>1. Len(jira[p]) + Overlap <= faults + v + w
      BY <2>3 DEF SpacesInv
    <3>2. v \in {0, 1} /\ w \in {0, 1} /\ Overlap \in {0, 1}
      BY DEF Writing, Overlap
    <3>3. v = 1 /\ w = 1 => Overlap = 1
      BY DEF Writing, Overlap, Busy, Runs
    <3> HIDE DEF v, w
    <3> QED
      BY <1>1, <2>1, <3>1, <3>2, <3>3
  <2> QED
    BY <2>2, <2>3
<1> QED
  BY <1>2, <1>3 DEF DuplicatesAreLosses

\* However many projects there are, and however runs fail, are killed and
\* overlap: a project has no more objects in Jira than there were faults, and
\* one; and where epics carry the id of their project, a child has no more of
\* them in a space than there were repeated POSTs and overlaps, and one.
THEOREM DuplicatesArePaidFor == Spec => []DuplicatesAreLosses
<1> DEFINE Inv == TypeOK /\ BaseInv /\ EpicsInv /\ SpacesInv
<1>1. Init => Inv
  BY BaseInit, DuplicatesInit
<1>2. Inv /\ [Next]_vars => Inv'
  BY BaseStep, EpicsStep, SpacesStep
<1>3. Inv => DuplicatesAreLosses
  BY DuplicatesFollow
<1> QED
  BY <1>1, <1>2, <1>3, PTL DEF Spec

-----------------------------------------------------------------------------
(* As long as no two runs are under way at the same time, the watermark     *)
(* passes by nothing, and epics are made in the space that SPP knows.       *)

\* The next run reads p, or it was updated too long before the first watermark.
Late(p) == Seen(p) \/ p \in aged

\* What a run that is alone knows of SPP: the keys, and all but the edits made
\* since it read, which the watermark has not passed by.
AloneInv(r) ==
  LET q == run[r] IN
  /\ \A p \in DOMAIN q.snap :
       /\ q.snap[p].key = key[p]
       /\ q.snap[p].ver = ver[p] \/ Late(p)
  /\ \A p \in DOMAIN q.keys : q.keys[p] = key[p] /\ key[p] # 0
  /\ q.at = "post" /\ q.cur \in Children => q.space = key[ParentOf[q.cur]]

\* What the scheduled run does not show at its end is read by the next one.
Covered(p) ==
  \/ Current(p)
  \/ updated[p] > run["scheduled"].start - Buffer
  \/ p \in skipped \/ p \in aged
  \/ p \in DOMAIN run["scheduled"].snap /\ run["scheduled"].snap[p].ver = ver[p]

ScheduledInv ==
  LET q == run["scheduled"] IN
  /\ Busy("scheduled") /\ watermark # None => watermark <= q.start
  /\ q.at \notin {"idle", "read"} =>
       /\ \A p \in DOMAIN q.snap :
            q.snap[p].ver = ver[p] \/ updated[p] > q.start - Buffer
       /\ ~q.errors => \A p \in Projects : active[p] => Covered(p)

AllAlone == \A r \in Runs : AloneInv(r)

QuietInv ==
  overlaps = 0 =>
    /\ AllAlone
    /\ ScheduledInv
    /\ NothingIsPassedBy
    /\ EpicsInKnownSpace

\* The buffer is longer than what "updated" lies behind UTC: an update is seen
\* by the next run, and it is later than the start of the run under way.
LEMMA Recent ==
  ASSUME TypeOK, BaseInv, NEW p \in Projects, updated'[p] = now - Skew,
         now' = now, watermark' = watermark
  PROVE  /\ Seen(p)' /\ Late(p)'
         /\ \A r \in Runs : updated'[p] > run[r].start - Buffer
<1>1. now \in Nat /\ Skew < Buffer /\ Skew \in Nat /\ Buffer \in Nat /\ Lookback \in Nat
  BY JiraAssumption DEF TypeOK
<1>2. watermark # None => watermark \in Nat /\ watermark <= now
  BY DEF TypeOK, BaseInv, WorldInv
<1>3. now - Skew > (IF watermark = None THEN now - Lookback ELSE watermark) - Buffer
  BY <1>1, <1>2
<1>4. Seen(p)'
  BY <1>3 DEF Seen, Since
<1>5. \A r \in Runs : run[r].start \in Nat /\ run[r].start <= now
  BY DEF TypeOK, IsRun, BaseInv, PhaseInv
<1> QED
  BY <1>1, <1>4, <1>5 DEF Late

\* A project is as it was, or it has just been updated.
LEMMA Updates ==
  ASSUME TypeOK, BaseInv, [Next]_vars, NEW p \in Projects
  PROVE  \/ /\ updated'[p] = updated[p] /\ ver'[p] = ver[p] /\ active'[p] = active[p]
            /\ key'[p] = key[p] /\ (p \in aged => p \in aged')
         \/ updated'[p] = now - Skew /\ now' = now /\ watermark' = watermark
<1> DEFINE Goal ==
         \/ /\ updated'[p] = updated[p] /\ ver'[p] = ver[p] /\ active'[p] = active[p]
            /\ key'[p] = key[p] /\ (p \in aged => p \in aged')
         \/ updated'[p] = now - Skew /\ now' = now /\ watermark' = watermark
<1> USE DEF sppVars, ghosts
<1>1. CASE UNCHANGED <<updated, ver, active, key, aged>>
  BY <1>1
<1>2. CASE Tick \/ Join \/ UNCHANGED vars
  BY <1>2 DEF Tick, Join, vars
<1>3. ASSUME NEW q \in Projects, Edit(q) PROVE Goal
  BY <1>3 DEF Edit, TypeOK
<1>4. CASE \E cold \in BOOLEAN : Begin(cold) \/ \E S \in SUBSET Projects \ {{}} : ByHand(S, cold)
  BY <1>1, <1>4 DEF Begin, ByHand
<1>5. ASSUME NEW r \in Runs, WriteDone(r) PROVE Goal
  BY <1>5 DEF WriteDone, TypeOK
<1>6. ASSUME NEW r \in Runs, Read(r) \/ PutDone(r) \/ PostDone(r) \/ End(r)
      PROVE  UNCHANGED <<updated, ver, active, key, aged>>
  BY <1>6 DEF Read, PutDone, PostDone, End
<1>7. ASSUME NEW r \in Runs, NEW q \in Projects, PickParent(r, q) \/ PickChild(r, q)
      PROVE  UNCHANGED <<updated, ver, active, key, aged>>
  BY <1>7 DEF PickParent, PickChild
<1>8. ASSUME NEW r \in Runs, Fails(r) \/ PostUnheard(r) \/ Dies(r)
      PROVE  UNCHANGED <<updated, ver, active, key, aged>>
  BY <1>8 DEF Fails, PostUnheard, Dies
<1> QED
  BY <1>1, <1>2, <1>3, <1>4, <1>5, <1>6, <1>7, <1>8 DEF Next, Step

\* While the watermark stays, a project stays late until it is read.
LEMMA LateStep ==
  ASSUME TypeOK, BaseInv, [Next]_vars, NEW p \in Projects, UNCHANGED watermark, Late(p)
  PROVE  Late(p)'
<1>1. CASE updated'[p] = now - Skew /\ now' = now
  BY <1>1, Recent
<1>2. CASE updated'[p] = updated[p] /\ (p \in aged => p \in aged')
  <2>1. CASE p \in aged
    BY <1>2, <2>1 DEF Late
  <2>2. CASE Seen(p) /\ UNCHANGED now
    BY <1>2, <2>2 DEF Late, Seen, Since
  <2>3. CASE Seen(p) /\ Tick
    <3>1. CASE watermark = None
      <4>1. /\ now \in Nat /\ now' = now + 1 /\ updated[p] \in Int
            /\ Lookback \in Nat /\ Buffer \in Nat
        BY <2>3, JiraAssumption DEF TypeOK, Tick
      <4>2. CASE updated[p] <= now' - Lookback - Buffer
        BY <2>3, <3>1, <4>2 DEF Tick, Late
      <4>3. CASE ~(updated[p] <= now' - Lookback - Buffer)
        <5>1. updated'[p] > now' - Lookback - Buffer
          BY <1>2, <4>1, <4>3
        <5> QED
          BY <3>1, <5>1 DEF Late, Seen, Since
      <4> QED
        BY <4>2, <4>3
    <3>2. CASE watermark # None
      BY <1>2, <2>3, <3>2 DEF Late, Seen, Since
    <3> QED
      BY <3>1, <3>2
  <2> QED
    BY <2>1, <2>2, <2>3, Changes DEF Late
<1> QED
  BY <1>1, <1>2, Updates

Quiet == overlaps = 0 /\ overlaps' = 0

LEMMA QuietBefore ==
  ASSUME TypeOK, BaseInv, [Next]_vars, overlaps' = 0
  PROVE  Quiet
BY Counters DEF TypeOK, Quiet

\* The other run has not begun, or is over.
LEMMA OneRun ==
  ASSUME BaseInv, overlaps = 0, NEW r \in Runs, Busy(r), NEW o \in Runs, o # r
  PROVE  ~Busy(o) /\ DOMAIN run[o].snap = {} /\ run[o].at = "idle"
<1>1. ~Busy(o)
  <2> SUFFICES ASSUME Busy(o) PROVE FALSE
    OBVIOUS
  <2>1. \A x \in Runs : x = r \/ x = o
    BY DEF Runs
  <2>2. \A x \in Runs : Busy(x)
    BY <2>1
  <2> QED
    BY <2>2 DEF BaseInv, WorldInv
<1> QED
  BY <1>1 DEF Busy, BaseInv, PhaseInv

\* A run that is alone writes the first key of its project.
LEMMA KeyStep ==
  ASSUME TypeOK, BaseInv, [Next]_vars, AllAlone
  PROVE  \/ UNCHANGED key
         \/ \E r \in Runs : \E p \in Projects :
              /\ WriteDone(r) /\ p = run[r].cur /\ Busy(r)
              /\ key[p] = 0 /\ key'[p] = run[r].target /\ key'[p] # 0
              /\ \A x \in Projects \ {p} : key'[x] = key[x]
              /\ Leaves(r, p) /\ UNCHANGED jira
<1> SUFFICES ASSUME NEW r \in Runs, WriteDone(r)
             PROVE  \E p \in Projects :
              /\ WriteDone(r) /\ p = run[r].cur /\ Busy(r)
              /\ key[p] = 0 /\ key'[p] = run[r].target /\ key'[p] # 0
              /\ \A x \in Projects \ {p} : key'[x] = key[x]
              /\ Leaves(r, p) /\ UNCHANGED jira
  BY Changes
<1>1. PICK p \in Projects : p = run[r].cur
  BY WriteDoneRun
<1>2. /\ p \in DOMAIN run[r].snap /\ run[r].at = "write" /\ run[r].snap[p].key = 0
      /\ run[r].target \in Nat \ {0} /\ Leaves(r, p)
  BY <1>1, WriteDoneRun
<1>3. key' = [key EXCEPT ![p] = run[r].target] /\ UNCHANGED jira
  BY <1>1 DEF WriteDone
<1>4. key[p] = 0
  BY <1>2 DEF AllAlone, AloneInv
<1>5. key'[p] = run[r].target /\ \A x \in Projects \ {p} : key'[x] = key[x]
  BY <1>3 DEF TypeOK
<1> QED
  BY <1>1, <1>2, <1>3, <1>4, <1>5 DEF Busy

\* What Jira shows stays as it is unless it is shown something else.
LEMMA CurrentStep ==
  ASSUME TypeOK, BaseInv, [Next]_vars, AllAlone, NEW p \in Projects, Current(p),
         ver'[p] = ver[p]
  PROVE  Current(p)' \/ \E r \in Runs : PutDone(r) /\ p = run[r].cur
<1>1. key'[p] = key[p] /\ key[p] # 0 /\ jira[p][key[p]].ver = ver[p]
  BY KeyStep DEF Current
<1>2. key[p] \in DOMAIN jira[p]
  BY <1>1 DEF BaseInv, WorldInv
<1>3. ASSUME jira'[p][key[p]] = jira[p][key[p]] PROVE Current(p)'
  BY <1>1, <1>3 DEF Current
<1>4. CASE UNCHANGED jira
  BY <1>3, <1>4
<1>5. ASSUME NEW r \in Runs, NEW q, Makes(r, q) PROVE Current(p)'
  <2>1. PICK k : Adds(r, q, k)
    BY <1>5 DEF Makes
  <2> QED
    BY <1>2, <1>3, <2>1 DEF Adds
<1>6. ASSUME NEW r \in Runs, NEW q, Renews(r, q), q # p PROVE Current(p)'
  BY <1>2, <1>3, <1>6 DEF Renews
<1> QED
  BY <1>4, <1>5, <1>6, JiraStep DEF Renews

\* A skipped child is only taken off the list when it has been done.
LEMMA SkippedStep ==
  ASSUME [Next]_vars, TypeOK, NEW p \in skipped
  PROVE  \/ p \in skipped'
         \/ updated'[p] = now - Skew /\ now' = now /\ watermark' = watermark
         \/ \E r \in Runs : PutDone(r) /\ p = run[r].cur /\ skipped' # skipped
<1> DEFINE Goal ==
         \/ p \in skipped'
         \/ updated'[p] = now - Skew /\ now' = now /\ watermark' = watermark
         \/ \E r \in Runs : PutDone(r) /\ p = run[r].cur /\ skipped' # skipped
<1> USE DEF sppVars, ghosts
<1>1. p \in Projects
  BY DEF TypeOK, Children
<1>2. CASE skipped \subseteq skipped'
  BY <1>2
<1>3. CASE Tick \/ Join \/ UNCHANGED vars
  BY <1>3 DEF Tick, Join, vars
<1>4. ASSUME NEW q \in Projects, Edit(q) PROVE Goal
  BY <1>1, <1>4 DEF Edit, TypeOK
<1>5. CASE \E cold \in BOOLEAN : Begin(cold) \/ \E S \in SUBSET Projects \ {{}} : ByHand(S, cold)
  BY <1>2, <1>5 DEF Begin, ByHand
<1>6. ASSUME NEW r \in Runs, WriteDone(r) PROVE Goal
  BY <1>1, <1>6 DEF WriteDone, TypeOK
<1>7. ASSUME NEW r \in Runs, PutDone(r) PROVE Goal
  BY <1>7 DEF PutDone
<1>8. ASSUME NEW r \in Runs, Read(r) \/ PostDone(r) \/ End(r)
      PROVE  skipped \subseteq skipped'
  BY <1>8 DEF Read, PostDone, End
<1>9. ASSUME NEW r \in Runs, NEW q \in Projects, PickParent(r, q) \/ PickChild(r, q)
      PROVE  skipped \subseteq skipped'
  BY <1>9 DEF PickParent, PickChild
<1>10. ASSUME NEW r \in Runs, Fails(r) \/ PostUnheard(r) \/ Dies(r)
       PROVE  skipped \subseteq skipped'
  BY <1>10 DEF Fails, PostUnheard, Dies
<1> QED
  BY <1>2, <1>3, <1>4, <1>5, <1>6, <1>7, <1>8, <1>9, <1>10 DEF Next, Step

LEMMA EpicsKnownStep ==
  ASSUME TypeOK, BaseInv, [Next]_vars, AllAlone, EpicsInKnownSpace, Quiet
  PROVE  EpicsInKnownSpace'
<1> SUFFICES ASSUME NEW c \in Children, NEW n \in DOMAIN jira'[c]
             PROVE  jira'[c][n].space = key'[ParentOf[c]]
  BY DEF EpicsInKnownSpace
<1>1. c \in Projects /\ ParentOf[c] \in Parents /\ ParentOf[c] \in Projects
  BY JiraAssumption DEF Children, Parents
<1>2. \A m \in DOMAIN jira[c] : jira[c][m].space = key[ParentOf[c]]
  BY DEF EpicsInKnownSpace, Quiet
<1>3. CASE \E r \in Runs : WriteDone(r)
  <2>1. PICK r \in Runs, p \in Projects :
              /\ UNCHANGED jira
              /\ key[p] = 0
              /\ \A x \in Projects \ {p} : key'[x] = key[x]
    <3>1. PICK r \in Runs : WriteDone(r)
      BY <1>3
    <3>2. PICK p \in Projects : p = run[r].cur
      BY <3>1, WriteDoneRun
    <3>3. p \in DOMAIN run[r].snap /\ run[r].snap[p].key = 0
      BY <3>1, <3>2, WriteDoneRun
    <3>4. key[p] = 0
      BY <3>3 DEF AllAlone, AloneInv
    <3> QED
      BY <3>1, <3>2, <3>4 DEF WriteDone, TypeOK
  <2>2. CASE ParentOf[c] = p
    <3>1. jira[c][n].space = 0 /\ jira[c][n].space # 0
      BY <1>2, <2>1, <2>2 DEF BaseInv, WorldInv
    <3> QED
      BY <3>1
  <2>3. CASE ParentOf[c] # p
    BY <1>1, <1>2, <2>1, <2>3
  <2> QED
    BY <2>2, <2>3
<1>4. CASE ~\E r \in Runs : WriteDone(r)
  <2>1. UNCHANGED key
    BY <1>4, KeyStep
  <2>2. CASE UNCHANGED jira \/ \E r \in Runs : \E p : Renews(r, p)
    BY <1>1, <1>2, <2>1, <2>2 DEF Renews
  <2>3. ASSUME NEW r \in Runs, NEW p, Makes(r, p)
        PROVE  jira'[c][n].space = key[ParentOf[c]]
    <3>1. PICK k : Adds(r, p, k)
      BY <2>3 DEF Makes
    <3>2. CASE p # c \/ n \in DOMAIN jira[c]
      BY <1>1, <1>2, <3>1, <3>2 DEF Adds
    <3>3. CASE p = c /\ n \notin DOMAIN jira[c]
      <4>1. jira'[c][n] = Object(run[r])
        BY <3>1, <3>3 DEF Adds
      <4>2. run[r].at = "post" /\ run[r].cur = c
        BY <2>3, <3>3 DEF Makes
      <4>3. Object(run[r]).space = run[r].space
        BY <4>2, ObjectType
      <4>4. run[r].space = key[ParentOf[c]]
        BY <4>2 DEF AllAlone, AloneInv
      <4> QED
        BY <4>1, <4>3, <4>4
    <3> QED
      BY <3>2, <3>3
  <2> QED
    BY <2>1, <2>2, <2>3, JiraStep
<1> QED
  BY <1>3, <1>4

\* While a run has work, only that run writes keys, and only it ends.
LEMMA WorkStep ==
  ASSUME TypeOK, BaseInv, [Next]_vars, AllAlone, Quiet, NEW x \in Runs,
         NEW p \in DOMAIN run[x].snap, p \in DOMAIN run'[x].snap
  PROVE  key'[p] = key[p] /\ UNCHANGED watermark /\ p \in Projects
<1>1. p \in Projects
  BY DEF TypeOK, IsRun
<1>2. key'[p] = key[p]
  <2> SUFFICES ASSUME NEW r \in Runs, Busy(r), Leaves(r, p) PROVE FALSE
    BY <1>1, KeyStep
  <2>1. r # x
    BY DEF Leaves, Without
  <2> QED
    BY <2>1, OneRun DEF Quiet
<1>3. UNCHANGED watermark
  <2> SUFFICES ASSUME NEW r \in Runs, End(r) PROVE FALSE
    BY Changes
  <2>1. r # x
    BY OverRun, IdleRun DEF Over
  <2>2. Busy(r)
    BY DEF End, Busy
  <2> QED
    BY <2>1, <2>2, OneRun DEF Quiet
<1> QED
  BY <1>1, <1>2, <1>3

LEMMA KnowsStep ==
  ASSUME TypeOK, BaseInv, [Next]_vars, AllAlone, Quiet, NEW x \in Runs,
         NEW p \in DOMAIN run'[x].snap
  PROVE  /\ run'[x].snap[p].key = key'[p]
         /\ run'[x].snap[p].ver = ver'[p] \/ Late(p)'
<1>1. ASSUME p \in DOMAIN run[x].snap, run'[x].snap[p] = run[x].snap[p]
      PROVE  /\ run'[x].snap[p].key = key'[p]
             /\ run'[x].snap[p].ver = ver'[p] \/ Late(p)'
  <2>1. key'[p] = key[p] /\ UNCHANGED watermark /\ p \in Projects
    BY <1>1, WorkStep
  <2>2. run[x].snap[p].key = key[p] /\ (run[x].snap[p].ver = ver[p] \/ Late(p))
    BY <1>1 DEF AllAlone, AloneInv
  <2>3. ver'[p] = ver[p] \/ Late(p)'
    BY <2>1, Updates, Recent
  <2>4. Late(p) => Late(p)'
    BY <2>1, LateStep
  <2> QED
    BY <1>1, <2>1, <2>2, <2>3, <2>4
<1>2. ASSUME NEW S \in SUBSET Projects, run'[x].snap = Snapshot(S), UNCHANGED <<ver, key>>
      PROVE  run'[x].snap[p].key = key'[p] /\ run'[x].snap[p].ver = ver'[p]
  <2> DEFINE n == Snapshot(S)
  <2>1. \A q \in DOMAIN n : n[q].key = key[q] /\ n[q].ver = ver[q]
    BY SnapshotType
  <2> HIDE DEF n
  <2> QED
    BY <1>2, <2>1 DEF n
<1>3. ASSUME NEW q, Leaves(x, q)
      PROVE  p \in DOMAIN run[x].snap /\ run'[x].snap[p] = run[x].snap[p]
  BY <1>3 DEF Leaves, Without
<1>4. ASSUME NEW q, NEW at, Turns(x, q, at)
      PROVE  p \in DOMAIN run[x].snap /\ run'[x].snap[p] = run[x].snap[p]
  BY <1>4 DEF Turns, Same
<1> QED
  BY <1>1, <1>2, <1>3, <1>4, SnapStep

\* The keys of the parents that a run has done are those in SPP.
LEMMA KeysStep ==
  ASSUME TypeOK, BaseInv, [Next]_vars, AllAlone, NEW x \in Runs,
         NEW p \in DOMAIN run'[x].keys
  PROVE  run'[x].keys[p] = key'[p] /\ key'[p] # 0
<1>1. ASSUME run'[x].keys = run[x].keys
      PROVE  run'[x].keys[p] = key'[p] /\ key'[p] # 0
  <2>1. p \in Projects /\ run[x].keys[p] = key[p] /\ key[p] # 0
    BY <1>1 DEF AllAlone, AloneInv, TypeOK, IsRun, Parents
  <2>2. key'[p] = key[p]
    BY <2>1, KeyStep
  <2> QED
    BY <1>1, <2>1, <2>2
<1>2. CASE run'[x] = run[x]
  BY <1>1, <1>2
<1>3. CASE Tick \/ Join \/ (\E q \in Projects : Edit(q)) \/ UNCHANGED vars
  BY <1>2, <1>3 DEF Tick, Join, Edit, vars
<1>4. ASSUME NEW cold, Begin(cold) \/ \E S \in SUBSET Projects : ByHand(S, cold)
      PROVE  run'[x] = run[x]
  BY <1>4, BeginRun, ByHandRun DEF Others
<1>5. ASSUME NEW r \in Runs, Others(r), r # x
      PROVE  run'[x] = run[x]
  BY <1>5 DEF Others
<1>6. CASE Read(x) \/ Fails(x)
  BY <1>1, <1>6, ReadRun, FailsRun
<1>7. CASE End(x) \/ Dies(x)
  BY <1>7, OverRun, IdleRun DEF Over
<1>8. CASE PostDone(x) \/ PostUnheard(x)
  <2>1. run'[x].keys = run[x].keys
    BY <1>8, PostDoneRun, PostUnheardRun DEF Turns, Same
  <2> QED
    BY <1>1, <2>1
<1>9. ASSUME NEW q \in Projects, PickParent(x, q) \/ PickChild(x, q)
      PROVE  run'[x].keys = run[x].keys
  BY <1>9, PickParentRun, PickChildRun DEF Turns, Same
\* The run has just done its project.
<1>10. ASSUME NEW q \in Projects, DOMAIN run'[x].keys = DOMAIN run[x].keys \union {q},
              run'[x].keys[q] = key'[q], key'[q] # 0,
              \A y \in DOMAIN run[x].keys \ {q} : run'[x].keys[y] = run[x].keys[y]
       PROVE  run'[x].keys[p] = key'[p] /\ key'[p] # 0
  <2>1. CASE p = q
    BY <1>10, <2>1
  <2>2. CASE p # q
    <3>1. p \in Projects /\ p \in DOMAIN run[x].keys /\ run[x].keys[p] = key[p] /\ key[p] # 0
      BY <1>10, <2>2 DEF AllAlone, AloneInv, TypeOK, IsRun, Parents
    <3>2. key'[p] = key[p]
      BY <3>1, KeyStep
    <3> QED
      BY <1>10, <2>2, <3>1, <3>2
  <2> QED
    BY <2>1, <2>2
<1>11. CASE PutDone(x)
  <2>1. PICK q : q = run[x].cur
    OBVIOUS
  <2>2. q \in Projects /\ q \in DOMAIN run[x].snap /\ (q \in Parents \/ q \in Children)
    BY <1>11, <2>1, PutDoneRun DEF Children
  <2>3. CASE run[x].snap[q].key = 0
    <3>1. Turns(x, q, "write")
      BY <1>11, <2>1, <2>3, PutDoneRun
    <3> QED
      BY <1>1, <3>1 DEF Turns, Same
  <2>4. CASE run[x].snap[q].key # 0 /\ q \in Children
    <3>1. run'[x].keys = run[x].keys
      BY <1>11, <2>1, <2>4, PutDoneRun
    <3> QED
      BY <1>1, <3>1
  <2>5. CASE run[x].snap[q].key # 0 /\ q \in Parents
    <3>1. /\ DOMAIN run'[x].keys = DOMAIN run[x].keys \union {q}
          /\ run'[x].keys[q] = run[x].target /\ run[x].target = run[x].snap[q].key
          /\ \A y \in DOMAIN run[x].keys \ {q} : run'[x].keys[y] = run[x].keys[y]
      BY <1>11, <2>1, <2>5, PutDoneRun
    <3>2. run[x].snap[q].key = key[q] /\ UNCHANGED key
      BY <1>11, <2>2 DEF AllAlone, AloneInv, PutDone, sppVars
    <3> QED
      BY <1>10, <2>2, <2>5, <3>1, <3>2
  <2> QED
    BY <2>2, <2>3, <2>4, <2>5
<1>12. CASE WriteDone(x)
  <2>1. PICK q : q = run[x].cur
    OBVIOUS
  <2>2. q \in Projects /\ (q \in Parents \/ q \in Children) /\ run[x].target # 0
    BY <1>12, <2>1, WriteDoneRun DEF Children
  <2>3. key'[q] = run[x].target
    BY <1>12, <2>1, <2>2 DEF WriteDone, TypeOK
  <2>4. CASE q \in Children
    <3>1. run'[x].keys = run[x].keys
      BY <1>12, <2>1, <2>4, WriteDoneRun
    <3> QED
      BY <1>1, <3>1
  <2>5. CASE q \in Parents
    <3>1. /\ DOMAIN run'[x].keys = DOMAIN run[x].keys \union {q}
          /\ run'[x].keys[q] = run[x].target
          /\ \A y \in DOMAIN run[x].keys \ {q} : run'[x].keys[y] = run[x].keys[y]
      BY <1>12, <2>1, <2>5, WriteDoneRun
    <3> QED
      BY <1>10, <2>2, <2>3, <3>1
  <2> QED
    BY <2>2, <2>4, <2>5
<1>13. ASSUME NEW r \in Runs, Step(r) \/ Fails(r) \/ PostUnheard(r) \/ Dies(r)
       PROVE  run'[x].keys[p] = key'[p] /\ key'[p] # 0
  <2>1. CASE r = x
    BY <1>1, <1>6, <1>7, <1>8, <1>9, <1>11, <1>12, <1>13, <2>1 DEF Step
  <2>2. CASE r # x
    <3>1. Others(r)
      BY <1>13, ReadRun, PutDoneRun, PostDoneRun, WriteDoneRun, OverRun, PickParentRun,
         PickChildRun, FailsRun, PostUnheardRun DEF Step
    <3> QED
      BY <1>2, <1>5, <2>2, <3>1
  <2> QED
    BY <2>1, <2>2
<1> QED
  BY <1>2, <1>3, <1>4, <1>13 DEF Next

LEMMA AloneStep ==
  ASSUME TypeOK, BaseInv, [Next]_vars, AllAlone, Quiet
  PROVE  AllAlone'
<1> SUFFICES ASSUME NEW x \in Runs PROVE AloneInv(x)'
  BY DEF AllAlone
<1>1. \A p \in DOMAIN run'[x].snap :
         /\ run'[x].snap[p].key = key'[p]
         /\ run'[x].snap[p].ver = ver'[p] \/ Late(p)'
  BY KnowsStep
<1>2. \A p \in DOMAIN run'[x].keys : run'[x].keys[p] = key'[p] /\ key'[p] # 0
  BY KeysStep
<1>3. ASSUME run'[x].at = "post", run'[x].cur \in Children
      PROVE  run'[x].space = key'[ParentOf[run'[x].cur]]
  <2>1. UNCHANGED key
    <3> SUFFICES ASSUME NEW r \in Runs, Busy(r), NEW p, Leaves(r, p), WriteDone(r) PROVE FALSE
      BY KeyStep
    <3>1. r # x
      BY <1>3 DEF Leaves
    <3>2. run[x].at = "idle" /\ run'[x] = run[x]
      BY <3>1, OneRun, WriteDoneRun DEF Quiet, Others
    <3> QED
      BY <1>3, <3>2
  <2>2. CASE run'[x] = run[x]
    BY <1>3, <2>1, <2>2 DEF AllAlone, AloneInv
  <2>3. ASSUME NEW p, NowPosts(x, p)
        PROVE  run'[x].space = key[ParentOf[run'[x].cur]]
    <3>1. p = run'[x].cur /\ p \in Children /\ run'[x].space = SpaceFor(run[x], p)
      BY <1>3, <2>3 DEF NowPosts, Turns, Children
    <3>2. SpaceFor(run[x], p) = key[ParentOf[p]]
      BY DEF SpaceFor, AllAlone, AloneInv
    <3> QED
      BY <3>1, <3>2
  <2> QED
    BY <1>3, <2>1, <2>2, <2>3, NewPost
<1> QED
  BY <1>1, <1>2, <1>3 DEF AloneInv

\* What run r has just shown in Jira: the project as it is, or as it was before
\* an edit that the next run reads.
LEMMA ShownStep ==
  ASSUME TypeOK, BaseInv, [Next]_vars, AllAlone, NEW r \in Runs, PutDone(r),
         NEW p \in Projects, p = run[r].cur
  PROVE  /\ p \in DOMAIN run[r].snap
         /\ \/ /\ run[r].snap[p].key # 0
               /\ run[r].snap[p].ver = ver'[p] => Current(p)'
               /\ run[r].snap[p].ver = ver'[p] \/ Late(p)'
               /\ Leaves(r, p)
            \/ ~Current(p) /\ UNCHANGED skipped /\ Turns(r, p, "write")
<1>1. /\ p \in DOMAIN run[r].snap /\ run[r].at = "put"
      /\ \/ /\ run[r].snap[p].key # 0 /\ Leaves(r, p)
            /\ run[r].target = run[r].snap[p].key
         \/ /\ run[r].snap[p].key = 0 /\ Turns(r, p, "write") /\ UNCHANGED skipped
  BY PutDoneRun
<1>2. run[r].snap[p].key = key[p] /\ (run[r].snap[p].ver = ver[p] \/ Late(p))
  BY <1>1 DEF AllAlone, AloneInv
<1>3. UNCHANGED <<ver, key, watermark>>
  BY DEF PutDone, sppVars
<1>4. Late(p) => Late(p)'
  BY <1>3, LateStep
<1>5. run[r].target = key[p] /\ key[p] # 0 /\ run[r].snap[p].ver = ver'[p] => Current(p)'
  <2>1. jira'[p][run[r].target].ver = run[r].snap[p].ver
    <3>1. run[r].snap[p].ver \in Nat
      BY <1>1, AtWork
    <3>2. /\ run[r].target \in DOMAIN jira[p]
          /\ jira' = [jira EXCEPT ![p][run[r].target].ver = run[r].snap[p].ver]
      BY PutDoneRun
    <3> DEFINE m == run[r].target
               v == run[r].snap[p].ver
    <3>3. m \in DOMAIN jira[p] /\ v \in Nat /\ jira' = [jira EXCEPT ![p][m].ver = v]
      BY <3>1, <3>2
    <3> HIDE DEF m, v
    <3>4. jira'[p][m].ver = v
      BY <3>3, JiraPut
    <3> QED
      BY <3>4 DEF m, v
  <2> QED
    BY <1>3, <2>1 DEF Current
<1> QED
  BY <1>1, <1>2, <1>3, <1>4, <1>5 DEF Current

LEMMA PassingStep ==
  ASSUME TypeOK, BaseInv, [Next]_vars, AllAlone, ScheduledInv, NothingIsPassedBy, Quiet
  PROVE  NothingIsPassedBy'
<1> SUFFICES ASSUME NEW p \in Projects, active'[p]
             PROVE  Current(p)' \/ Late(p)' \/ p \in skipped'
  BY DEF NothingIsPassedBy, Late
<1>1. CASE updated'[p] = now - Skew /\ now' = now /\ watermark' = watermark
  BY <1>1, Recent
<1>2. CASE /\ updated'[p] = updated[p] /\ ver'[p] = ver[p] /\ active'[p] = active[p]
           /\ (p \in aged => p \in aged')
           /\ ~(updated'[p] = now - Skew /\ now' = now /\ watermark' = watermark)
  <2>1. Current(p) \/ Late(p) \/ p \in skipped
    BY <1>2 DEF NothingIsPassedBy, Quiet, Late
  <2>2. ASSUME NEW r \in Runs, PutDone(r), p = run[r].cur
        PROVE  Current(p)' \/ Late(p)' \/ p \in skipped'
    <3>1. UNCHANGED watermark
      BY <2>2 DEF PutDone
    <3>2. Late(p) => Late(p)'
      BY <3>1, LateStep
    <3> QED
      BY <2>1, <2>2, <3>2, ShownStep
  <2>3. CASE Current(p)
    BY <1>2, <2>2, <2>3, CurrentStep
  <2>4. CASE p \in skipped
    BY <1>2, <2>2, <2>4, SkippedStep
  <2>5. CASE Late(p) /\ UNCHANGED watermark
    BY <2>5, LateStep
  \* The watermark moves only when the scheduled run has shown all it has read.
  <2>6. ASSUME NEW r \in Runs, End(r), ~UNCHANGED watermark
        PROVE  Current(p)' \/ Late(p)' \/ p \in skipped'
    <3>1. r = "scheduled" /\ ~run[r].errors /\ watermark' = run[r].start
          /\ run[r].at = "work" /\ DOMAIN run[r].snap = {}
      BY <2>6 DEF End, Runs
    <3>2. Covered(p)
      BY <1>2, <3>1 DEF ScheduledInv
    <3>3. CASE updated[p] > run["scheduled"].start - Buffer
      <4>1. run["scheduled"].start # None
        BY <3>1, JiraAssumption DEF TypeOK, IsRun, Runs
      <4> QED
        BY <1>2, <3>1, <3>3, <4>1 DEF Late, Seen, Since
    <3>4. CASE p \in aged
      BY <1>2, <3>4 DEF Late
    <3> QED
      BY <2>3, <2>4, <3>1, <3>2, <3>3, <3>4 DEF Covered
  <2> QED
    BY <2>1, <2>3, <2>4, <2>5, <2>6, Changes
<1> QED
  BY <1>1, <1>2, Updates

\* What the scheduled run has covered stays covered until its end.
LEMMA CoveredStep ==
  ASSUME TypeOK, BaseInv, [Next]_vars, AllAlone, Quiet, NEW p \in Projects, Covered(p),
         run'["scheduled"].start = run["scheduled"].start,
         \/ p \notin DOMAIN run["scheduled"].snap
         \/ /\ p \in DOMAIN run'["scheduled"].snap
            /\ run'["scheduled"].snap[p] = run["scheduled"].snap[p],
         \A r \in Runs : PutDone(r) => p # run[r].cur
  PROVE  Covered(p)'
<1> DEFINE q == run["scheduled"]
<1>1. "scheduled" \in Runs
  BY DEF Runs
<1>2. CASE updated'[p] = now - Skew /\ now' = now /\ watermark' = watermark
  BY <1>1, <1>2, Recent DEF Covered
<1>3. CASE /\ updated'[p] = updated[p] /\ ver'[p] = ver[p]
           /\ (p \in aged => p \in aged')
           /\ ~(updated'[p] = now - Skew /\ now' = now /\ watermark' = watermark)
  <2>1. CASE Current(p)
    BY <1>3, <2>1, CurrentStep DEF Covered
  <2>2. CASE p \in skipped
    BY <1>3, <2>2, SkippedStep DEF Covered
  <2>3. CASE updated[p] > run["scheduled"].start - Buffer \/ p \in aged
    BY <1>3, <2>3 DEF Covered
  <2>4. CASE p \in DOMAIN q.snap /\ q.snap[p].ver = ver[p]
    BY <1>3, <2>4 DEF Covered
  <2> QED
    BY <2>1, <2>2, <2>3, <2>4 DEF Covered
<1> QED
  BY <1>2, <1>3, Updates

LEMMA SnapsStep ==
  ASSUME TypeOK, BaseInv, [Next]_vars, ScheduledInv,
         run["scheduled"].at \notin {"idle", "read"},
         run'["scheduled"].start = run["scheduled"].start,
         NEW p \in DOMAIN run["scheduled"].snap, p \in DOMAIN run'["scheduled"].snap,
         run'["scheduled"].snap[p] = run["scheduled"].snap[p]
  PROVE  \/ run'["scheduled"].snap[p].ver = ver'[p]
         \/ updated'[p] > run'["scheduled"].start - Buffer
<1>1. "scheduled" \in Runs /\ p \in Projects
  BY DEF Runs, TypeOK, IsRun
<1>2. \/ run["scheduled"].snap[p].ver = ver[p]
      \/ updated[p] > run["scheduled"].start - Buffer
  BY DEF ScheduledInv
<1> QED
  BY <1>1, <1>2, Updates, Recent

\* What is true at the end of a step of a scheduled run that is at work.
Covering ==
  LET q == run["scheduled"] IN
  /\ \A p \in DOMAIN q.snap : q.snap[p].ver = ver[p] \/ updated[p] > q.start - Buffer
  /\ ~q.errors => \A p \in Projects : active[p] => Covered(p)

\* The run goes on with what it has read.
LEMMA GoesOn ==
  ASSUME TypeOK, BaseInv, [Next]_vars, AllAlone, ScheduledInv, Quiet,
         run["scheduled"].at \notin {"idle", "read"},
         run'["scheduled"].start = run["scheduled"].start,
         run'["scheduled"].snap = run["scheduled"].snap,
         run["scheduled"].errors => run'["scheduled"].errors,
         \A r \in Runs : PutDone(r) => ~Current(run[r].cur) /\ UNCHANGED skipped
  PROVE  Covering'
<1>1. \A p \in DOMAIN run'["scheduled"].snap :
         \/ run'["scheduled"].snap[p].ver = ver'[p]
         \/ updated'[p] > run'["scheduled"].start - Buffer
  BY SnapsStep
<1>2. ASSUME ~run'["scheduled"].errors, NEW p \in Projects, active'[p]
      PROVE  Covered(p)'
  <2>0. "scheduled" \in Runs
    BY DEF Runs
  <2>1. CASE updated'[p] = now - Skew /\ now' = now /\ watermark' = watermark
    BY <2>0, <2>1, Recent DEF Covered
  <2>2. CASE /\ active'[p] = active[p] /\ updated'[p] = updated[p] /\ ver'[p] = ver[p]
             /\ (p \in aged => p \in aged')
             /\ ~(updated'[p] = now - Skew /\ now' = now /\ watermark' = watermark)
    <3>1. Covered(p)
      BY <1>2, <2>2 DEF ScheduledInv
    <3>2. CASE \E r \in Runs : PutDone(r) /\ p = run[r].cur
      <4>1. ~Current(p) /\ UNCHANGED skipped
        BY <3>2
      <4> QED
        BY <2>2, <3>1, <4>1 DEF Covered
    <3>3. CASE \A r \in Runs : PutDone(r) => p # run[r].cur
      BY <3>1, <3>3, CoveredStep
    <3> QED
      BY <3>2, <3>3
  <2> QED
    BY <2>1, <2>2, Updates
<1> QED
  BY <1>1, <1>2 DEF Covering

\* The run leaves project p.
LEMMA GoesBeyond ==
  ASSUME TypeOK, BaseInv, [Next]_vars, AllAlone, ScheduledInv, Quiet,
         run["scheduled"].at \notin {"idle", "read"},
         NEW p, Leaves("scheduled", p),
         \/ run'["scheduled"].errors
         \/ p \in Projects /\ (Covered(p) => Covered(p)'),
         \A r \in Runs : PutDone(r) => p = run[r].cur
  PROVE  Covering'
<1>1. \A x \in DOMAIN run'["scheduled"].snap :
         \/ run'["scheduled"].snap[x].ver = ver'[x]
         \/ updated'[x] > run'["scheduled"].start - Buffer
  BY SnapsStep DEF Leaves, Without
<1>2. ASSUME ~run'["scheduled"].errors, NEW x \in Projects, active'[x]
      PROVE  Covered(x)'
  <2>0. "scheduled" \in Runs /\ run'["scheduled"].start = run["scheduled"].start
    BY DEF Runs, Leaves
  <2>1. CASE updated'[x] = now - Skew /\ now' = now /\ watermark' = watermark
    BY <2>0, <2>1, Recent DEF Covered
  <2>2. CASE active'[x] = active[x]
    <3>1. Covered(x)
      BY <1>2, <2>2 DEF ScheduledInv, Leaves
    <3>2. CASE x = p
      BY <1>2, <3>1, <3>2
    <3>3. CASE x # p
      <4>1. \A r \in Runs : PutDone(r) => x # run[r].cur
        BY <3>3
      <4>2. \/ x \notin DOMAIN run["scheduled"].snap
            \/ /\ x \in DOMAIN run'["scheduled"].snap
               /\ run'["scheduled"].snap[x] = run["scheduled"].snap[x]
        BY <3>3 DEF Leaves, Without
      <4> QED
        BY <2>0, <3>1, <4>1, <4>2, CoveredStep
    <3> QED
      BY <3>2, <3>3
  <2> QED
    BY <2>1, <2>2, Updates
<1> QED
  BY <1>1, <1>2 DEF Covering

LEMMA OnlyOnePuts ==
  ASSUME TypeOK, BaseInv, Quiet, NEW x \in Runs, Busy(x),
         NEW r \in Runs, PutDone(r)
  PROVE  r = x
<1>1. Busy(r)
  BY DEF PutDone, Busy
<1> QED
  BY <1>1, OneRun DEF Quiet

LEMMA ScheduledStep ==
  ASSUME TypeOK, BaseInv, [Next]_vars, AllAlone, ScheduledInv, NothingIsPassedBy, Quiet
  PROVE  ScheduledInv'
<1> DEFINE x == "scheduled"
           Goal == /\ run'[x].at # "idle" /\ watermark' # None => watermark' <= run'[x].start
                   /\ run'[x].at \notin {"idle", "read"} => Covering'
<1> HIDE DEF x
<1>1. x \in Runs
  BY DEF Runs, x
<1>2. SUFFICES Goal
  BY DEF ScheduledInv, Covering, Busy, x
<1>3. ASSUME run[x].at # "idle", UNCHANGED watermark, run'[x].start = run[x].start
      PROVE  watermark' # None => watermark' <= run'[x].start
  BY <1>3 DEF ScheduledInv, Busy, x
\* The run waits.
<1>4. ASSUME run'[x] = run[x], UNCHANGED watermark,
             \A r \in Runs : ~PutDone(r)
      PROVE  Goal
  <2>1. run'[x].at \notin {"idle", "read"} => Covering'
    BY <1>4, GoesOn DEF x
  <2> QED
    BY <1>3, <1>4, <2>1
<1>5. ASSUME NEW r \in Runs, r # x, Busy(r), Others(r) PROVE Goal
  <2>1. run[x].at = "idle"
    BY <1>1, <1>5, OneRun DEF Quiet
  <2>2. run'[x].at = "idle"
    BY <1>1, <1>5, <2>1 DEF Others
  <2> QED
    BY <2>2
<1>6. CASE Tick \/ Join \/ (\E p \in Projects : Edit(p)) \/ UNCHANGED vars
  <2>1. UNCHANGED <<watermark, run>>
    BY <1>6 DEF Tick, Join, Edit, vars
  <2>2. \A r \in Runs : ~PutDone(r)
    <3> SUFFICES ASSUME NEW r \in Runs, PutDone(r) PROVE FALSE
      OBVIOUS
    <3>1. run'[r].at # run[r].at
      BY PutDoneRun DEF Leaves, Turns
    <3> QED
      BY <2>1, <3>1
  <2> QED
    BY <1>4, <2>1, <2>2
<1>7. ASSUME NEW cold, Begin(cold) PROVE Goal
  <2>1. run'[x].at = "read" /\ run'[x].start = now /\ UNCHANGED watermark
    BY <1>7, BeginRun DEF Begin, x
  <2> QED
    BY <2>1 DEF BaseInv, WorldInv
<1>8. ASSUME NEW cold, NEW S \in SUBSET Projects, ByHand(S, cold) PROVE Goal
  <2>1. Others("manual")
    BY <1>8, ByHandRun
  <2>2. run'[x] = run[x]
    BY <1>1, <2>1 DEF Others, x
  <2>3. run[x].at = "idle"
    <3> SUFFICES ASSUME run[x].at # "idle" PROVE FALSE
      OBVIOUS
    <3>1. overlaps' = overlaps + 1
      BY <1>1, <1>8 DEF ByHand, Invoked, Busy
    <3> QED
      BY <3>1 DEF Quiet
  <2> QED
    BY <2>2, <2>3
<1>9. CASE Read(x)
  <2>1. /\ run[x].at = "read" /\ run'[x].start = run[x].start
        /\ run'[x].snap = Snapshot({p \in Projects : Seen(p)})
        /\ UNCHANGED <<watermark, ver, active, updated, key, jira, skipped, aged>>
    BY <1>1, <1>9, ReadRun DEF Read, sppVars, ghosts
  <2> DEFINE S == {p \in Projects : Seen(p)}
             n == Snapshot(S)
  <2>2. S \in SUBSET Projects
    OBVIOUS
  <2> HIDE DEF S
  <2>3. DOMAIN n = {p \in S : active[p]} /\ \A p \in DOMAIN n : n[p].ver = ver[p]
    BY <2>2, SnapshotType
  <2> HIDE DEF n
  <2>4. run'[x].snap = n
    BY <2>1 DEF n, S
  <2>5. ASSUME NEW p \in Projects, active[p] PROVE Covered(p)'
    <3>1. CASE Seen(p)
      <4>1. p \in DOMAIN n /\ n[p].ver = ver[p]
        BY <2>3, <2>5, <3>1 DEF S
      <4> QED
        BY <2>1, <2>4, <4>1 DEF Covered, x
    <3>2. CASE ~Seen(p)
      <4>1. Current(p) \/ p \in skipped \/ p \in aged
        BY <2>5, <3>2 DEF NothingIsPassedBy, Quiet
      <4> QED
        BY <2>1, <4>1 DEF Covered, Current
    <3> QED
      BY <3>1, <3>2
  <2>6. Covering'
    <3>1. \A p \in DOMAIN run'[x].snap : run'[x].snap[p].ver = ver'[p]
      BY <2>1, <2>3, <2>4
    <3>2. \A p \in Projects : active'[p] => Covered(p)'
      BY <2>1, <2>5
    <3> QED
      BY <3>1, <3>2 DEF Covering, x
  <2> QED
    BY <1>3, <2>1, <2>6
\* Steps of a scheduled run that is at work.
<1>10. ASSUME run[x].at \notin {"idle", "read"}, UNCHANGED watermark,
              NEW p, Leaves(x, p),
              run'[x].errors \/ (p \in Projects /\ (Covered(p) => Covered(p)')),
              PutDone(x) => p = run[x].cur
       PROVE  Goal
  <2>1. \A r \in Runs : PutDone(r) => p = run[r].cur
    BY <1>1, <1>10, OnlyOnePuts DEF Busy
  <2>2. Covering'
    BY <1>10, <2>1, GoesBeyond DEF x
  <2> QED
    BY <1>3, <1>10, <2>2 DEF Leaves
<1>11. ASSUME run[x].at \notin {"idle", "read"}, UNCHANGED watermark,
              NEW p, NEW at, Turns(x, p, at),
              PutDone(x) => ~Current(run[x].cur) /\ UNCHANGED skipped
       PROVE  Goal
  <2>1. \A r \in Runs : PutDone(r) => ~Current(run[r].cur) /\ UNCHANGED skipped
    BY <1>1, <1>11, OnlyOnePuts DEF Busy
  <2>2. Covering'
    BY <1>11, <2>1, GoesOn DEF Turns, Same, x
  <2> QED
    BY <1>3, <1>11, <2>2 DEF Turns, Same
<1>12. ASSUME NEW p \in Projects, PickParent(x, p) PROVE Goal
  <2>1. run[x].at = "work" /\ UNCHANGED watermark /\ ~PutDone(x)
    BY <1>1, <1>12, PickParentRun DEF PickParent, PutDone
  <2>2. (Leaves(x, p) /\ run'[x].errors) \/ Turns(x, p, "post") \/ Turns(x, p, "put")
    BY <1>1, <1>12, PickParentRun
  <2> QED
    BY <1>10, <1>11, <2>1, <2>2
<1>13. ASSUME NEW p \in Projects, PickChild(x, p) PROVE Goal
  <2>1. run[x].at = "work" /\ UNCHANGED watermark /\ ~PutDone(x)
    BY <1>1, <1>13, PickChildRun DEF PickChild, PutDone
  <2>2. \/ /\ Leaves(x, p) /\ p \in DOMAIN run[x].snap
           /\ skipped' = IF x = "scheduled" /\ run[x].snap[p].ver = ver[p]
                         THEN skipped \union {p} ELSE skipped
        \/ Turns(x, p, "post") \/ Turns(x, p, "put")
    BY <1>1, <1>13, PickChildRun
  <2>3. ASSUME Leaves(x, p), p \in DOMAIN run[x].snap,
               skipped' = IF x = "scheduled" /\ run[x].snap[p].ver = ver[p]
                          THEN skipped \union {p} ELSE skipped,
               Covered(p)
        PROVE  Covered(p)'
    <3>1. UNCHANGED <<ver, updated, key, jira, aged>> /\ run'[x].start = run[x].start
      BY <1>13, <2>3 DEF PickChild, sppVars, Leaves
    <3>2. CASE run[x].snap[p].ver = ver[p]
      BY <2>3, <3>2 DEF Covered, x
    <3>3. CASE run[x].snap[p].ver # ver[p]
      BY <2>3, <3>1, <3>3 DEF Covered, Current, x
    <3> QED
      BY <3>2, <3>3
  <2> QED
    BY <1>10, <1>11, <2>1, <2>2, <2>3
<1>14. CASE PutDone(x)
  <2>1. PICK p \in Projects : p = run[x].cur
    BY <1>1, <1>14, PutDoneRun
  <2>2. run[x].at = "put" /\ UNCHANGED <<watermark, updated>> /\ p \in DOMAIN run[x].snap
    BY <1>1, <1>14, <2>1, PutDoneRun DEF PutDone, sppVars
  <2>3. \/ /\ Leaves(x, p)
           /\ run[x].snap[p].ver = ver'[p] => Current(p)'
        \/ ~Current(p) /\ UNCHANGED skipped /\ Turns(x, p, "write")
    BY <1>1, <1>14, <2>1, ShownStep
  <2>4. ASSUME Leaves(x, p), run[x].snap[p].ver = ver'[p] => Current(p)'
        PROVE  Covered(p)'
    <3>1. run[x].snap[p].ver = ver[p] \/ updated[p] > run[x].start - Buffer
      BY <2>2 DEF ScheduledInv, x
    <3>2. UNCHANGED ver
      BY <1>14 DEF PutDone, sppVars
    <3>3. run'[x].start = run[x].start
      BY <2>4 DEF Leaves
    <3> QED
      BY <2>2, <2>4, <3>1, <3>2, <3>3 DEF Covered, x
  <2>5. CASE Leaves(x, p) /\ (run[x].snap[p].ver = ver'[p] => Current(p)')
    BY <1>10, <2>1, <2>2, <2>4, <2>5
  <2>6. CASE ~Current(p) /\ UNCHANGED skipped /\ Turns(x, p, "write")
    BY <1>11, <2>1, <2>2, <2>6
  <2> QED
    BY <2>3, <2>5, <2>6
<1>15. CASE PostDone(x) \/ PostUnheard(x)
  <2>1. PICK p : p = run[x].cur
    OBVIOUS
  <2>2. /\ run[x].at = "post"
        /\ (Leaves(x, p) /\ run'[x].errors) \/ Turns(x, p, "write")
    BY <1>1, <1>15, <2>1, PostDoneRun, PostUnheardRun
  <2>3. UNCHANGED watermark /\ ~PutDone(x)
    BY <1>15, <2>2 DEF PostDone, PostUnheard, PutDone
  <2> QED
    BY <1>10, <1>11, <2>2, <2>3
<1>16. CASE WriteDone(x)
  <2>1. PICK p \in Projects : p = run[x].cur
    BY <1>1, <1>16, WriteDoneRun
  <2>2. run[x].at = "write" /\ Leaves(x, p)
    BY <1>1, <1>16, <2>1, WriteDoneRun
  <2>3. UNCHANGED watermark /\ ~PutDone(x) /\ updated'[p] = now - Skew /\ now' = now
    BY <1>16, <2>1, <2>2 DEF WriteDone, PutDone, TypeOK
  <2>4. Covered(p)'
    <3>1. updated'[p] > run[x].start - Buffer /\ run'[x].start = run[x].start
      BY <1>1, <2>2, <2>3, Recent DEF Leaves
    <3> QED
      BY <3>1 DEF Covered, x
  <2> QED
    BY <1>10, <2>2, <2>3, <2>4
<1>17. CASE End(x) \/ Dies(x)
  BY <1>1, <1>17, OverRun, IdleRun DEF Over
<1>18. CASE Fails(x)
  <2>1. run[x].at \notin {"idle", "read"}
    BY <1>1, <1>18 DEF Fails, BaseInv, PhaseInv, PutDone
  <2>2. Leaves(x, run[x].cur) /\ run'[x].errors /\ UNCHANGED watermark
    BY <1>1, <1>18, FailsRun DEF Fails
  <2> QED
    BY <1>10, <2>1, <2>2
<1>19. ASSUME NEW r \in Runs, Step(r) \/ Fails(r) \/ PostUnheard(r) \/ Dies(r)
       PROVE  Goal
  <2>1. Others(r)
    BY <1>19, ReadRun, PutDoneRun, PostDoneRun, WriteDoneRun, OverRun, PickParentRun,
       PickChildRun, FailsRun, PostUnheardRun DEF Step
  <2>2. Busy(r)
    <3>1. CASE Fails(r)
      BY <3>1 DEF Fails, BaseInv, PhaseInv, Busy
    <3> QED
      BY <1>19, <3>1 DEF Step, Read, PutDone, PostDone, WriteDone, End, PickParent,
         PickChild, Turn, PostUnheard, Dies, Busy
  <2>3. CASE r = x
    BY <1>9, <1>12, <1>13, <1>14, <1>15, <1>16, <1>17, <1>18, <1>19, <2>3 DEF Step
  <2> QED
    BY <1>5, <2>1, <2>2, <2>3
<1> QED
  BY <1>6, <1>7, <1>8, <1>19 DEF Next

LEMMA QuietStep ==
  ASSUME TypeOK, BaseInv, QuietInv, [Next]_vars
  PROVE  QuietInv'
<1> SUFFICES ASSUME overlaps' = 0
             PROVE  AllAlone' /\ ScheduledInv' /\ NothingIsPassedBy' /\ EpicsInKnownSpace'
  BY DEF QuietInv
<1>1. Quiet
  BY QuietBefore
<1>2. AllAlone /\ ScheduledInv /\ NothingIsPassedBy /\ EpicsInKnownSpace
  BY <1>1 DEF QuietInv, Quiet
<1> QED
  BY <1>1, <1>2, AloneStep, ScheduledStep, PassingStep, EpicsKnownStep

LEMMA QuietInit ==
  ASSUME Init
  PROVE  QuietInv
<1>1. \A r \in Runs : run[r] = Idle
  BY DEF Init
<1>2. AllAlone
  BY <1>1, IdleRun DEF AllAlone, AloneInv
<1>3. ScheduledInv
  BY <1>1, IdleRun DEF ScheduledInv, Busy, Runs
<1>4. NothingIsPassedBy /\ EpicsInKnownSpace
  BY DEF NothingIsPassedBy, EpicsInKnownSpace, Init, Children
<1> QED
  BY <1>2, <1>3, <1>4 DEF QuietInv

LEMMA QuietAlways == Spec => [](TypeOK /\ BaseInv /\ QuietInv)
<1> DEFINE Inv == TypeOK /\ BaseInv /\ QuietInv
<1>1. Init => Inv
  BY BaseInit, QuietInit
<1>2. Inv /\ [Next]_vars => Inv'
  BY BaseStep, QuietStep
<1> QED
  BY <1>1, <1>2, PTL DEF Spec

\* However long the buffer is, if only it is longer than "updated" lies behind
\* UTC, and whatever fails or is killed: as long as no two runs were under way
\* at the same time, a project in scope that Jira does not show as it is will
\* be read by the next run, but for the children that were skipped and the
\* projects that the initial lookback missed.
THEOREM WatermarkIsSafe == Spec => []NothingIsPassedBy
<1>1. TypeOK => overlaps = 0 \/ overlaps > 0
  BY DEF TypeOK
<1>2. TypeOK /\ QuietInv => NothingIsPassedBy
  BY <1>1 DEF QuietInv, NothingIsPassedBy
<1> QED
  BY <1>2, QuietAlways, PTL

\* As long as no two runs were under way at the same time, every epic of a
\* child is in the space whose key SPP has for its parent.
THEOREM EpicsAreFound == Spec => []EpicsInKnownSpace
<1>1. TypeOK => overlaps = 0 \/ overlaps > 0
  BY DEF TypeOK
<1>2. TypeOK /\ QuietInv => EpicsInKnownSpace
  BY <1>1 DEF QuietInv, EpicsInKnownSpace
<1> QED
  BY <1>2, QuietAlways, PTL

=============================================================================
