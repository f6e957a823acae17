---------------------------- MODULE BtGateProofs ----------------------------
(***************************************************************************)
(* The Bluetooth gate, for any users, addresses, secrets, days and saves   *)
(* under way.                                                              *)
(***************************************************************************)
EXTENDS BtGate, TLAPS

Thens ==
  {Nothing} \cup [kind : {"paired"}, user : Users, pid : Nat, holds : BOOLEAN]
            \cup [kind : {"revoked"}, pid : Nat, holds : BOOLEAN]
            \cup [kind : {"hello"}, user : Users, addr : Addrs, pid : Nat, secret : Nat, due : BOOLEAN]
Stores == [Users -> Records \cup {None}]
Jobs == [snap : Stores, stage : {"saving", "saved"}, then : Thens]
Sessions == [user : Users, pid : Nat, secret : Nat, renew : Nat]

Windows == [stage : {"closed", "waiting", "code", "approved", "failed", "paired"},
            timedOut : BOOLEAN, addr : Addrs \cup {None},
            lib : [user : Users, code : BOOLEAN] \cup {None}, pending : Records \cup {None}]

GateType ==
  /\ mem \in Stores /\ disk \in Stores
  /\ sessions \in [Addrs -> Sessions \cup {None}]
  /\ jobs \in Seq(Jobs)
  /\ pair \in Windows
  /\ made \in 0 .. MaxSecret /\ day \in Nat
  /\ acked \in [Users -> Nat]
  /\ dropped \subseteq Nat /\ told \subseteq Nat /\ raced \subseteq Nat
  /\ best \in [1 .. MaxSecret -> Nat]

(***************************************************************************)
(* What a handler that has saved relies on.  A hello's pairing is there    *)
(* with its secret in use or used, unless it raced; a confirmed pairing is *)
(* there; a revoked one is with nobody.  While the handler waits, every    *)
(* save from its own on has it so; once it was followed up the session,    *)
(* the ack or the report stands for it.                                    *)
(***************************************************************************)
Fits(t, records, past) ==
  CASE t.kind = "hello" ->
         \/ t.pid \in past
         \/ /\ records[t.user] # None /\ records[t.user].pid = t.pid /\ records[t.user].on
            /\ t.secret \in records[t.user].old \cup {records[t.user].secret}
    [] t.kind = "paired" -> t.holds => records[t.user] # None /\ records[t.user].pid = t.pid
    [] t.kind = "revoked" -> t.holds => \A u \in Users : records[u] # None => records[u].pid # t.pid
    [] OTHER -> TRUE

Kept(t) ==
  /\ Fits(t, mem, raced) /\ Fits(t, disk, raced)
  /\ \A i \in DOMAIN jobs : jobs[i].stage = "saving" => Fits(t, jobs[i].snap, raced)

HelloOf(s) == [kind |-> "hello", user |-> s.user, pid |-> s.pid, secret |-> s.secret]
PairedOf(u) == [kind |-> "paired", user |-> u, pid |-> acked[u], holds |-> TRUE]
RevokedOf(p) == [kind |-> "revoked", pid |-> p, holds |-> TRUE]

InOrder == \A i, j \in DOMAIN jobs : i < j /\ jobs[j].stage = "saved" => jobs[i].stage = "saved"
WaitingKept ==
  \A i \in DOMAIN jobs :
    LET t == jobs[i].then IN
    /\ Fits(t, mem, raced)
    /\ jobs[i].stage = "saved" => Fits(t, disk, raced)
    /\ \A j \in DOMAIN jobs : i <= j => Fits(t, jobs[j].snap, raced)
SessionsKept == \A a \in Addrs : sessions[a] # None => Kept(HelloOf(sessions[a]))
AckedKept == \A u \in Users : acked[u] # 0 /\ acked[u] \notin dropped => Kept(PairedOf(u))
ToldKept == \A p \in told : Kept(RevokedOf(p))

(***************************************************************************)
(* A pairing is made for one user at one address, is no older than the     *)
(* secrets made, and one that was acked is not the one the window still    *)
(* waits to be confirmed.                                                  *)
(***************************************************************************)
OwnedIn(owner, home, records) ==
  \A u \in Users : records[u] # None =>
    /\ records[u].pid \in 1 .. made
    /\ owner[records[u].pid] = u /\ home[records[u].pid] = records[u].addr
OwnedThen(owner, home, t) ==
  /\ t.kind = "paired" => t.pid \in 1 .. made /\ owner[t.pid] = t.user
  /\ t.kind = "revoked" => t.pid \in 1 .. made
  /\ t.kind = "hello" => t.pid \in 1 .. made /\ owner[t.pid] = t.user /\ home[t.pid] = t.addr
OwnedJob(owner, home, job) ==
  OwnedIn(owner, home, job.snap) /\ OwnedThen(owner, home, job.then)
OwnedSession(owner, home, a, s) ==
  s # None => s.pid \in 1 .. made /\ owner[s.pid] = s.user /\ home[s.pid] = a
OwnedBy(owner, home) ==
  /\ OwnedIn(owner, home, mem) /\ OwnedIn(owner, home, disk)
  /\ \A i \in DOMAIN jobs : OwnedJob(owner, home, jobs[i])
  /\ \A a \in Addrs : OwnedSession(owner, home, a, sessions[a])
  /\ \A u \in Users : acked[u] # 0 => acked[u] \in 1 .. made /\ owner[acked[u]] = u
  /\ pair.pending # None =>
       /\ pair.pending.pid \in 1 .. made
       /\ owner[pair.pending.pid] = pair.pending.user /\ home[pair.pending.pid] = pair.pending.addr
       /\ \A u \in Users : acked[u] # pair.pending.pid
Owners == [1 .. MaxSecret -> Users \cup {None}]
Homes == [1 .. MaxSecret -> Addrs \cup {None}]
Owned == \E owner \in Owners, home \in Homes : OwnedBy(owner, home)

Claims == InOrder /\ WaitingKept /\ SessionsKept /\ AckedKept /\ ToldKept
GateInv == GateType /\ Claims /\ Owned

-----------------------------------------------------------------------------
(***************************************************************************)
(* The queue of saves.                                                     *)
(***************************************************************************)
Back(i, k) == IF k < i THEN k ELSE k + 1

LEMMA Joined ==
  ASSUME NEW S, NEW a \in Seq(S), NEW b \in Seq(S)
  PROVE  /\ a \o b \in Seq(S) /\ Len(a \o b) = Len(a) + Len(b)
         /\ DOMAIN (a \o b) = 1 .. Len(a) + Len(b)
         /\ \A k \in 1 .. Len(a) + Len(b) :
              (a \o b)[k] = IF k <= Len(a) THEN a[k] ELSE b[k - Len(a)]
OBVIOUS

LEMMA Removed ==
  ASSUME NEW S, NEW s \in Seq(S), NEW i \in DOMAIN s
  PROVE  /\ RemoveAt(s, i) \in Seq(S)
         /\ Len(RemoveAt(s, i)) = Len(s) - 1
         /\ \A k \in DOMAIN RemoveAt(s, i) :
              Back(i, k) \in DOMAIN s /\ RemoveAt(s, i)[k] = s[Back(i, k)]
<1> DEFINE a == SubSeq(s, 1, i - 1)
           b == SubSeq(s, i + 1, Len(s))
<1>1. Len(s) \in Nat /\ i \in 1 .. Len(s) /\ DOMAIN s = 1 .. Len(s)
  OBVIOUS
<1>2. a \in Seq(S) /\ Len(a) = i - 1 /\ \A k \in 1 .. i - 1 : a[k] = s[k]
  BY <1>1
<1>3. b \in Seq(S) /\ Len(b) = Len(s) - i /\ \A k \in 1 .. Len(s) - i : b[k] = s[k + i]
  BY <1>1
<1>4. RemoveAt(s, i) = a \o b
  BY DEF RemoveAt
<1> HIDE DEF a, b
<1>5. /\ a \o b \in Seq(S) /\ Len(a \o b) = Len(s) - 1 /\ DOMAIN (a \o b) = 1 .. Len(s) - 1
      /\ \A k \in 1 .. Len(s) - 1 : (a \o b)[k] = IF k <= i - 1 THEN a[k] ELSE b[k - (i - 1)]
  <2>1. Len(a) + Len(b) = Len(s) - 1
    BY <1>1, <1>2, <1>3
  <2>2. /\ a \o b \in Seq(S) /\ Len(a \o b) = Len(a) + Len(b)
        /\ DOMAIN (a \o b) = 1 .. Len(a) + Len(b)
        /\ \A k \in 1 .. Len(a) + Len(b) : (a \o b)[k] = IF k <= Len(a) THEN a[k] ELSE b[k - Len(a)]
    BY <1>2, <1>3, Joined, Zenon
  <2>3. Len(a) = i - 1
    BY <1>2
  <2> QED BY <2>1, <2>2, <2>3, Zenon
<1>6. ASSUME NEW k \in 1 .. Len(s) - 1
      PROVE  Back(i, k) \in DOMAIN s /\ (a \o b)[k] = s[Back(i, k)]
  <2>1. CASE k < i
    <3>1. k \in 1 .. i - 1 /\ k <= i - 1 /\ k \in DOMAIN s
      BY <1>1, <2>1
    <3> QED BY <1>2, <1>5, <2>1, <3>1 DEF Back
  <2>2. CASE ~(k < i)
    <3>1. k - (i - 1) \in 1 .. Len(s) - i /\ (k - (i - 1)) + i = k + 1
      BY <1>1, <2>2
    <3>2. ~(k <= i - 1) /\ k + 1 \in DOMAIN s
      BY <1>1, <2>2
    <3>3. b[k - (i - 1)] = s[k + 1]
      BY <1>3, <3>1
    <3> QED BY <1>5, <2>2, <3>2, <3>3 DEF Back
  <2> QED BY <2>1, <2>2
<1> QED BY <1>4, <1>5, <1>6

LEMMA BackOrder ==
  ASSUME NEW i \in Nat, NEW k \in Nat, NEW l \in Nat
  PROVE  /\ k < l => Back(i, k) < Back(i, l)
         /\ k <= l => Back(i, k) <= Back(i, l)
         /\ Back(i, k) # i
BY DEF Back

(* A job that leaves the queue disturbs no other.                          *)
LEMMA RemovalStep ==
  ASSUME GateType, InOrder, WaitingKept, NEW i \in DOMAIN jobs,
         jobs' = RemoveAt(jobs, i), UNCHANGED <<mem, disk, raced>>
  PROVE  /\ jobs' \in Seq(Jobs) /\ InOrder' /\ WaitingKept'
         /\ \A t : Kept(t) => Kept(t)'
<1>1. /\ jobs \in Seq(Jobs) /\ jobs' \in Seq(Jobs) /\ DOMAIN jobs \subseteq Nat /\ DOMAIN jobs' \subseteq Nat
      /\ \A k \in DOMAIN jobs' : Back(i, k) \in DOMAIN jobs /\ jobs'[k] = jobs[Back(i, k)]
  <2>1. jobs \in Seq(Jobs)
    BY DEF GateType
  <2>2. /\ jobs' \in Seq(Jobs)
        /\ \A k \in DOMAIN jobs' : Back(i, k) \in DOMAIN jobs /\ jobs'[k] = jobs[Back(i, k)]
    BY <2>1, Removed, Zenon
  <2> QED BY <2>1, <2>2
<1>2. \A k, l \in DOMAIN jobs' : /\ k < l => Back(i, k) < Back(i, l)
                                 /\ k <= l => Back(i, k) <= Back(i, l)
  BY <1>1, BackOrder
<1>3. InOrder'
  BY <1>1, <1>2 DEF InOrder
<1>4. WaitingKept'
  BY <1>1, <1>2 DEF WaitingKept
<1>5. ASSUME NEW t, Kept(t) PROVE Kept(t)'
  BY <1>1, <1>5 DEF Kept
<1> QED BY <1>1, <1>3, <1>4, <1>5

(* The one that is followed up had its save: what it relies on is kept.    *)
LEMMA FollowedUp ==
  ASSUME GateType, InOrder, WaitingKept, NEW i \in DOMAIN jobs, jobs[i].stage = "saved",
         jobs' = RemoveAt(jobs, i), UNCHANGED <<mem, disk, raced>>, NEW t, t = jobs[i].then
  PROVE  Kept(t)'
<1>1. Fits(t, mem, raced) /\ Fits(t, disk, raced)
      /\ \A j \in DOMAIN jobs : i <= j => Fits(t, jobs[j].snap, raced)
  BY DEF WaitingKept
<1>2. ASSUME NEW j \in DOMAIN jobs, jobs[j].stage = "saving" PROVE i <= j
  BY <1>2 DEF InOrder, GateType
<1>3. Kept(t)
  BY <1>1, <1>2 DEF Kept
<1> QED BY <1>3, RemovalStep

(* A save that ended well.                                                 *)
LEMMA StoredStep ==
  ASSUME GateType, InOrder, WaitingKept, Stored
  PROVE  /\ disk' \in Stores /\ jobs' \in Seq(Jobs) /\ InOrder' /\ WaitingKept'
         /\ \A t : Kept(t) => Kept(t)'
         /\ \E i \in DOMAIN jobs : disk' = jobs[i].snap
         /\ DOMAIN jobs' = DOMAIN jobs
         /\ \A i \in DOMAIN jobs : jobs'[i].snap = jobs[i].snap /\ jobs'[i].then = jobs[i].then
<1> PICK i \in DOMAIN jobs :
      /\ jobs[i].stage = "saving" /\ \A j \in 1 .. i - 1 : jobs[j].stage # "saving"
      /\ disk' = jobs[i].snap /\ jobs' = [jobs EXCEPT ![i].stage = "saved"]
      /\ UNCHANGED <<mem, raced>>
  BY DEF Stored, NextSave, Waits, hist
<1>1. /\ jobs \in Seq(Jobs) /\ DOMAIN jobs = 1 .. Len(jobs) /\ Len(jobs) \in Nat
      /\ \A j \in DOMAIN jobs : jobs[j] \in Jobs
  BY DEF GateType
<1>2. /\ DOMAIN jobs' = DOMAIN jobs /\ jobs'[i].stage = "saved"
      /\ \A j \in DOMAIN jobs : /\ jobs'[j].snap = jobs[j].snap /\ jobs'[j].then = jobs[j].then
                                /\ j # i => jobs'[j].stage = jobs[j].stage
                                /\ jobs'[j] \in Jobs
  BY <1>1 DEF Jobs
<1>3. jobs' \in Seq(Jobs) /\ disk' \in Stores
  BY <1>1, <1>2 DEF Jobs
<1>4. \A j \in DOMAIN jobs : j < i => jobs[j].stage = "saved"
  BY <1>1 DEF Jobs
<1>5. \A j \in DOMAIN jobs : jobs[j].stage = "saved" => j < i
  BY <1>1 DEF InOrder
<1>6. InOrder'
  BY <1>1, <1>2, <1>4, <1>5 DEF InOrder
<1>7. WaitingKept'
  <2> SUFFICES ASSUME NEW k \in DOMAIN jobs
               PROVE  LET t == jobs[k].then IN
                      /\ Fits(t, mem, raced)
                      /\ jobs'[k].stage = "saved" => Fits(t, disk', raced)
                      /\ \A j \in DOMAIN jobs : k <= j => Fits(t, jobs[j].snap, raced)
    BY <1>2 DEF WaitingKept
  <2>1. jobs'[k].stage = "saved" => k <= i
    BY <1>1, <1>2, <1>5
  <2> QED BY <2>1 DEF WaitingKept
<1>8. ASSUME NEW t, Kept(t) PROVE Kept(t)'
  <2>1. \A j \in DOMAIN jobs' : jobs'[j].stage = "saving" => jobs[j].stage = "saving"
    BY <1>2
  <2> QED BY <1>2, <1>8, <2>1 DEF Kept
<1> QED BY <1>2, <1>3, <1>6, <1>7, <1>8

(* Memory is changed and its records are on their way: the queue grows, and*)
(* of the handlers that wait some may have been taken back.                *)
LEMMA SaveStep ==
  ASSUME GateType, InOrder, WaitingKept,
         NEW Q \in Seq(Jobs), DOMAIN Q = DOMAIN jobs, Len(Q) = Len(jobs),
         \A i \in DOMAIN jobs : Q[i].snap = jobs[i].snap /\ Q[i].stage = jobs[i].stage,
         NEW t \in Thens, mem' \in Stores,
         jobs' = Append(Q, [snap |-> mem', stage |-> "saving", then |-> t]),
         disk' = disk, raced \subseteq raced',
         \A i \in DOMAIN jobs : \A r : Fits(jobs[i].then, r, raced) => Fits(Q[i].then, r, raced'),
         \A i \in DOMAIN jobs : Fits(Q[i].then, mem', raced'),
         Fits(t, mem', raced')
  PROVE  /\ jobs' \in Seq(Jobs) /\ InOrder' /\ WaitingKept'
         /\ \A c : Kept(c) /\ Fits(c, mem', raced') /\ (\A r : Fits(c, r, raced) => Fits(c, r, raced')) => Kept(c)'
<1> DEFINE new == [snap |-> mem', stage |-> "saving", then |-> t]
           n == Len(jobs) + 1
<1>1. new \in Jobs /\ new.snap = mem' /\ new.stage = "saving" /\ new.then = t
  BY DEF Jobs
<1>2. jobs' = Append(Q, new)
  OBVIOUS
<1> HIDE DEF new
<1>3. /\ jobs' \in Seq(Jobs) /\ DOMAIN jobs = 1 .. Len(jobs) /\ Len(jobs) \in Nat
      /\ DOMAIN jobs' = 1 .. n /\ jobs'[n] = new
      /\ \A i \in DOMAIN jobs : jobs'[i] = Q[i] /\ i < n
  BY <1>1, <1>2 DEF GateType
<1>4. \A i \in DOMAIN jobs' : i \in DOMAIN jobs \/ i = n
  BY <1>3
<1>5. \A i \in DOMAIN jobs : /\ jobs'[i].snap = jobs[i].snap /\ jobs'[i].stage = jobs[i].stage
                           /\ jobs'[i].then = Q[i].then
  BY <1>3
<1> HIDE DEF n
<1>6. InOrder'
  <2> SUFFICES ASSUME NEW i \in DOMAIN jobs', NEW j \in DOMAIN jobs', i < j, jobs'[j].stage = "saved"
               PROVE  jobs'[i].stage = "saved"
    BY DEF InOrder
  <2>1. j \in DOMAIN jobs
    BY <1>1, <1>3, <1>4
  <2>2. i \in DOMAIN jobs
    BY <2>1, <1>3, <1>4 DEF n
  <2> QED BY <1>5, <2>1, <2>2 DEF InOrder
<1>7. WaitingKept'
  <2> SUFFICES ASSUME NEW i \in DOMAIN jobs', NEW c, c = jobs'[i].then
               PROVE  /\ Fits(c, mem', raced')
                      /\ jobs'[i].stage = "saved" => Fits(c, disk', raced')
                      /\ \A j \in DOMAIN jobs' : i <= j => Fits(c, jobs'[j].snap, raced')
    BY DEF WaitingKept
  <2>1. CASE i = n
    <3>1. \A j \in DOMAIN jobs' : i <= j => j = n
      BY <1>3, <2>1 DEF n
    <3> QED BY <1>1, <1>3, <2>1, <3>1
  <2>2. CASE i \in DOMAIN jobs
    <3>1. Fits(c, mem', raced') /\ c = Q[i].then
      BY <1>5, <2>2
    <3>2. \A r : Fits(jobs[i].then, r, raced) => Fits(c, r, raced')
      BY <2>2, <3>1
    <3>3. jobs'[i].stage = "saved" => Fits(c, disk', raced')
      BY <1>5, <2>2, <3>2 DEF WaitingKept
    <3>4. \A j \in DOMAIN jobs' : i <= j => Fits(c, jobs'[j].snap, raced')
      BY <1>1, <1>3, <1>4, <1>5, <2>2, <3>1, <3>2 DEF WaitingKept
    <3> QED BY <3>1, <3>3, <3>4
  <2> QED BY <1>4, <2>1, <2>2
<1>8. ASSUME NEW c, Kept(c), Fits(c, mem', raced'), \A r : Fits(c, r, raced) => Fits(c, r, raced')
      PROVE  Kept(c)'
  BY <1>1, <1>3, <1>4, <1>5, <1>8 DEF Kept
<1> QED BY <1>3, <1>6, <1>7, <1>8

(* Only the sessions end, or nothing of this moves.                        *)
LEMMA StillStep ==
  ASSUME GateType, InOrder, WaitingKept, UNCHANGED <<mem, disk, jobs, raced>>
  PROVE  InOrder' /\ WaitingKept' /\ \A t : Kept(t) => Kept(t)'
BY DEF InOrder, WaitingKept, Kept

-----------------------------------------------------------------------------
(***************************************************************************)
(* What a change of the records does to what others rely on.               *)
(***************************************************************************)
LEMMA FitsMore ==
  ASSUME NEW past, NEW later, past \subseteq later, NEW t, NEW r, Fits(t, r, past)
  PROVE  Fits(t, r, later)
BY DEF Fits

HasUser(t) == t.kind \in {"hello", "paired"} => t.user \in Users

LEMMA ThensHaveUsers ==
  ASSUME NEW t \in Thens
  PROVE  HasUser(t)
BY DEF Thens, HasUser, Nothing

(* One record, of user u, changed but is still the same pairing's.         *)
Grown(u) ==
  /\ mem[u] # None /\ mem'[u] # None /\ mem'[u].pid = mem[u].pid
  /\ mem[u].on => mem'[u].on
  /\ mem[u].old \cup {mem[u].secret} \subseteq mem'[u].old \cup {mem'[u].secret}
  /\ \A v \in Users : v # u => mem'[v] = mem[v]

LEMMA FitsGrown ==
  ASSUME NEW u \in Users, Grown(u), raced \subseteq raced',
         NEW t, HasUser(t), Fits(t, mem, raced)
  PROVE  Fits(t, mem', raced')
<1>1. CASE t.kind = "hello"
  BY <1>1 DEF Fits, HasUser, Grown
<1>2. CASE t.kind = "paired"
  BY <1>2 DEF Fits, HasUser, Grown
<1>3. CASE t.kind = "revoked"
  BY <1>3 DEF Fits, Grown
<1>4. CASE t.kind \notin {"hello", "paired", "revoked"}
  BY <1>4 DEF Fits
<1> QED BY <1>1, <1>2, <1>3, <1>4

(* User u's record is taken off, or replaced by rec: who relied on it has  *)
(* raced or was taken back.                                                *)
Replaced(u, rec) == mem' = [mem EXCEPT ![u] = rec]

LEMMA FitsReplaced ==
  ASSUME mem \in Stores, NEW u \in Users, NEW rec \in Records \cup {None}, Replaced(u, rec),
         raced \subseteq raced', NEW t, HasUser(t), Fits(t, mem, raced),
         t.kind = "hello" /\ t.user = u => t.pid \in raced',
         t.kind = "paired" /\ t.user = u /\ t.holds => rec # None /\ rec.pid = t.pid,
         t.kind = "revoked" /\ t.holds /\ rec # None => rec.pid # t.pid
  PROVE  Fits(t, mem', raced')
<1>0. mem'[u] = rec /\ \A v \in Users : v # u => mem'[v] = mem[v]
  BY DEF Replaced, Stores
<1>1. CASE t.kind = "hello"
  BY <1>0, <1>1 DEF Fits, HasUser
<1>2. CASE t.kind = "paired"
  BY <1>0, <1>2 DEF Fits, HasUser
<1>3. CASE t.kind = "revoked"
  BY <1>0, <1>3 DEF Fits
<1>4. CASE t.kind \notin {"hello", "paired", "revoked"}
  BY <1>4 DEF Fits
<1> QED BY <1>1, <1>2, <1>3, <1>4

LEMMA SupersededJobs ==
  ASSUME GateType, NEW u \in Users, NEW p
  PROVE  LET Q == Superseded(u, p) IN
         /\ Q \in Seq(Jobs) /\ DOMAIN Q = DOMAIN jobs /\ Len(Q) = Len(jobs)
         /\ \A i \in DOMAIN jobs :
              /\ Q[i].snap = jobs[i].snap /\ Q[i].stage = jobs[i].stage
              /\ Undone(jobs[i].then, u, p) =>
                   /\ Q[i].then.kind = jobs[i].then.kind /\ Q[i].then.kind \in {"paired", "revoked"}
                   /\ Q[i].then.pid = jobs[i].then.pid
                   /\ Q[i].then.kind = "paired" => Q[i].then.user = jobs[i].then.user
                   /\ ~Q[i].then.holds /\ Q[i].then \in Thens
              /\ ~Undone(jobs[i].then, u, p) => Q[i].then = jobs[i].then
<1> DEFINE Q == Superseded(u, p)
<1>1. /\ DOMAIN jobs = 1 .. Len(jobs) /\ Len(jobs) \in Nat /\ \A i \in DOMAIN jobs : jobs[i] \in Jobs
  BY DEF GateType
<1>2. ASSUME NEW i \in DOMAIN jobs
      PROVE  /\ Q[i] \in Jobs /\ Q[i].snap = jobs[i].snap /\ Q[i].stage = jobs[i].stage
             /\ Undone(jobs[i].then, u, p) =>
                   /\ Q[i].then.kind = jobs[i].then.kind /\ Q[i].then.kind \in {"paired", "revoked"}
                   /\ Q[i].then.pid = jobs[i].then.pid
                   /\ Q[i].then.kind = "paired" => Q[i].then.user = jobs[i].then.user
                   /\ ~Q[i].then.holds /\ Q[i].then \in Thens
             /\ ~Undone(jobs[i].then, u, p) => Q[i].then = jobs[i].then
  <2> DEFINE t == jobs[i].then
  <2>1. jobs[i] \in Jobs /\ t \in Thens /\ jobs[i].snap \in Stores /\ jobs[i].stage \in {"saving", "saved"}
    BY <1>1 DEF Jobs
  <2>2. CASE ~Undone(t, u, p)
    BY <2>1, <2>2 DEF Superseded
  <2>3. CASE Undone(t, u, p)
    <3>1. Q[i] = [jobs[i] EXCEPT !.then.holds = FALSE]
      BY <2>3 DEF Superseded
    <3>2. t \in [kind : {"paired"}, user : Users, pid : Nat, holds : BOOLEAN]
          \/ t \in [kind : {"revoked"}, pid : Nat, holds : BOOLEAN]
      BY <2>1, <2>3 DEF Thens, Undone, Nothing
    <3> DEFINE t2 == [t EXCEPT !.holds = FALSE]
    <3>3. /\ t2 \in Thens /\ t2.kind = t.kind /\ t2.kind \in {"paired", "revoked"} /\ ~t2.holds
          /\ t2.pid = t.pid /\ (t2.kind = "paired" => t2.user = t.user)
      BY <3>2 DEF Thens
    <3>4. Q[i] = [jobs[i] EXCEPT !.then = t2]
      BY <2>1, <3>1 DEF Jobs
    <3> HIDE DEF t2, t, Q
    <3>5. Q[i] \in Jobs /\ Q[i].then = t2 /\ Q[i].snap = jobs[i].snap /\ Q[i].stage = jobs[i].stage
      BY <2>1, <3>3, <3>4 DEF Jobs
    <3> QED BY <2>3, <3>3, <3>5 DEF t
  <2> QED BY <2>2, <2>3
<1>3. DOMAIN Q = DOMAIN jobs /\ Q = [i \in DOMAIN jobs |-> Q[i]]
  BY DEF Superseded
<1> HIDE DEF Q
<1>4. Q \in Seq(Jobs) /\ Len(Q) = Len(jobs)
  <2>1. Q \in [1 .. Len(jobs) -> Jobs]
    BY <1>1, <1>2, <1>3
  <2> QED BY <1>1, <2>1
<1> QED BY <1>2, <1>3, <1>4 DEF Q

LEMMA RacingAll ==
  ASSUME GateType, NEW u \in Users, NEW i \in DOMAIN jobs,
         jobs[i].then.kind = "hello", jobs[i].then.user = u
  PROVE  jobs[i].then.pid \in Racing(u)
BY DEF Racing

LEMMA RacingNat ==
  ASSUME GateType, NEW u \in Users
  PROVE  Racing(u) \subseteq Nat /\ Pids(u) \subseteq Nat
<1>1. \A i \in DOMAIN jobs : jobs[i].then \in Thens
  <2>1. \A i \in DOMAIN jobs : jobs[i] \in Jobs
    BY DEF GateType
  <2> QED BY <2>1 DEF Jobs
<1>2. \A t \in Thens : t.kind = "hello" => t.pid \in Nat
  BY DEF Thens, Nothing
<1>3. Racing(u) \subseteq Nat
  BY <1>1, <1>2 DEF Racing
<1>4. mem[u] \in Records \cup {None}
  BY DEF GateType, Stores
<1> QED BY <1>3, <1>4 DEF Pids, Records

-----------------------------------------------------------------------------
(***************************************************************************)
(* Types.                                                                  *)
(***************************************************************************)
LEMMA SaveType ==
  ASSUME GateType, NEW Q \in Seq(Jobs), NEW records \in Stores, NEW t \in Thens,
         saveAfter(Q, records, t)
  PROVE  jobs' \in Seq(Jobs)
         /\ jobs' = Append(Q, [snap |-> records, stage |-> "saving", then |-> t])
<1>1. [snap |-> records, stage |-> "saving", then |-> t] \in Jobs
  BY DEF Jobs
<1> QED BY <1>1 DEF saveAfter

LEMMA ResumesWhich ==
  ASSUME GateType, NEW t, Resumes(t)
  PROVE  \E i \in DOMAIN jobs : jobs[i].stage = "saved" /\ jobs[i].then = t /\ jobs' = RemoveAt(jobs, i)
BY DEF Resumes

LEMMA ResumesType ==
  ASSUME GateType, NEW t, Resumes(t)
  PROVE  jobs' \in Seq(Jobs) /\ t \in Thens
<1> PICK i \in DOMAIN jobs : jobs[i].then = t /\ jobs' = RemoveAt(jobs, i)
  BY ResumesWhich
<1>1. jobs \in Seq(Jobs) /\ jobs[i] \in Jobs
  BY DEF GateType
<1>2. jobs' \in Seq(Jobs)
  BY <1>1, Removed
<1> QED BY <1>1, <1>2 DEF Jobs

LEMMA ThenFields ==
  /\ Nothing \in Thens
  /\ \A u \in Users, p \in Nat, h \in BOOLEAN :
       [kind |-> "paired", user |-> u, pid |-> p, holds |-> h] \in Thens
  /\ \A p \in Nat, h \in BOOLEAN : [kind |-> "revoked", pid |-> p, holds |-> h] \in Thens
  /\ \A u \in Users, a \in Addrs, p \in Nat, k \in Nat, d \in BOOLEAN :
       [kind |-> "hello", user |-> u, addr |-> a, pid |-> p, secret |-> k, due |-> d] \in Thens
  /\ \A t \in Thens :
       /\ t.kind \in {"nothing", "paired", "revoked", "hello"}
       /\ t.kind = "paired" => t.user \in Users /\ t.pid \in Nat /\ t.holds \in BOOLEAN
       /\ t.kind = "revoked" => t.pid \in Nat /\ t.holds \in BOOLEAN
       /\ t.kind = "hello" => /\ t.user \in Users /\ t.addr \in Addrs /\ t.pid \in Nat
                              /\ t.secret \in Nat /\ t.due \in BOOLEAN
BY DEF Thens, Nothing

LEMMA WindowType ==
  ASSUME GateType, openPairWindow \/ closePairWindow \/ WindowTimesOut
                   \/ (\E u \in Users, a \in Addrs : OnCommit(u, a))
                   \/ (\E a \in Addrs, kept \in BOOLEAN : OnReveal(a, kept))
  PROVE  GateType' /\ pair'.pending \in {None, pair.pending}
         /\ UNCHANGED <<store, sessions, jobs, made, day, hist>>
<1>0. pair \in Windows
  BY DEF GateType
<1>1. UNCHANGED <<store, sessions, jobs, made, day, hist>>
  BY DEF openPairWindow, closePairWindow, WindowTimesOut, OnCommit, OnReveal
<1>2. pair' \in Windows /\ pair'.pending \in {None, pair.pending}
  <2>1. CASE openPairWindow \/ closePairWindow
    <3>1. pair' = [NoPair EXCEPT !.stage = "waiting"] \/ pair' = NoPair
      BY <2>1 DEF openPairWindow, closePairWindow
    <3>2. NoPair \in Windows /\ NoPair.pending = None
      BY DEF NoPair, Windows
    <3>3. [NoPair EXCEPT !.stage = "waiting"] \in Windows
          /\ [NoPair EXCEPT !.stage = "waiting"].pending = None
      BY <3>2 DEF Windows
    <3> QED BY <3>1, <3>2, <3>3
  <2>2. CASE WindowTimesOut
    BY <1>0, <2>2 DEF WindowTimesOut, Windows
  <2>3. CASE \E u \in Users, a \in Addrs : OnCommit(u, a)
    <3> PICK u \in Users, a \in Addrs :
          pair' = [pair EXCEPT !.addr = a, !.lib = [user |-> u, code |-> FALSE], !.stage = "waiting"]
      BY <2>3 DEF OnCommit
    <3> DEFINE lib == [user |-> u, code |-> FALSE]
    <3>1. lib \in [user : Users, code : BOOLEAN]
      OBVIOUS
    <3>2. pair' = [pair EXCEPT !.addr = a, !.lib = lib, !.stage = "waiting"]
      OBVIOUS
    <3> HIDE DEF lib
    <3> QED BY <1>0, <3>1, <3>2 DEF Windows
  <2>4. CASE \E a \in Addrs, kept \in BOOLEAN : OnReveal(a, kept)
    <3>1. pair.lib \in [user : Users, code : BOOLEAN]
      BY <1>0, <2>4 DEF OnReveal, Windows
    <3> DEFINE lib == [pair.lib EXCEPT !.code = TRUE]
    <3>2. lib \in [user : Users, code : BOOLEAN]
      BY <3>1
    <3>3. \/ pair' = [pair EXCEPT !.lib = lib, !.stage = "code"]
          \/ pair' = [pair EXCEPT !.lib = None, !.stage = "failed"]
      BY <1>0, <2>4 DEF OnReveal, Windows
    <3> HIDE DEF lib
    <3>4. CASE pair' = [pair EXCEPT !.lib = lib, !.stage = "code"]
      BY <1>0, <3>2, <3>4 DEF Windows
    <3>5. CASE pair' = [pair EXCEPT !.lib = None, !.stage = "failed"]
      BY <1>0, <3>5 DEF Windows
    <3> QED BY <3>3, <3>4, <3>5
  <2> QED BY <2>1, <2>2, <2>3, <2>4
<1> QED BY <1>1, <1>2 DEF GateType, store, hist

-----------------------------------------------------------------------------
(***************************************************************************)
(* Every step keeps what is relied on.                                     *)
(***************************************************************************)
SameSession(a) == sessions'[a] # None => /\ sessions[a] # None
                                        /\ HelloOf(sessions'[a]) = HelloOf(sessions[a])

LEMMA QuietClaims ==
  ASSUME GateType, Claims, UNCHANGED <<mem, disk, jobs, raced, acked, dropped, told>>,
         \A a \in Addrs : SameSession(a)
  PROVE  Claims'
<1>1. InOrder' /\ WaitingKept'
  BY StillStep DEF Claims
<1>2. SessionsKept'
  <2> SUFFICES ASSUME NEW a \in Addrs, sessions'[a] # None, NEW c, c = HelloOf(sessions'[a])
               PROVE  Kept(c)'
    BY DEF SessionsKept, Kept
  <2> QED BY StillStep DEF Claims, SessionsKept, SameSession
<1>3. AckedKept' /\ ToldKept'
  BY DEF Claims, AckedKept, ToldKept, Kept, PairedOf
<1> QED BY <1>1, <1>2, <1>3 DEF Claims

LEMMA StoredClaims ==
  ASSUME GateType, Claims, Stored
  PROVE  Claims' /\ GateType'
<1>1. UNCHANGED <<mem, sessions, pair, made, day, acked, dropped, told, raced, best>>
  BY DEF Stored, hist
<1>2. disk' \in Stores /\ jobs' \in Seq(Jobs) /\ InOrder' /\ WaitingKept' /\ \A t : Kept(t) => Kept(t)'
  BY StoredStep DEF Claims
<1>3. SessionsKept'
  <2> SUFFICES ASSUME NEW a \in Addrs, sessions[a] # None, NEW c, c = HelloOf(sessions[a])
               PROVE  Kept(c)'
    BY <1>1 DEF SessionsKept, Kept
  <2> QED BY <1>2 DEF Claims, SessionsKept
<1>4. AckedKept'
  <2> SUFFICES ASSUME NEW u \in Users, acked[u] # 0, acked[u] \notin dropped, NEW c, c = PairedOf(u)
               PROVE  Kept(c)'
    BY <1>1 DEF AckedKept, Kept, PairedOf
  <2> QED BY <1>2 DEF Claims, AckedKept
<1>5. ToldKept'
  <2> SUFFICES ASSUME NEW p \in told, NEW c, c = RevokedOf(p)
               PROVE  Kept(c)'
    BY <1>1 DEF ToldKept, Kept, RevokedOf
  <2> QED BY <1>2 DEF Claims, ToldKept
<1> QED BY <1>1, <1>2, <1>3, <1>4, <1>5 DEF Claims, GateType

(* A handler leaves the queue: it failed, or went on and said what stands. *)
LEMMA RemovalClaims ==
  ASSUME GateType, Claims, NEW i \in DOMAIN jobs,
         jobs' = RemoveAt(jobs, i), UNCHANGED <<mem, disk, raced, dropped>>,
         \A a \in Addrs : \/ SameSession(a)
                          \/ \E c : c = HelloOf(sessions'[a]) /\ Kept(c)',
         \A u \in Users : acked'[u] = acked[u]
                          \/ \E c : c = [kind |-> "paired", user |-> u, pid |-> acked'[u], holds |-> TRUE] /\ Kept(c)',
         \A p \in told' : p \in told \/ Kept(RevokedOf(p))'
  PROVE  Claims'
<1>1. InOrder' /\ WaitingKept' /\ \A t : Kept(t) => Kept(t)'
  BY RemovalStep DEF Claims
<1>2. SessionsKept'
  <2> SUFFICES ASSUME NEW a \in Addrs, sessions'[a] # None, NEW c, c = HelloOf(sessions'[a])
               PROVE  Kept(c)'
    BY DEF SessionsKept, Kept
  <2> QED BY <1>1 DEF Claims, SessionsKept, SameSession
<1>3. AckedKept'
  <2> SUFFICES ASSUME NEW u \in Users, acked'[u] # 0, acked'[u] \notin dropped, NEW c,
                      c = [kind |-> "paired", user |-> u, pid |-> acked'[u], holds |-> TRUE]
               PROVE  Kept(c)'
    BY DEF AckedKept, Kept, PairedOf
  <2> QED BY <1>1 DEF Claims, AckedKept, PairedOf
<1>4. ToldKept'
  <2> SUFFICES ASSUME NEW p \in told', NEW c, c = RevokedOf(p)
               PROVE  Kept(c)'
    BY DEF ToldKept, Kept, RevokedOf
  <2>1. p \in told => Kept(c)'
    BY <1>1 DEF Claims, ToldKept
  <2>2. Kept(RevokedOf(p))' => Kept(c)'
    BY DEF RevokedOf, Kept
  <2> QED BY <2>1, <2>2
<1> QED BY <1>1, <1>2, <1>3, <1>4 DEF Claims

(* Memory is changed and saved.                                            *)
LEMMA SaveClaims ==
  ASSUME GateType, Claims,
         NEW Q \in Seq(Jobs), DOMAIN Q = DOMAIN jobs, Len(Q) = Len(jobs),
         \A i \in DOMAIN jobs : Q[i].snap = jobs[i].snap /\ Q[i].stage = jobs[i].stage,
         NEW t \in Thens, mem' \in Stores,
         jobs' = Append(Q, [snap |-> mem', stage |-> "saving", then |-> t]),
         disk' = disk, raced \subseteq raced', acked' = acked,
         \A i \in DOMAIN jobs : \A r : Fits(jobs[i].then, r, raced) => Fits(Q[i].then, r, raced'),
         \A i \in DOMAIN jobs : Fits(Q[i].then, mem', raced'),
         Fits(t, mem', raced'),
         \A a \in Addrs : sessions'[a] # None =>
           SameSession(a) /\ \A c : c = HelloOf(sessions[a]) /\ Kept(c) => Fits(c, mem', raced'),
         \A u \in Users : acked[u] # 0 /\ acked[u] \notin dropped' =>
           acked[u] \notin dropped /\ (Kept(PairedOf(u)) => Fits(PairedOf(u), mem', raced')),
         \A p \in told' : p \in told /\ (Kept(RevokedOf(p)) => Fits(RevokedOf(p), mem', raced'))
  PROVE  Claims'
<1>1. /\ InOrder' /\ WaitingKept'
      /\ \A c : Kept(c) /\ Fits(c, mem', raced') /\ (\A r : Fits(c, r, raced) => Fits(c, r, raced')) => Kept(c)'
  BY SaveStep DEF Claims
<1>2. \A c, r : Fits(c, r, raced) => Fits(c, r, raced')
  BY FitsMore
<1>3. ASSUME NEW c, Kept(c), Fits(c, mem', raced') PROVE Kept(c)'
  BY <1>1, <1>2, <1>3
<1>4. SessionsKept'
  <2> SUFFICES ASSUME NEW a \in Addrs, sessions'[a] # None, NEW c, c = HelloOf(sessions'[a])
               PROVE  Kept(c)'
    BY DEF SessionsKept, Kept
  <2>1. Kept(c) /\ c = HelloOf(sessions[a])
    BY DEF Claims, SessionsKept, SameSession
  <2>2. Fits(c, mem', raced')
    BY <2>1
  <2> QED BY <1>3, <2>1, <2>2
<1>5. AckedKept'
  <2> SUFFICES ASSUME NEW u \in Users, acked[u] # 0, acked[u] \notin dropped', NEW c, c = PairedOf(u)
               PROVE  Kept(c)'
    BY DEF AckedKept, Kept, PairedOf
  <2>1. Kept(c) /\ Fits(c, mem', raced')
    BY DEF Claims, AckedKept
  <2> QED BY <1>3, <2>1
<1>6. ToldKept'
  <2> SUFFICES ASSUME NEW p \in told', NEW c, c = RevokedOf(p)
               PROVE  Kept(c)'
    BY DEF ToldKept, Kept, RevokedOf
  <2>1. Kept(c) /\ Fits(c, mem', raced')
    BY DEF Claims, ToldKept
  <2> QED BY <1>3, <2>1
<1> QED BY <1>1, <1>4, <1>5, <1>6 DEF Claims

LEMMA GrownClaims ==
  ASSUME GateType, Claims, NEW u \in Users, Grown(u), mem' \in Stores,
         NEW t \in Thens, Fits(t, mem', raced'), saveAfter(jobs, mem', t),
         raced \subseteq raced', UNCHANGED <<disk, acked, dropped, told>>,
         \A a \in Addrs : SameSession(a)
  PROVE  Claims'
<1>1. jobs \in Seq(Jobs) /\ \A i \in DOMAIN jobs : jobs[i].then \in Thens
  <2>1. \A i \in DOMAIN jobs : jobs[i] \in Jobs
    BY DEF GateType
  <2> QED BY <2>1 DEF GateType, Jobs
<1>2. jobs' = Append(jobs, [snap |-> mem', stage |-> "saving", then |-> t])
  BY DEF saveAfter
<1>3. \A c, r : Fits(c, r, raced) => Fits(c, r, raced')
  BY FitsMore
<1>4. ASSUME NEW c, HasUser(c), Fits(c, mem, raced) PROVE Fits(c, mem', raced')
  BY <1>4, FitsGrown
<1>5. \A i \in DOMAIN jobs : Fits(jobs[i].then, mem', raced')
  BY <1>1, <1>4, ThensHaveUsers DEF Claims, WaitingKept
<1>6. ASSUME NEW a \in Addrs, sessions'[a] # None, NEW c, c = HelloOf(sessions[a]), Kept(c)
      PROVE  Fits(c, mem', raced')
  <2>1. sessions[a] \in Sessions
    BY <1>6 DEF SameSession, GateType
  <2>2. HasUser(c)
    BY <1>6, <2>1 DEF HasUser, HelloOf, Sessions
  <2> QED BY <1>4, <1>6, <2>2 DEF Kept
<1>7. \A v \in Users : HasUser(PairedOf(v))
  BY DEF HasUser, PairedOf
<1>8. \A p : HasUser(RevokedOf(p))
  BY DEF HasUser, RevokedOf
<1>9. \A v \in Users : Kept(PairedOf(v)) => Fits(PairedOf(v), mem', raced')
  BY <1>4, <1>7 DEF Kept
<1>10. \A p : Kept(RevokedOf(p)) => Fits(RevokedOf(p), mem', raced')
  BY <1>4, <1>8 DEF Kept
<1> QED BY <1>1, <1>2, <1>3, <1>5, <1>6, <1>9, <1>10, SaveClaims

LEMMA WithoutSessions ==
  ASSUME NEW u \in Users, sessions' = Without(sessions, u)
  PROVE  \A a \in Addrs : SameSession(a) /\ (sessions'[a] # None => sessions[a].user # u)
BY DEF Without, SameSession

LEMMA ReplacedClaims ==
  ASSUME GateType, Claims, NEW u \in Users, NEW rec \in Records \cup {None}, Replaced(u, rec),
         NEW Q \in Seq(Jobs), DOMAIN Q = DOMAIN jobs, Len(Q) = Len(jobs),
         \A i \in DOMAIN jobs : /\ Q[i].snap = jobs[i].snap /\ Q[i].stage = jobs[i].stage
                                /\ \/ Q[i].then = jobs[i].then
                                   \/ Q[i].then.kind \in {"paired", "revoked"} /\ ~Q[i].then.holds,
         \A i \in DOMAIN jobs : Q[i].then.kind = "paired" /\ Q[i].then.user = u /\ Q[i].then.holds =>
           rec # None /\ rec.pid = Q[i].then.pid,
         \A i \in DOMAIN jobs : Q[i].then.kind = "revoked" /\ Q[i].then.holds /\ rec # None =>
           rec.pid # Q[i].then.pid,
         NEW t \in Thens, Fits(t, mem', raced'), saveAfter(Q, mem', t),
         raced' = raced \cup Racing(u), sessions' = Without(sessions, u),
         UNCHANGED <<disk, acked>>,
         \A v \in Users : acked[v] # 0 /\ acked[v] \notin dropped' =>
           acked[v] \notin dropped /\ (v = u /\ mem[u] # None => rec # None /\ rec.pid = mem[u].pid),
         told' \subseteq told, \A p \in told' : rec # None => rec.pid # p
  PROVE  Claims'
<1>1. jobs \in Seq(Jobs) /\ mem \in Stores /\ mem' \in Stores /\ \A i \in DOMAIN jobs : jobs[i].then \in Thens
  <2>1. \A i \in DOMAIN jobs : jobs[i] \in Jobs
    BY DEF GateType
  <2> QED BY <2>1 DEF GateType, Jobs, Replaced, Stores
<1>2. jobs' = Append(Q, [snap |-> mem', stage |-> "saving", then |-> t])
  BY DEF saveAfter
<1>3. \A c, r : Fits(c, r, raced) => Fits(c, r, raced')
  BY FitsMore
<1>4. \A i \in DOMAIN jobs : \A r : Fits(jobs[i].then, r, raced) => Fits(Q[i].then, r, raced')
  <2>1. \A i \in DOMAIN jobs : \A r : Q[i].then # jobs[i].then => Fits(Q[i].then, r, raced')
    BY DEF Fits
  <2> QED BY <1>3, <2>1
<1>5. ASSUME NEW i \in DOMAIN jobs PROVE Fits(Q[i].then, mem', raced')
  <2>1. CASE Q[i].then # jobs[i].then
    BY <2>1 DEF Fits
  <2>2. CASE Q[i].then = jobs[i].then
    <3> DEFINE c == jobs[i].then
    <3>1. HasUser(c) /\ Fits(c, mem, raced)
      BY <1>1, ThensHaveUsers DEF Claims, WaitingKept
    <3>2. c.kind = "hello" /\ c.user = u => c.pid \in raced'
      BY RacingAll
    <3>3. /\ c.kind = "paired" /\ c.user = u /\ c.holds => rec # None /\ rec.pid = c.pid
          /\ c.kind = "revoked" /\ c.holds /\ rec # None => rec.pid # c.pid
      BY <2>2
    <3> HIDE DEF c
    <3>4. Fits(c, mem', raced')
      BY <1>1, <3>1, <3>2, <3>3, FitsReplaced
    <3> QED BY <2>2, <3>4 DEF c
  <2> QED BY <2>1, <2>2
<1>6. \A a \in Addrs : SameSession(a) /\ (sessions'[a] # None => sessions[a].user # u)
  BY WithoutSessions
<1>7. ASSUME NEW a \in Addrs, sessions'[a] # None, NEW c, c = HelloOf(sessions[a]), Kept(c)
      PROVE  Fits(c, mem', raced')
  <2>1. sessions[a] \in Sessions /\ sessions[a].user # u
    BY <1>6, <1>7 DEF SameSession, GateType
  <2>2. HasUser(c) /\ c.kind = "hello" /\ c.user # u
    BY <1>7, <2>1 DEF HasUser, HelloOf, Sessions
  <2> QED BY <1>1, <1>7, <2>2, FitsReplaced DEF Kept
<1>8. ASSUME NEW v \in Users, acked[v] # 0, acked[v] \notin dropped', NEW c, c = PairedOf(v), Kept(c)
      PROVE  Fits(c, mem', raced')
  <2>1. HasUser(c) /\ c.kind = "paired" /\ c.user = v /\ c.pid = acked[v] /\ c.holds
    BY <1>8 DEF HasUser, PairedOf
  <2>2. Fits(c, mem, raced) /\ mem[v] # None /\ mem[v].pid = c.pid
    BY <1>8, <2>1 DEF Kept, Fits
  <2>3. v = u => rec # None /\ rec.pid = c.pid
    BY <1>8, <2>2
  <2> QED BY <1>1, <2>1, <2>2, <2>3, FitsReplaced
<1>9. ASSUME NEW p \in told', NEW c, c = RevokedOf(p), Kept(c)
      PROVE  Fits(c, mem', raced')
  <2>1. HasUser(c) /\ c.kind = "revoked" /\ c.pid = p
    BY <1>9 DEF HasUser, RevokedOf
  <2> QED BY <1>1, <1>9, <2>1, FitsReplaced DEF Kept
<1> QED
  <2>1. \A a \in Addrs : sessions'[a] # None =>
          SameSession(a) /\ \A c : c = HelloOf(sessions[a]) /\ Kept(c) => Fits(c, mem', raced')
    BY <1>6, <1>7
  <2>2. \A u1 \in Users : acked[u1] # 0 /\ acked[u1] \notin dropped' =>
          acked[u1] \notin dropped /\ (Kept(PairedOf(u1)) => Fits(PairedOf(u1), mem', raced'))
    BY <1>8
  <2>3. \A p \in told' : p \in told /\ (Kept(RevokedOf(p)) => Fits(RevokedOf(p), mem', raced'))
    BY <1>9
  <2> QED BY <1>1, <1>2, <1>4, <1>5, <2>1, <2>2, <2>3, SaveClaims

-----------------------------------------------------------------------------
(***************************************************************************)
(* One lemma per action, or for a few alike.                               *)
(***************************************************************************)
LEMMA JobsTyped ==
  ASSUME GateType
  PROVE  jobs \in Seq(Jobs) /\ \A i \in DOMAIN jobs : jobs[i] \in Jobs /\ jobs[i].then \in Thens
<1>1. \A i \in DOMAIN jobs : jobs[i] \in Jobs
  BY DEF GateType
<1> QED BY <1>1 DEF GateType, Jobs

LEMMA Promotes ==
  ASSUME NEW r \in Records, NEW k \in Nat, Proves(r, k), day \in Nat
  PROVE  /\ Promoted(r, k) \in Records /\ Promoted(r, k) # None
         /\ Promoted(r, k).pid = r.pid /\ Promoted(r, k).on = r.on /\ Promoted(r, k).user = r.user
         /\ Promoted(r, k).addr = r.addr
         /\ r.old \cup {r.secret} \subseteq Promoted(r, k).old \cup {Promoted(r, k).secret}
         /\ k \in Promoted(r, k).old \cup {Promoted(r, k).secret}
<1>1. CASE k = r.next
  <2>1. Promoted(r, k) = [r EXCEPT !.secret = k, !.next = 0, !.old = @ \cup {r.secret}, !.renewed = day]
    BY <1>1 DEF Promoted
  <2> DEFINE used == r.old \cup {r.secret}
  <2>2. used \in SUBSET Nat
    BY DEF Records
  <2>3. Promoted(r, k) = [r EXCEPT !.secret = k, !.next = 0, !.old = used, !.renewed = day]
    BY <2>1 DEF Records
  <2> HIDE DEF used
  <2>4. /\ Promoted(r, k) \in Records /\ Promoted(r, k).pid = r.pid /\ Promoted(r, k).on = r.on
        /\ Promoted(r, k).user = r.user /\ Promoted(r, k).old = used /\ Promoted(r, k).secret = k
        /\ Promoted(r, k).addr = r.addr
    <3>1. Promoted(r, k) = [user |-> r.user, addr |-> r.addr, pid |-> r.pid, secret |-> k, next |-> 0,
                             old |-> used, renewed |-> day, on |-> r.on]
      BY <2>3 DEF Records
    <3>2. r.user \in Users /\ r.addr \in Addrs \cup {None} /\ r.pid \in Nat /\ r.on \in BOOLEAN
      BY DEF Records
    <3>3. Promoted(r, k) \in Records
      BY <2>2, <3>1, <3>2 DEF Records
    <3> QED BY <3>1, <3>3
  <2> QED BY <2>4, NoneAssumption DEF used
<1>2. CASE k # r.next
  BY <1>2, NoneAssumption DEF Promoted, Proves, Records
<1> QED BY <1>1, <1>2

LEMMA MemIs ==
  ASSUME GateType, NEW u \in Users, mem[u] # None
  PROVE  mem[u] \in Records
BY DEF GateType, Stores

LEMMA HelloOkStep ==
  ASSUME GateType, Claims, NEW u \in Users, NEW k \in 1 .. made, NEW a \in Addrs, HelloOk(u, k, a)
  PROVE  GateType' /\ Claims'
<1> DEFINE r2 == Promoted(mem[u], k)
           t == [kind |-> "hello", user |-> u, addr |-> a, pid |-> mem[u].pid,
                 secret |-> k, due |-> Age(mem'[u]) >= 1]
<1>1. /\ mem[u] \in Records /\ mem[u].on /\ Proves(mem[u], k) /\ mem' = [mem EXCEPT ![u] = r2]
      /\ k \in Nat /\ day \in Nat
  BY MemIs, GateAssumption DEF HelloOk, GateType
<1>2. saveAfter(jobs, mem', t)
  BY DEF HelloOk, save
<1>3. UNCHANGED <<disk, sessions, pair, made, day, acked, dropped, told, raced, best>>
  BY DEF HelloOk, hist
<1>4. /\ r2 \in Records /\ r2 # None /\ r2.pid = mem[u].pid /\ r2.on = mem[u].on
      /\ mem[u].old \cup {mem[u].secret} \subseteq r2.old \cup {r2.secret}
      /\ k \in r2.old \cup {r2.secret}
  BY <1>1, Promotes
<1> HIDE DEF r2
<1>5. mem' \in Stores /\ mem'[u] = r2 /\ \A v \in Users : v # u => mem'[v] = mem[v]
  BY <1>1, <1>4 DEF GateType, Stores
<1>6. t \in Thens /\ t.kind = "hello" /\ t.user = u /\ t.pid = mem[u].pid /\ t.secret = k
  <2>1. mem[u].pid \in Nat
    BY <1>1 DEF Records
  <2> QED BY <1>1, <2>1 DEF Thens
<1> HIDE DEF t
<1>7. Fits(t, mem', raced')
  BY <1>1, <1>4, <1>5, <1>6 DEF Fits
<1>8. Grown(u) /\ \A b \in Addrs : SameSession(b)
  BY <1>1, <1>3, <1>4, <1>5, NoneAssumption DEF Grown, SameSession, HelloOk
<1>9. Claims'
  BY <1>2, <1>3, <1>5, <1>6, <1>7, <1>8, GrownClaims
<1>10. jobs' \in Seq(Jobs)
  BY <1>2, <1>5, <1>6, JobsTyped, SaveType
<1> QED BY <1>3, <1>5, <1>9, <1>10 DEF GateType

LEMMA RenewalSessions ==
  ASSUME GateType, NEW a \in Addrs, NEW good \in BOOLEAN, OnRenewal(a, good)
  PROVE  /\ sessions' \in [Addrs -> Sessions \cup {None}] /\ \A b \in Addrs : SameSession(b)
         /\ sessions'[a].renew = 0 /\ \A b \in Addrs : b # a => sessions'[b] = sessions[b]
<1> DEFINE x == sessions[a]
           y == [x EXCEPT !.renew = 0]
<1>1. x \in Sessions /\ x # None /\ sessions' = [sessions EXCEPT ![a] = y]
  BY DEF OnRenewal, GateType
<1>2. y \in Sessions /\ y.user = x.user /\ y.pid = x.pid /\ y.secret = x.secret /\ y.renew = 0
  BY <1>1 DEF Sessions
<1> HIDE DEF y
<1> QED BY <1>1, <1>2 DEF GateType, SameSession, HelloOf

LEMMA OnRenewalStep ==
  ASSUME GateType, Claims, NEW a \in Addrs, NEW good \in BOOLEAN, OnRenewal(a, good)
  PROVE  GateType' /\ Claims'
<1> DEFINE x == sessions[a]
           u == x.user
           r2 == [mem[u] EXCEPT !.next = x.renew]
<1>1. x \in Sessions /\ u \in Users /\ x.renew \in Nat /\ mem[u] \in Records /\ mem[u] # None
  <2>1. x \in Sessions
    BY DEF OnRenewal, GateType
  <2> QED BY <2>1, MemIs DEF OnRenewal, Sessions
<1>2. /\ sessions' = [sessions EXCEPT ![a].renew = 0]
      /\ UNCHANGED <<disk, pair, made, day, acked, dropped, told, best>>
      /\ IF good THEN /\ mem' = [mem EXCEPT ![u] = r2] /\ saveAfter(jobs, mem', Nothing)
                      /\ raced' = raced \cup (Pids(u) \ {x.pid})
         ELSE UNCHANGED <<mem, jobs, raced>>
  BY DEF OnRenewal, save
<1>3. sessions' \in [Addrs -> Sessions \cup {None}] /\ \A b \in Addrs : SameSession(b)
  BY RenewalSessions
<1>4. CASE good
  <2>1. /\ r2 \in Records /\ r2 # None /\ r2.pid = mem[u].pid /\ r2.on = mem[u].on
        /\ r2.old = mem[u].old /\ r2.secret = mem[u].secret
    BY <1>1, NoneAssumption DEF Records
  <2> HIDE DEF r2
  <2>2. mem' \in Stores /\ mem'[u] = r2 /\ \A v \in Users : v # u => mem'[v] = mem[v]
    BY <1>1, <1>2, <1>4, <2>1 DEF GateType, Stores
  <2>3. Grown(u)
    BY <1>1, <2>1, <2>2 DEF Grown
  <2>4. Nothing \in Thens /\ Fits(Nothing, mem', raced')
    BY DEF Nothing, Fits, Thens
  <2>5. raced' \subseteq Nat /\ raced \subseteq raced'
    BY <1>1, <1>2, <1>4, RacingNat DEF GateType
  <2>6. Claims'
    BY <1>1, <1>2, <1>3, <1>4, <2>2, <2>3, <2>4, <2>5, GrownClaims
  <2>7. jobs' \in Seq(Jobs)
    BY <1>2, <1>4, <2>2, <2>4, JobsTyped, SaveType
  <2> QED BY <1>2, <1>3, <2>2, <2>5, <2>6, <2>7 DEF GateType
<1>5. CASE ~good
  <2>1. Claims'
    BY <1>2, <1>3, <1>5, QuietClaims
  <2> QED BY <1>2, <1>3, <1>5, <2>1 DEF GateType
<1> QED BY <1>4, <1>5

LEMMA setOnStep ==
  ASSUME GateType, Claims, NEW u \in Users, NEW on \in BOOLEAN, setOn(u, on)
  PROVE  GateType' /\ Claims'
<1> DEFINE r2 == [mem[u] EXCEPT !.on = on]
<1>1. /\ mem[u] # None /\ mem[u] \in Records /\ mem' = [mem EXCEPT ![u] = r2]
      /\ sessions' = IF on THEN sessions ELSE Without(sessions, u)
      /\ raced' = IF on THEN raced ELSE raced \cup Racing(u)
      /\ saveAfter(jobs, mem', Nothing)
      /\ UNCHANGED <<disk, pair, made, day, acked, dropped, told, best>>
  BY MemIs DEF setOn, save
<1>2. /\ r2 \in Records /\ r2 # None /\ r2.pid = mem[u].pid /\ r2.on = on
      /\ r2.old = mem[u].old /\ r2.secret = mem[u].secret
  BY <1>1, NoneAssumption DEF Records
<1> HIDE DEF r2
<1>3. mem' \in Stores /\ mem'[u] = r2 /\ \A v \in Users : v # u => mem'[v] = mem[v]
  BY <1>1, <1>2 DEF GateType, Stores
<1>4. Nothing \in Thens /\ Fits(Nothing, mem', raced')
  BY DEF Nothing, Fits, Thens
<1>5. raced' \subseteq Nat /\ jobs' \in Seq(Jobs) /\ sessions' \in [Addrs -> Sessions \cup {None}]
  <2>1. jobs' \in Seq(Jobs)
    BY <1>1, <1>3, <1>4, JobsTyped, SaveType
  <2>2. Without(sessions, u) \in [Addrs -> Sessions \cup {None}]
    BY DEF GateType, Without
  <2> QED BY <1>1, <2>1, <2>2, RacingNat DEF GateType
<1>6. Claims'
  <2>1. CASE on
    <3>1. Grown(u) /\ \A b \in Addrs : SameSession(b)
      BY <1>1, <1>2, <1>3, <2>1 DEF Grown, SameSession
    <3> QED BY <1>1, <1>3, <1>4, <2>1, <3>1, GrownClaims
  <2>2. CASE ~on
    <3>1. Replaced(u, r2) /\ sessions' = Without(sessions, u) /\ raced' = raced \cup Racing(u)
      BY <1>1, <2>2 DEF Replaced
    <3>2. \A i \in DOMAIN jobs :
            /\ jobs[i].then.kind = "paired" /\ jobs[i].then.user = u /\ jobs[i].then.holds =>
                 r2 # None /\ r2.pid = jobs[i].then.pid
            /\ jobs[i].then.kind = "revoked" /\ jobs[i].then.holds => r2.pid # jobs[i].then.pid
      BY <1>1, <1>2 DEF Claims, WaitingKept, Fits
    <3>3. \A p \in told : r2.pid # p
      BY <1>1, <1>2 DEF Claims, ToldKept, Kept, RevokedOf, Fits
    <3> QED BY <1>1, <1>2, <1>4, <3>1, <3>2, <3>3, JobsTyped, ReplacedClaims
  <2> QED BY <2>1, <2>2
<1> QED BY <1>1, <1>3, <1>5, <1>6 DEF GateType

(* A pairing is dropped: no record of its user is left.                    *)
LEMMA PairedPids ==
  ASSUME Owned, NEW i \in DOMAIN jobs, jobs[i].then.kind = "paired"
  PROVE  jobs[i].then.pid # 0
<1> PICK owner \in Owners, home \in Homes : OwnedBy(owner, home)
  BY DEF Owned
<1>1. jobs[i].then.pid \in 1 .. made
  BY DEF OwnedBy, OwnedJob, OwnedThen
<1> QED BY <1>1

LEMMA DropStep ==
  ASSUME GateType, Claims, Owned, NEW u \in Users, mem[u] # None, drop(u), mem' = [mem EXCEPT ![u] = None],
         dropped' = dropped \cup Pids(u),
         NEW t \in Thens, t = Nothing \/ (t.kind = "revoked" /\ t.pid = mem[u].pid),
         t.kind = "revoked" => \A v \in Users : v # u /\ mem[v] # None => mem[v].pid # mem[u].pid,
         saveAfter(Superseded(u, 0), mem', t),
         UNCHANGED <<disk, pair, made, day, acked, told, best>>
  PROVE  GateType' /\ Claims'
<1> DEFINE Q == Superseded(u, 0)
<1>1. /\ Q \in Seq(Jobs) /\ DOMAIN Q = DOMAIN jobs /\ Len(Q) = Len(jobs)
      /\ \A i \in DOMAIN jobs :
           /\ Q[i].snap = jobs[i].snap /\ Q[i].stage = jobs[i].stage
           /\ Undone(jobs[i].then, u, 0) => Q[i].then.kind \in {"paired", "revoked"} /\ ~Q[i].then.holds
           /\ ~Undone(jobs[i].then, u, 0) => Q[i].then = jobs[i].then
  BY SupersededJobs
<1> HIDE DEF Q
<1>2. \A i \in DOMAIN jobs : jobs[i].then.kind = "paired" /\ jobs[i].then.user = u =>
        Undone(jobs[i].then, u, 0)
  BY PairedPids DEF Undone
<1>3. \A i \in DOMAIN jobs : Q[i].then.kind = "paired" /\ Q[i].then.user = u /\ Q[i].then.holds =>
        None # None /\ None.pid = Q[i].then.pid
  BY <1>1, <1>2
<1>4. mem' \in Stores /\ Replaced(u, None) /\ mem'[u] = None /\ \A v \in Users : v # u => mem'[v] = mem[v]
  BY DEF GateType, Stores, Replaced
<1>5. Fits(t, mem', raced')
  BY <1>4 DEF Fits, Nothing
<1>6. raced' = raced \cup Racing(u) /\ sessions' = Without(sessions, u)
  BY DEF drop
<1>7. \A v \in Users : acked[v] # 0 /\ acked[v] \notin dropped' => acked[v] \notin dropped
        /\ (v = u /\ mem[u] # None => None # None /\ None.pid = mem[u].pid)
  <2>1. \A v \in Users : acked[v] # 0 /\ acked[v] \notin dropped /\ v = u => acked[v] \in Pids(u)
    BY DEF Claims, AckedKept, Kept, Fits, PairedOf, Pids
  <2> QED BY <2>1
<1>8. Claims'
  <2>1. \A i \in DOMAIN jobs :
          /\ Q[i].snap = jobs[i].snap /\ Q[i].stage = jobs[i].stage
          /\ Q[i].then = jobs[i].then \/ (Q[i].then.kind \in {"paired", "revoked"} /\ ~Q[i].then.holds)
    BY <1>1
  <2>2. saveAfter(Q, mem', t)
    BY DEF Q
  <2> QED BY <1>1, <1>3, <1>4, <1>5, <1>6, <1>7, <2>1, <2>2, ReplacedClaims
<1>9. jobs' \in Seq(Jobs)
  BY <1>1, <1>4, SaveType DEF Q
<1>10. sessions' \in [Addrs -> Sessions \cup {None}] /\ raced' \subseteq Nat /\ dropped' \subseteq Nat
  BY <1>6, RacingNat DEF GateType, Without
<1> QED BY <1>4, <1>8, <1>9, <1>10 DEF GateType

LEMMA OtherPids ==
  ASSUME Owned, NEW u \in Users, NEW v \in Users, v # u, mem[u] # None, mem[v] # None
  PROVE  mem[v].pid # mem[u].pid
BY DEF Owned, OwnedBy, OwnedIn

LEMMA HelloDropsStep ==
  ASSUME GateType, Claims, Owned, NEW u \in Users, NEW k \in 1 .. made, NEW a \in Addrs,
         NEW named \in BOOLEAN, HelloDrops(u, k, a, named)
  PROVE  GateType' /\ Claims'
BY DropStep, ThenFields DEF HelloDrops, Nothing

LEMMA revokeStep ==
  ASSUME GateType, Claims, Owned, NEW u \in Users, revoke(u)
  PROVE  GateType' /\ Claims'
<1> DEFINE t == [kind |-> "revoked", pid |-> mem[u].pid, holds |-> TRUE]
<1>1. mem[u] # None /\ mem[u].pid \in Nat
  BY MemIs DEF revoke, Records
<1>2. t \in Thens /\ t.kind = "revoked" /\ t.pid = mem[u].pid
  BY <1>1, ThenFields
<1>3. saveAfter(Superseded(u, 0), mem', t)
  BY DEF revoke
<1> HIDE DEF t
<1> QED BY <1>1, <1>2, <1>3, OtherPids, DropStep DEF revoke

LEMMA OnConfirmStep ==
  ASSUME GateType, Claims, Owned, NEW a \in Addrs, OnConfirm(a)
  PROVE  GateType' /\ Claims'
<1> DEFINE rec == pair.pending
           u == rec.user
           t == [kind |-> "paired", user |-> u, pid |-> rec.pid, holds |-> TRUE]
           Q == Superseded(u, rec.pid)
<1>1. rec \in Records /\ rec # None /\ u \in Users /\ rec.pid \in Nat /\ \A v \in Users : acked[v] # rec.pid
  <2>1. rec \in Records /\ rec # None
    BY DEF OnConfirm, GateType, Windows
  <2> QED BY <2>1 DEF Owned, OwnedBy, Records
<1>2. /\ raced' = raced \cup Racing(u) /\ sessions' = Without(sessions, u)
      /\ mem' = [mem EXCEPT ![u] = rec] /\ saveAfter(Q, mem', t)
      /\ dropped' = (dropped \cup Pids(u)) \ {rec.pid} /\ told' = told \ {rec.pid}
      /\ best' = [best EXCEPT ![rec.pid] = 0]
      /\ UNCHANGED <<disk, pair, made, day, acked>>
  BY DEF OnConfirm, drop
<1>3. t \in Thens /\ t.kind = "paired" /\ t.user = u /\ t.pid = rec.pid
  BY <1>1, ThenFields
<1>4. /\ Q \in Seq(Jobs) /\ DOMAIN Q = DOMAIN jobs /\ Len(Q) = Len(jobs)
      /\ \A i \in DOMAIN jobs :
           /\ Q[i].snap = jobs[i].snap /\ Q[i].stage = jobs[i].stage
           /\ Undone(jobs[i].then, u, rec.pid) => Q[i].then.kind \in {"paired", "revoked"} /\ ~Q[i].then.holds
           /\ ~Undone(jobs[i].then, u, rec.pid) => Q[i].then = jobs[i].then
  BY <1>1, SupersededJobs
<1> HIDE DEF Q, t
<1>5. mem' \in Stores /\ Replaced(u, rec) /\ mem'[u] = rec
  BY <1>1, <1>2 DEF GateType, Stores, Replaced
<1>6. Fits(t, mem', raced')
  BY <1>1, <1>3, <1>5 DEF Fits
<1>7. \A i \in DOMAIN jobs :
        /\ Q[i].then.kind = "paired" /\ Q[i].then.user = u /\ Q[i].then.holds =>
             rec # None /\ rec.pid = Q[i].then.pid
        /\ Q[i].then.kind = "revoked" /\ Q[i].then.holds /\ rec # None => rec.pid # Q[i].then.pid
  BY <1>1, <1>4 DEF Undone
<1>8. \A v \in Users : acked[v] # 0 /\ acked[v] \notin dropped' => acked[v] \notin dropped
        /\ (v = u /\ mem[u] # None => rec # None /\ rec.pid = mem[u].pid)
  <2>1. \A v \in Users : acked[v] # 0 /\ acked[v] \notin dropped /\ v = u => acked[v] \in Pids(u)
    BY <1>1 DEF Claims, AckedKept, Kept, Fits, PairedOf, Pids
  <2>2. \A v \in Users : acked[v] \notin dropped' => acked[v] \notin dropped \cup Pids(u)
    BY <1>1, <1>2
  <2> QED BY <2>1, <2>2
<1>9. told' \subseteq told /\ \A p \in told' : rec # None => rec.pid # p
  BY <1>2
<1>10. Claims'
  <2>1. \A i \in DOMAIN jobs :
          /\ Q[i].snap = jobs[i].snap /\ Q[i].stage = jobs[i].stage
          /\ Q[i].then = jobs[i].then \/ (Q[i].then.kind \in {"paired", "revoked"} /\ ~Q[i].then.holds)
    BY <1>4
  <2>2. \A i \in DOMAIN jobs : Q[i].then.kind = "paired" /\ Q[i].then.user = u /\ Q[i].then.holds =>
          rec # None /\ rec.pid = Q[i].then.pid
    BY <1>7
  <2>3. \A i \in DOMAIN jobs : Q[i].then.kind = "revoked" /\ Q[i].then.holds /\ rec # None =>
          rec.pid # Q[i].then.pid
    BY <1>7
  <2> HIDE DEF rec, u
  <2> QED BY <1>1, <1>2, <1>3, <1>4, <1>5, <1>6, <1>8, <1>9, <2>1, <2>2, <2>3, ReplacedClaims, ZenonT(60)
<1>11. jobs' \in Seq(Jobs)
  BY <1>2, <1>3, <1>4, <1>5, SaveType
<1>12. sessions' \in [Addrs -> Sessions \cup {None}] /\ raced' \subseteq Nat /\ dropped' \subseteq Nat
       /\ told' \subseteq Nat /\ best' \in [1 .. MaxSecret -> Nat]
  BY <1>1, <1>2, RacingNat DEF GateType, Without
<1> QED BY <1>2, <1>5, <1>10, <1>11, <1>12 DEF GateType

(* Handlers that go on after their save.                                   *)
LEMMA ResumedKept ==
  ASSUME GateType, Claims, NEW t, Resumes(t), UNCHANGED <<mem, disk, raced>>
  PROVE  /\ Kept(t)' /\ t \in Thens /\ jobs' \in Seq(Jobs)
         /\ \E i \in DOMAIN jobs : jobs[i].then = t /\ jobs' = RemoveAt(jobs, i)
<1> PICK i \in DOMAIN jobs : jobs[i].stage = "saved" /\ jobs[i].then = t /\ jobs' = RemoveAt(jobs, i)
  BY ResumesWhich
<1>1. Kept(t)'
  BY FollowedUp DEF Claims
<1> QED BY <1>1, ResumesType

LEMMA PairedStep ==
  ASSUME GateType, Claims, NEW u \in Users, NEW p \in 1 .. made, NEW holds \in BOOLEAN, Paired(u, p, holds)
  PROVE  GateType' /\ Claims'
<1> DEFINE t == [kind |-> "paired", user |-> u, pid |-> p, holds |-> holds]
<1>1. /\ Resumes(t) /\ acked' = IF holds THEN [acked EXCEPT ![u] = p] ELSE acked
      /\ pair' = [NoPair EXCEPT !.stage = "paired"]
      /\ UNCHANGED <<mem, disk, sessions, made, day, dropped, told, raced, best>>
  BY DEF Paired, store
<1> HIDE DEF t
<1> PICK i \in DOMAIN jobs : Kept(t)' /\ jobs' \in Seq(Jobs) /\ jobs' = RemoveAt(jobs, i)
  BY <1>1, ResumedKept
<1>2. acked' \in [Users -> Nat] /\ \A v \in Users : acked'[v] = acked[v] \/ (v = u /\ holds /\ acked'[v] = p)
  BY <1>1 DEF GateType
<1>3. \A v \in Users : acked'[v] = acked[v]
        \/ \E c : c = [kind |-> "paired", user |-> v, pid |-> acked'[v], holds |-> TRUE] /\ Kept(c)'
  <2>1. holds => t = [kind |-> "paired", user |-> u, pid |-> p, holds |-> TRUE]
    BY DEF t
  <2> QED BY <1>2, <2>1
<1>4. Claims'
  BY <1>1, <1>3, RemovalClaims DEF SameSession
<1>5. pair' \in Windows
  BY <1>1 DEF NoPair, Windows
<1> QED BY <1>1, <1>2, <1>4, <1>5 DEF GateType

LEMMA RevokedStep ==
  ASSUME GateType, Claims, NEW p \in 1 .. made, NEW holds \in BOOLEAN, Revoked(p, holds)
  PROVE  GateType' /\ Claims'
<1> DEFINE t == [kind |-> "revoked", pid |-> p, holds |-> holds]
<1>1. /\ Resumes(t) /\ told' = IF holds THEN told \cup {p} ELSE told
      /\ UNCHANGED <<mem, disk, sessions, pair, made, day, acked, dropped, raced, best>>
  BY DEF Revoked, store
<1> HIDE DEF t
<1> PICK i \in DOMAIN jobs : Kept(t)' /\ jobs' \in Seq(Jobs) /\ jobs' = RemoveAt(jobs, i)
  BY <1>1, ResumedKept
<1>2. \A x \in told' : x \in told \/ Kept(RevokedOf(x))'
  <2>1. holds => t = RevokedOf(p)
    BY DEF t, RevokedOf
  <2>2. \A x \in told' : x \in told \/ (holds /\ x = p)
    BY <1>1
  <2>3. holds => Kept(RevokedOf(p))'
    BY <2>1 DEF Kept
  <2> QED BY <2>2, <2>3
<1>3. Claims'
  BY <1>1, <1>2, RemovalClaims DEF SameSession
<1>4. told' \subseteq Nat
  BY <1>1 DEF GateType
<1> QED BY <1>1, <1>3, <1>4 DEF GateType

LEMMA HelloAnsweredStep ==
  ASSUME GateType, Claims, NEW t, HelloAnswered(t)
  PROVE  GateType' /\ Claims'
<1> DEFINE s == [user |-> t.user, pid |-> t.pid, secret |-> t.secret, renew |-> IF t.due THEN made + 1 ELSE 0]
<1>1. /\ t.kind = "hello" /\ Resumes(t) /\ (t.due => made < MaxSecret)
      /\ made' = (IF t.due THEN made + 1 ELSE made)
      /\ sessions' = [sessions EXCEPT ![t.addr] = s]
      /\ best' = [best EXCEPT ![t.pid] = IF t.secret > @ THEN t.secret ELSE @]
      /\ UNCHANGED <<mem, disk, pair, day, acked, dropped, told, raced>>
  BY DEF HelloAnswered, store
<1> PICK i \in DOMAIN jobs : Kept(t)' /\ t \in Thens /\ jobs' \in Seq(Jobs) /\ jobs' = RemoveAt(jobs, i)
  BY <1>1, ResumedKept
<1>2. t.user \in Users /\ t.addr \in Addrs /\ t.pid \in Nat /\ t.secret \in Nat
  BY <1>1, ThenFields
<1>3. made \in Nat /\ made' \in 0 .. MaxSecret
  BY <1>1, GateAssumption DEF GateType
<1>4. s \in Sessions /\ s.user = t.user /\ s.pid = t.pid /\ s.secret = t.secret
  BY <1>2, <1>3 DEF Sessions
<1> HIDE DEF s
<1>5. sessions' \in [Addrs -> Sessions \cup {None}] /\ sessions'[t.addr] = s
      /\ \A a \in Addrs : a # t.addr => sessions'[a] = sessions[a]
  BY <1>1, <1>2, <1>4 DEF GateType
<1>6. ASSUME NEW c, c = HelloOf(s) PROVE Kept(c)'
  <2>1. /\ c.kind = "hello" /\ c.user = t.user /\ c.pid = t.pid /\ c.secret = t.secret
    BY <1>4, <1>6 DEF HelloOf
  <2>2. \A r, past : Fits(t, r, past) => Fits(c, r, past)
    BY <1>1, <2>1 DEF Fits
  <2> QED BY <2>2 DEF Kept
<1>7. \A a \in Addrs : SameSession(a) \/ \E c : c = HelloOf(sessions'[a]) /\ Kept(c)'
  BY <1>5, <1>6 DEF SameSession
<1>8. Claims'
  BY <1>1, <1>7, RemovalClaims
<1>9. best' \in [1 .. MaxSecret -> Nat]
  BY <1>1, <1>2 DEF GateType
<1> QED BY <1>1, <1>3, <1>5, <1>8, <1>9 DEF GateType

LEMMA LeavesStep ==
  ASSUME GateType, Claims, StoreFails \/ Finished
  PROVE  GateType' /\ Claims'
<1>1. UNCHANGED <<mem, disk, sessions, pair, made, day, acked, dropped, told, raced, best>>
  BY DEF StoreFails, Finished, store, hist
<1>2. \E i \in DOMAIN jobs : jobs' = RemoveAt(jobs, i)
  BY DEF StoreFails, Finished, Resumes
<1>3. Claims'
  BY <1>1, <1>2, RemovalClaims DEF SameSession
<1>4. jobs' \in Seq(Jobs)
  BY <1>2, Removed DEF GateType
<1> QED BY <1>1, <1>3, <1>4 DEF GateType

LEMMA SessionsEndStep ==
  ASSUME GateType, Claims,
         \/ \E a \in Addrs : OnBye(a)
         \/ \E gone \in SUBSET Addrs : linkGone(gone)
         \/ endSessions
  PROVE  GateType' /\ Claims' /\ UNCHANGED <<store, jobs, pair, made, day, hist>>
         /\ \A a \in Addrs : SameSession(a)
<1>1. UNCHANGED <<store, jobs, pair, made, day, hist>>
  BY DEF OnBye, linkGone, endSessions
<1>2. sessions' \in [Addrs -> Sessions \cup {None}] /\ \A a \in Addrs : SameSession(a)
  BY DEF OnBye, linkGone, endSessions, SameSession, GateType
<1>3. Claims'
  BY <1>1, <1>2, QuietClaims DEF store, hist
<1> QED BY <1>1, <1>2, <1>3 DEF GateType, store, hist

LEMMA TickStep ==
  ASSUME GateType, Claims, Tick
  PROVE  GateType' /\ Claims'
<1>1. UNCHANGED <<store, sessions, jobs, pair, made, hist>> /\ day' \in Nat
  BY DEF Tick, GateType
<1>2. Claims'
  BY <1>1, QuietClaims DEF store, hist, SameSession
<1> QED BY <1>1, <1>2 DEF GateType, store, hist

LEMMA WindowStep ==
  ASSUME GateType, Claims, openPairWindow \/ closePairWindow \/ WindowTimesOut
                   \/ (\E u \in Users, a \in Addrs : OnCommit(u, a))
                   \/ (\E a \in Addrs, kept \in BOOLEAN : OnReveal(a, kept))
  PROVE  GateType' /\ Claims'
<1>1. GateType' /\ UNCHANGED <<store, sessions, jobs, made, day, hist>>
  BY WindowType
<1> QED BY <1>1, QuietClaims DEF store, hist, SameSession

LEMMA approvePairingStep ==
  ASSUME GateType, Claims, approvePairing
  PROVE  /\ GateType' /\ Claims' /\ made' = made + 1 /\ pair'.pending.pid = made + 1
         /\ pair'.pending.user \in Users /\ pair'.pending.addr \in Addrs \cup {None}
         /\ made + 1 \in 1 .. MaxSecret /\ pair'.pending.old = {} /\ pair'.pending.next = 0
         /\ pair'.pending.secret = made + 1
         /\ UNCHANGED <<store, sessions, jobs, day, hist>>
<1> DEFINE rec == Record(pair.lib.user, pair.addr, made + 1)
<1>1. /\ pair.lib # None /\ made < MaxSecret /\ made' = made + 1
      /\ pair' = [pair EXCEPT !.pending = rec, !.lib = None, !.stage = "approved"]
      /\ UNCHANGED <<store, sessions, jobs, day, hist>>
  BY DEF approvePairing
<1>2. pair \in Windows /\ made \in Nat /\ day \in Nat /\ made + 1 \in 1 .. MaxSecret
  BY <1>1, GateAssumption DEF GateType
<1>3. pair.lib.user \in Users /\ pair.addr \in Addrs \cup {None}
  BY <1>1, <1>2 DEF Windows
<1>4. /\ rec \in Records /\ rec.pid = made + 1 /\ rec.user \in Users
      /\ rec.addr \in Addrs \cup {None} /\ rec.old = {} /\ rec.next = 0 /\ rec.secret = made + 1
  BY <1>2, <1>3 DEF Record, Records
<1> HIDE DEF rec
<1>5. pair' \in Windows /\ pair'.pending = rec
  BY <1>1, <1>2, <1>4 DEF Windows
<1>6. GateType'
  BY <1>1, <1>2, <1>5 DEF GateType, store, hist
<1>7. Claims'
  BY <1>1, QuietClaims DEF store, hist, SameSession
<1> QED BY <1>1, <1>2, <1>4, <1>5, <1>6, <1>7

LEMMA RestartStep ==
  ASSUME GateType, Claims, Owned, Restart
  PROVE  GateType' /\ Claims'
<1> DEFINE Nobody == [u \in Users |-> None]
           job == [snap |-> mem', stage |-> "saving", then |-> Nothing]
           held == {mem'[u].pid : u \in {v \in Users : mem'[v] # None}}
<1>0. /\ \/ mem' = disk /\ jobs' = <<>>
         \/ mem' = Nobody /\ jobs' = <<job>>
      /\ dropped' = (dropped \ held) \cup (1 .. made \ held)
  BY DEF Restart
<1> HIDE DEF Nobody, job, held
<1>1. /\ (mem' = disk /\ jobs' = <<>>) \/ (mem' = Nobody /\ jobs' = <<job>>)
      /\ sessions' = [a \in Addrs |-> None] /\ pair' = NoPair
      /\ dropped' = (dropped \ held) \cup (1 .. made \ held)
      /\ UNCHANGED <<disk, made, day, acked, told, raced, best>>
  BY <1>0 DEF Restart
<1>2. mem' \in Stores /\ disk' = disk /\ disk \in Stores
  BY <1>1 DEF GateType, Stores, Nobody
<1>3. job \in Jobs /\ job.stage = "saving" /\ job.snap = mem' /\ job.then = Nothing
  BY <1>2, ThenFields DEF Jobs, job
<1>4. /\ jobs' \in Seq(Jobs)
      /\ \A i \in DOMAIN jobs' : jobs'[i] = job /\ i = 1
  <2>1. CASE jobs' = <<>>
    BY <2>1
  <2>2. CASE jobs' = <<job>>
    BY <1>3, <2>2
  <2> QED BY <1>1, <2>1, <2>2
<1>5. pair' \in Windows
  BY <1>1 DEF NoPair, Windows
<1>6. GateType'
  <2>1. dropped' \subseteq Nat
    <3>1. dropped \subseteq Nat /\ 1 .. made \subseteq Nat
      BY DEF GateType
    <3>2. dropped' = (dropped \ held) \cup (1 .. made \ held)
      BY <1>1
    <3> QED BY <3>1, <3>2, Zenon
  <2>2. sessions' \in [Addrs -> Sessions \cup {None}]
    BY <1>1
  <2> QED BY <1>1, <1>2, <1>4, <1>5, <2>1, <2>2 DEF GateType
<1>7. InOrder' /\ WaitingKept' /\ SessionsKept'
  <2>1. \A r, past : Fits(Nothing, r, past)
    BY DEF Fits, Nothing
  <2> QED BY <1>1, <1>3, <1>4, <2>1 DEF InOrder, WaitingKept, SessionsKept
<1>8. ASSUME NEW c, Fits(c, mem', raced), Fits(c, disk, raced) PROVE Kept(c)'
  BY <1>1, <1>3, <1>4, <1>8 DEF Kept
<1>9. AckedKept'
  <2> SUFFICES ASSUME NEW u \in Users, acked[u] # 0, acked[u] \notin dropped', NEW c, c = PairedOf(u)
               PROVE  Kept(c)'
    BY <1>1 DEF AckedKept, Kept, PairedOf
  <2> PICK owner \in Owners, home \in Homes : OwnedBy(owner, home)
    BY DEF Owned
  <2>1. acked[u] \in 1 .. made /\ owner[acked[u]] = u
    BY DEF OwnedBy
  <2>2. PICK v \in Users : mem'[v] # None /\ mem'[v].pid = acked[u]
    BY <1>1, <2>1 DEF held
  <2>3. mem' = disk
    BY <1>1, <2>2 DEF Nobody
  <2>4. v = u
    BY <2>1, <2>2, <2>3 DEF OwnedBy, OwnedIn
  <2>5. Fits(c, disk, raced)
    BY <2>2, <2>3, <2>4 DEF Fits, PairedOf
  <2> QED BY <1>8, <2>3, <2>5
<1>10. ToldKept'
  <2> SUFFICES ASSUME NEW p \in told, NEW c, c = RevokedOf(p)
               PROVE  Kept(c)'
    BY <1>1 DEF ToldKept, Kept, RevokedOf
  <2>1. Fits(c, disk, raced)
    BY DEF Claims, ToldKept, Kept
  <2>2. Fits(c, Nobody, raced)
    BY DEF Fits, RevokedOf, Nobody
  <2> QED BY <1>1, <1>8, <2>1, <2>2
<1> QED BY <1>6, <1>7, <1>9, <1>10 DEF Claims


-----------------------------------------------------------------------------
(***************************************************************************)
(* Whose a pairing is.                                                     *)
(***************************************************************************)
LEMMA OwnedKept ==
  ASSUME GateType, NEW owner \in Owners, NEW home \in Homes, OwnedBy(owner, home),
         made' \in Nat, made <= made',
         OwnedIn(owner, home, mem'), OwnedIn(owner, home, disk'),
         \A i \in DOMAIN jobs' : OwnedJob(owner, home, jobs'[i]),
         \A a \in Addrs : SameSession(a) \/ OwnedSession(owner, home, a, sessions'[a]),
         \A u \in Users : acked'[u] = acked[u] \/ (acked'[u] \in 1 .. made /\ owner[acked'[u]] = u),
         pair'.pending = None \/ (pair'.pending = pair.pending /\ acked' = acked)
  PROVE  Owned'
<1>1. \A p \in 1 .. made : p \in 1 .. made'
  BY DEF GateType
<1>2. OwnedIn(owner, home, mem)' /\ OwnedIn(owner, home, disk)'
  BY <1>1 DEF OwnedIn
<1>3. \A i \in DOMAIN jobs' : OwnedJob(owner, home, jobs[i])'
  BY <1>1 DEF OwnedJob, OwnedIn, OwnedThen
<1>3a. ASSUME NEW a \in Addrs, NEW s, s = sessions'[a] PROVE OwnedSession(owner, home, a, s)'
  <2>1. OwnedSession(owner, home, a, sessions[a])
    BY DEF OwnedBy
  <2>2. SameSession(a) /\ s # None =>
          /\ s.pid = sessions[a].pid /\ s.user = sessions[a].user /\ sessions[a] # None
    BY <1>3a DEF SameSession, HelloOf
  <2>3. OwnedSession(owner, home, a, s)
    BY <1>3a, <2>1, <2>2 DEF OwnedSession
  <2> QED BY <1>1, <2>3 DEF OwnedSession
<1>4. \A u \in Users : acked'[u] # 0 => acked'[u] \in 1 .. made' /\ owner[acked'[u]] = u
  BY <1>1 DEF OwnedBy
<1>5. pair'.pending # None =>
        /\ pair'.pending.pid \in 1 .. made'
        /\ owner[pair'.pending.pid] = pair'.pending.user /\ home[pair'.pending.pid] = pair'.pending.addr
        /\ \A u \in Users : acked'[u] # pair'.pending.pid
  BY <1>1 DEF OwnedBy
<1>6. \A a \in Addrs : OwnedSession(owner, home, a, sessions[a])'
  BY <1>3a DEF OwnedSession
<1>7. OwnedBy(owner, home)'
  BY <1>2, <1>3, <1>4, <1>5, <1>6 DEF OwnedBy
<1> QED BY <1>7 DEF Owned

LEMMA OwnedJobs ==
  ASSUME NEW owner, NEW home, OwnedBy(owner, home)
  PROVE  \A i \in DOMAIN jobs : OwnedJob(owner, home, jobs[i])
BY DEF OwnedBy

(* Nothing of it moves, or the window lets go of its pairing.              *)
LEMMA OwnedStill ==
  ASSUME GateType, Owned, UNCHANGED <<store, jobs, acked>>, made' \in Nat, made <= made',
         \A a \in Addrs : SameSession(a),
         pair'.pending \in {None, pair.pending}
  PROVE  Owned'
<1> PICK owner \in Owners, home \in Homes : OwnedBy(owner, home)
  BY DEF Owned
<1>1. /\ OwnedIn(owner, home, mem') /\ OwnedIn(owner, home, disk') /\ \A i \in DOMAIN jobs' : OwnedJob(owner, home, jobs'[i])
  BY OwnedJobs DEF OwnedBy, store
<1> QED BY <1>1, OwnedKept

LEMMA OwnedStored ==
  ASSUME GateType, Claims, Owned, Stored
  PROVE  Owned'
<1> PICK owner \in Owners, home \in Homes : OwnedBy(owner, home)
  BY DEF Owned
<1>1. UNCHANGED <<mem, sessions, pair, made, acked>> /\ made \in Nat /\ \A a \in Addrs : SameSession(a)
  BY DEF Stored, hist, GateType, SameSession
<1>2. /\ \E i \in DOMAIN jobs : disk' = jobs[i].snap
      /\ DOMAIN jobs' = DOMAIN jobs
      /\ \A i \in DOMAIN jobs : jobs'[i].snap = jobs[i].snap /\ jobs'[i].then = jobs[i].then
  BY StoredStep DEF Claims
<1>3. ASSUME NEW i \in DOMAIN jobs' PROVE OwnedJob(owner, home, jobs'[i])
  <2>1. OwnedJob(owner, home, jobs[i]) /\ jobs'[i].snap = jobs[i].snap /\ jobs'[i].then = jobs[i].then
    BY <1>2, OwnedJobs
  <2> QED BY <2>1 DEF OwnedJob
<1>4. OwnedIn(owner, home, mem') /\ OwnedIn(owner, home, disk')
  BY <1>1, <1>2, OwnedJobs DEF OwnedBy, OwnedJob
<1> QED BY <1>1, <1>3, <1>4, OwnedKept

(* A handler leaves the queue; what it says it was told of its pairing.    *)
LEMMA OwnedRemoval ==
  ASSUME GateType, Owned, NEW i \in DOMAIN jobs, jobs' = RemoveAt(jobs, i), UNCHANGED store,
         made' \in Nat, made <= made',
         \/ acked' = acked /\ pair'.pending \in {None, pair.pending}
         \/ /\ pair'.pending = None /\ jobs[i].then.kind = "paired"
            /\ \A u \in Users : acked'[u] = acked[u] \/ (u = jobs[i].then.user /\ acked'[u] = jobs[i].then.pid),
         \A a \in Addrs :
           \/ SameSession(a)
           \/ /\ jobs[i].then.kind = "hello" /\ a = jobs[i].then.addr
              /\ sessions'[a].user = jobs[i].then.user /\ sessions'[a].pid = jobs[i].then.pid
  PROVE  Owned'
<1> PICK owner \in Owners, home \in Homes : OwnedBy(owner, home)
  BY DEF Owned
<1>1. \A k \in DOMAIN jobs' : Back(i, k) \in DOMAIN jobs /\ jobs'[k] = jobs[Back(i, k)]
  BY Removed DEF GateType
<1>2. \A k \in DOMAIN jobs' : OwnedJob(owner, home, jobs'[k])
  BY <1>1, OwnedJobs
<1>3. OwnedIn(owner, home, mem') /\ OwnedIn(owner, home, disk')
  BY DEF OwnedBy, store
<1>4. OwnedJob(owner, home, jobs[i])
  BY OwnedJobs
<1>5. \A u \in Users : acked'[u] = acked[u] \/ (acked'[u] \in 1 .. made /\ owner[acked'[u]] = u)
  BY <1>4 DEF OwnedJob, OwnedThen
<1>6. pair'.pending = None \/ (pair'.pending = pair.pending /\ acked' = acked)
  OBVIOUS
<1>7. \A a \in Addrs : SameSession(a) \/ OwnedSession(owner, home, a, sessions'[a])
  BY <1>4 DEF OwnedJob, OwnedThen, OwnedSession
<1> QED BY <1>2, <1>3, <1>5, <1>6, <1>7, OwnedKept

(* Memory is changed and saved: whose its records are is known.            *)
LEMMA OwnedSave ==
  ASSUME GateType, NEW owner \in Owners, NEW home \in Homes, OwnedBy(owner, home), UNCHANGED <<disk, pair, made, acked>>,
         OwnedIn(owner, home, mem'),
         NEW Q \in Seq(Jobs), DOMAIN Q = DOMAIN jobs, Len(Q) = Len(jobs),
         \A i \in DOMAIN jobs : OwnedJob(owner, home, Q[i]),
         NEW t \in Thens, mem' \in Stores, saveAfter(Q, mem', t),
         OwnedThen(owner, home, t), \A a \in Addrs : SameSession(a)
  PROVE  Owned'
<1> DEFINE new == [snap |-> mem', stage |-> "saving", then |-> t]
<1>1. jobs' = Append(Q, new)
  BY DEF saveAfter
<1>2. OwnedJob(owner, home, new)
  BY DEF OwnedJob
<1> HIDE DEF new
<1>3. \A i \in DOMAIN jobs' : jobs'[i] = new \/ (i \in DOMAIN jobs /\ jobs'[i] = Q[i])
  BY <1>1
<1>4. \A i \in DOMAIN jobs' : OwnedJob(owner, home, jobs'[i])
  BY <1>2, <1>3
<1>5. OwnedIn(owner, home, disk') /\ made \in Nat
  BY DEF OwnedBy, GateType
<1> QED BY <1>4, <1>5, OwnedKept

LEMMA OwnedNothing ==
  ASSUME NEW owner, NEW home
  PROVE  Nothing \in Thens /\ OwnedThen(owner, home, Nothing)
BY DEF Thens, Nothing, OwnedThen

(* Memory is changed for one user: off the records, or still the same      *)
(* pairing's, or replaced by one that is known to be the user's.           *)
LEMMA OwnedChange ==
  ASSUME GateType, NEW owner \in Owners, NEW home \in Homes, OwnedBy(owner, home),
         UNCHANGED <<disk, pair, made, acked>>,
         NEW u \in Users, NEW r \in Records \cup {None}, Replaced(u, r),
         r # None => r.pid \in 1 .. made /\ owner[r.pid] = u /\ home[r.pid] = r.addr,
         NEW t \in Thens, OwnedThen(owner, home, t), \A a \in Addrs : SameSession(a),
         saveAfter(jobs, mem', t) \/ \E p : saveAfter(Superseded(u, p), mem', t)
  PROVE  Owned'
<1>1. mem' \in Stores /\ OwnedIn(owner, home, mem')
  BY DEF Replaced, GateType, Stores, OwnedIn, OwnedBy
<1>2. CASE saveAfter(jobs, mem', t)
  BY <1>1, <1>2, JobsTyped, OwnedJobs, OwnedSave
<1>3. ASSUME NEW p, saveAfter(Superseded(u, p), mem', t) PROVE Owned'
  <2> DEFINE Q == Superseded(u, p)
  <2>1. /\ Q \in Seq(Jobs) /\ DOMAIN Q = DOMAIN jobs /\ Len(Q) = Len(jobs)
        /\ \A i \in DOMAIN jobs :
             /\ Q[i].snap = jobs[i].snap
             /\ \/ Q[i].then = jobs[i].then
                \/ /\ Q[i].then.kind = jobs[i].then.kind /\ Q[i].then.pid = jobs[i].then.pid
                   /\ Q[i].then.kind # "hello"
                   /\ Q[i].then.kind = "paired" => Q[i].then.user = jobs[i].then.user
    BY SupersededJobs
  <2>2. saveAfter(Q, mem', t)
    BY <1>3
  <2> HIDE DEF Q
  <2>3. ASSUME NEW i \in DOMAIN jobs PROVE OwnedJob(owner, home, Q[i])
    <3>1. OwnedJob(owner, home, jobs[i])
      BY OwnedJobs
    <3>2. OwnedIn(owner, home, Q[i].snap)
      BY <2>1, <3>1 DEF OwnedJob
    <3> DEFINE c == Q[i].then
               d == jobs[i].then
    <3>3. \/ c = d
          \/ /\ c.kind = d.kind /\ c.pid = d.pid /\ c.kind # "hello"
             /\ c.kind = "paired" => c.user = d.user
      BY <2>1
    <3>4. OwnedThen(owner, home, d)
      BY <3>1 DEF OwnedJob
    <3> HIDE DEF c, d
    <3>5. OwnedThen(owner, home, c)
      BY <3>3, <3>4 DEF OwnedThen
    <3> QED BY <3>2, <3>5 DEF OwnedJob, c
  <2> QED BY <1>1, <2>1, <2>2, <2>3, OwnedSave
<1> QED BY <1>2, <1>3

LEMMA OwnedHelloOk ==
  ASSUME GateType, Owned, NEW u \in Users, NEW k \in 1 .. made, NEW a \in Addrs, HelloOk(u, k, a)
  PROVE  Owned'
<1> PICK owner \in Owners, home \in Homes : OwnedBy(owner, home)
  BY DEF Owned
<1> DEFINE r2 == Promoted(mem[u], k)
           t == [kind |-> "hello", user |-> u, addr |-> a, pid |-> mem[u].pid,
                 secret |-> k, due |-> Age(mem'[u]) >= 1]
<1>1. /\ mem[u] # None /\ mem[u] \in Records /\ Proves(mem[u], k) /\ Replaced(u, r2) /\ saveAfter(jobs, mem', t)
      /\ UNCHANGED <<disk, sessions, pair, made, acked>> /\ k \in Nat /\ day \in Nat /\ a = mem[u].addr
  BY MemIs DEF HelloOk, hist, Replaced, save, GateType
<1>2. r2 \in Records /\ r2.pid = mem[u].pid /\ r2.addr = mem[u].addr
  BY <1>1, Promotes
<1>3. mem[u].pid \in 1 .. made /\ owner[mem[u].pid] = u /\ home[mem[u].pid] = a
  BY <1>1 DEF OwnedBy, OwnedIn
<1>4. t \in Thens /\ t.kind = "hello" /\ t.pid = mem[u].pid /\ t.user = u /\ t.addr = a
  <2>1. mem[u].pid \in Nat
    BY <1>3
  <2> QED BY <1>1, <2>1 DEF Thens
<1> HIDE DEF r2, t
<1>5. OwnedThen(owner, home, t) /\ \A b \in Addrs : SameSession(b)
  BY <1>1, <1>3, <1>4 DEF OwnedThen, SameSession
<1> QED BY <1>1, <1>2, <1>3, <1>4, <1>5, OwnedChange

LEMMA OwnedOnRenewal ==
  ASSUME GateType, Owned, NEW a \in Addrs, NEW good \in BOOLEAN, OnRenewal(a, good)
  PROVE  Owned'
<1> PICK owner \in Owners, home \in Homes : OwnedBy(owner, home)
  BY DEF Owned
<1> DEFINE x == sessions[a]
           u == x.user
           r2 == [mem[u] EXCEPT !.next = x.renew]
<1>1. x \in Sessions /\ u \in Users /\ x.renew \in Nat /\ mem[u] \in Records /\ mem[u] # None
  <2>1. x \in Sessions
    BY DEF OnRenewal, GateType
  <2> QED BY <2>1, MemIs DEF OnRenewal, Sessions
<1>2. /\ UNCHANGED <<disk, pair, made, acked>>
      /\ (good /\ mem' = [mem EXCEPT ![u] = r2] /\ saveAfter(jobs, mem', Nothing)) \/ UNCHANGED <<mem, jobs>>
  BY DEF OnRenewal, save
<1>3. r2 \in Records /\ r2.pid = mem[u].pid /\ r2.addr = mem[u].addr
  BY <1>1 DEF Records
<1>4. r2.pid \in 1 .. made /\ owner[r2.pid] = u /\ home[r2.pid] = r2.addr
  BY <1>1, <1>3 DEF OwnedBy, OwnedIn
<1> HIDE DEF r2, u, x
<1>5. Nothing \in Thens /\ OwnedThen(owner, home, Nothing) /\ \A b \in Addrs : SameSession(b)
  BY OwnedNothing, RenewalSessions
<1>6. CASE good /\ mem' = [mem EXCEPT ![u] = r2] /\ saveAfter(jobs, mem', Nothing)
  <2>1. Replaced(u, r2)
    BY <1>6 DEF Replaced
  <2> QED BY <1>1, <1>2, <1>3, <1>4, <1>5, <1>6, <2>1, OwnedChange
<1>7. CASE UNCHANGED <<mem, jobs>>
  BY <1>2, <1>5, <1>7, OwnedStill DEF store, GateType
<1> QED BY <1>2, <1>6, <1>7

LEMMA OwnedPerson ==
  ASSUME GateType, Owned, NEW u \in Users,
         \/ revoke(u)
         \/ \E on \in BOOLEAN : setOn(u, on)
         \/ \E k \in 1 .. made, a \in Addrs, named \in BOOLEAN : HelloDrops(u, k, a, named)
  PROVE  Owned'
<1> PICK owner \in Owners, home \in Homes : OwnedBy(owner, home)
  BY DEF Owned
<1>1. /\ mem[u] # None /\ mem[u] \in Records /\ UNCHANGED <<disk, pair, made, acked>>
  BY MemIs DEF revoke, setOn, HelloDrops
<1>2. mem[u].pid \in 1 .. made /\ owner[mem[u].pid] = u /\ home[mem[u].pid] = mem[u].addr
  BY <1>1 DEF OwnedBy, OwnedIn
<1>3. Nothing \in Thens /\ OwnedThen(owner, home, Nothing) /\ \A b \in Addrs : SameSession(b)
  BY OwnedNothing, WithoutSessions DEF revoke, setOn, HelloDrops, drop, SameSession
<1>4. CASE revoke(u)
  <2> DEFINE t == [kind |-> "revoked", pid |-> mem[u].pid, holds |-> TRUE]
  <2>1. t \in Thens /\ t.kind = "revoked" /\ t.pid = mem[u].pid
    <3>1. mem[u].pid \in Nat
      BY <1>2
    <3> QED BY <3>1, ThenFields
  <2>2. Replaced(u, None) /\ saveAfter(Superseded(u, 0), mem', t)
    BY <1>4 DEF revoke, Replaced
  <2> HIDE DEF t
  <2>3. OwnedThen(owner, home, t)
    BY <1>2, <2>1 DEF OwnedThen
  <2> QED BY <1>1, <1>3, <2>1, <2>2, <2>3, OwnedChange
<1>5. ASSUME NEW on \in BOOLEAN, setOn(u, on) PROVE Owned'
  <2> DEFINE r2 == [mem[u] EXCEPT !.on = on]
  <2>1. r2 \in Records /\ r2.pid = mem[u].pid /\ r2.addr = mem[u].addr
    BY <1>1 DEF Records
  <2>2. Replaced(u, r2) /\ saveAfter(jobs, mem', Nothing)
    BY <1>5 DEF setOn, save, Replaced
  <2> HIDE DEF r2
  <2> QED BY <1>1, <1>2, <1>3, <2>1, <2>2, OwnedChange
<1>6. CASE \E k \in 1 .. made, a \in Addrs, named \in BOOLEAN : HelloDrops(u, k, a, named)
  <2>1. Replaced(u, None) /\ saveAfter(Superseded(u, 0), mem', Nothing)
    BY <1>6 DEF HelloDrops, Replaced
  <2> QED BY <1>1, <1>3, <2>1, OwnedChange
<1> QED BY <1>4, <1>5, <1>6

LEMMA OwnedOnConfirm ==
  ASSUME GateType, Owned, NEW a \in Addrs, OnConfirm(a)
  PROVE  Owned'
<1> PICK owner \in Owners, home \in Homes : OwnedBy(owner, home)
  BY DEF Owned
<1> DEFINE rec == pair.pending
           u == rec.user
           t == [kind |-> "paired", user |-> u, pid |-> rec.pid, holds |-> TRUE]
<1>1. rec \in Records /\ u \in Users /\ rec.pid \in 1 .. made /\ owner[rec.pid] = u /\ home[rec.pid] = rec.addr
  <2>1. rec \in Records /\ rec # None
    BY DEF OnConfirm, GateType, Windows
  <2> QED BY <2>1 DEF OwnedBy, Records
<1>2. Replaced(u, rec) /\ saveAfter(Superseded(u, rec.pid), mem', t) /\ UNCHANGED <<disk, pair, made, acked>>
  BY DEF OnConfirm, Replaced
<1>3. t \in Thens /\ t.kind = "paired" /\ t.user = u /\ t.pid = rec.pid
  <2>1. rec.pid \in Nat
    BY <1>1
  <2> QED BY <1>1, <2>1, ThenFields
<1>4. \A b \in Addrs : SameSession(b)
  BY <1>1, WithoutSessions DEF OnConfirm, drop
<1> HIDE DEF rec, t
<1>5. OwnedThen(owner, home, t)
  BY <1>1, <1>3 DEF OwnedThen
<1> QED BY <1>1, <1>2, <1>3, <1>4, <1>5, OwnedChange

LEMMA OwnedApprove ==
  ASSUME GateType, Claims, Owned, approvePairing
  PROVE  Owned'
<1> PICK owner \in Owners, home \in Homes : OwnedBy(owner, home)
  BY DEF Owned
<1>1. /\ made' = made + 1 /\ pair'.pending.pid = made + 1
      /\ pair'.pending.user \in Users /\ pair'.pending.addr \in Addrs \cup {None}
      /\ made + 1 \in 1 .. MaxSecret /\ UNCHANGED <<mem, disk, sessions, jobs, acked>>
  BY approvePairingStep DEF store, hist
<1> PICK owner2 : owner2 = [owner EXCEPT ![made + 1] = pair'.pending.user]
  OBVIOUS
<1> PICK home2 : home2 = [home EXCEPT ![made + 1] = pair'.pending.addr]
  OBVIOUS
<1>2. made \in Nat /\ \A p \in 1 .. made : p \in 1 .. made' /\ p # made + 1 /\ p \in 1 .. MaxSecret
  <2>1. made \in Nat /\ MaxSecret \in Nat /\ made <= MaxSecret
    BY GateAssumption DEF GateType
  <2> QED BY <1>1, <2>1
<1>3. /\ owner2 \in Owners /\ owner2[made + 1] = pair'.pending.user
      /\ home2 \in Homes /\ home2[made + 1] = pair'.pending.addr
      /\ \A p \in 1 .. made : owner2[p] = owner[p] /\ home2[p] = home[p]
  BY <1>1, <1>2 DEF Owners, Homes
<1>4. OwnedIn(owner2, home2, mem)' /\ OwnedIn(owner2, home2, disk)'
  BY <1>1, <1>2, <1>3 DEF OwnedBy, OwnedIn
<1>5. \A i \in DOMAIN jobs' : OwnedJob(owner2, home2, jobs[i])'
  <2> SUFFICES ASSUME NEW i \in DOMAIN jobs, NEW j, j = jobs[i]
               PROVE  OwnedJob(owner2, home2, j)'
    BY <1>1 DEF OwnedJob, OwnedIn, OwnedThen
  <2>1. OwnedIn(owner, home, j.snap) /\ OwnedThen(owner, home, j.then)
    BY OwnedJobs DEF OwnedJob
  <2>2. OwnedIn(owner2, home2, j.snap)'
    BY <1>2, <1>3, <2>1 DEF OwnedIn
  <2>3. OwnedThen(owner2, home2, j.then)'
    BY <1>2, <1>3, <2>1 DEF OwnedThen
  <2> QED BY <2>2, <2>3 DEF OwnedJob
<1>6. \A a \in Addrs : OwnedSession(owner2, home2, a, sessions[a])'
  BY <1>1, <1>2, <1>3 DEF OwnedBy, OwnedSession
<1>7. \A u \in Users : acked'[u] # 0 => acked'[u] \in 1 .. made' /\ owner2[acked'[u]] = u
  BY <1>1, <1>2, <1>3 DEF OwnedBy
<1>8. \A u \in Users : acked'[u] # made + 1
  BY <1>1, <1>2 DEF OwnedBy
<1>9. made + 1 \in 1 .. made'
  BY <1>1, <1>2
<1>10. OwnedBy(owner2, home2)'
  BY <1>1, <1>3, <1>4, <1>5, <1>6, <1>7, <1>8, <1>9 DEF OwnedBy
<1> QED BY <1>3, <1>10 DEF Owned

LEMMA OwnedResumed ==
  ASSUME GateType, Owned,
         \/ \E u \in Users, p \in 1 .. made, holds \in BOOLEAN : Paired(u, p, holds)
         \/ \E p \in 1 .. made, holds \in BOOLEAN : Revoked(p, holds)
         \/ \E t : HelloAnswered(t)
         \/ StoreFails \/ Finished
  PROVE  Owned'
<1>1. made \in Nat
  BY DEF GateType
<1>2. ASSUME NEW u \in Users, NEW p \in 1 .. made, NEW holds \in BOOLEAN, Paired(u, p, holds) PROVE Owned'
  <2> PICK i \in DOMAIN jobs : /\ jobs[i].then = [kind |-> "paired", user |-> u, pid |-> p, holds |-> holds]
                              /\ jobs' = RemoveAt(jobs, i)
    BY <1>2, ResumesWhich DEF Paired
  <2>1. acked' = (IF holds THEN [acked EXCEPT ![u] = p] ELSE acked) /\ UNCHANGED <<store, made>>
        /\ pair'.pending = None /\ \A a \in Addrs : SameSession(a)
    BY <1>2 DEF Paired, NoPair, SameSession
  <2>2. \A v \in Users : acked'[v] = acked[v] \/ (v = u /\ acked'[v] = p)
    BY <2>1 DEF GateType
  <2> QED BY <1>1, <2>1, <2>2, OwnedRemoval
<1>3. CASE \E p \in 1 .. made, holds \in BOOLEAN : Revoked(p, holds)
  <2>1. (\E i \in DOMAIN jobs : jobs' = RemoveAt(jobs, i)) /\ UNCHANGED <<store, made, pair, acked>>
        /\ \A a \in Addrs : SameSession(a)
    BY <1>3 DEF Revoked, Resumes, SameSession
  <2> QED BY <1>1, <2>1, OwnedRemoval
<1>4. ASSUME NEW t, HelloAnswered(t) PROVE Owned'
  <2> DEFINE s == [user |-> t.user, pid |-> t.pid, secret |-> t.secret, renew |-> IF t.due THEN made + 1 ELSE 0]
  <2> PICK i \in DOMAIN jobs : jobs[i].then = t /\ jobs' = RemoveAt(jobs, i)
    BY <1>4, ResumesWhich DEF HelloAnswered
  <2>1. /\ t.kind = "hello" /\ sessions' = [sessions EXCEPT ![t.addr] = s]
        /\ UNCHANGED <<store, pair, acked>> /\ made' \in {made, made + 1}
    BY <1>4 DEF HelloAnswered
  <2>2. made' \in Nat /\ made <= made'
    BY <1>1, <2>1
  <2>3. s.user = t.user /\ s.pid = t.pid
    OBVIOUS
  <2> HIDE DEF s
  <2>4. \A a \in Addrs : sessions'[a] = (IF a = t.addr THEN s ELSE sessions[a])
    BY <2>1 DEF GateType
  <2>5. \A a \in Addrs : SameSession(a)
          \/ /\ jobs[i].then.kind = "hello" /\ a = jobs[i].then.addr
             /\ sessions'[a].user = jobs[i].then.user /\ sessions'[a].pid = jobs[i].then.pid
    BY <2>1, <2>3, <2>4 DEF SameSession
  <2> QED BY <2>1, <2>2, <2>5, OwnedRemoval
<1>5. CASE StoreFails \/ Finished
  <2>1. (\E i \in DOMAIN jobs : jobs' = RemoveAt(jobs, i)) /\ UNCHANGED <<store, made, pair, acked>>
        /\ \A a \in Addrs : SameSession(a)
    BY <1>5 DEF StoreFails, Finished, Resumes, hist, SameSession
  <2> QED BY <1>1, <2>1, OwnedRemoval
<1> QED BY <1>2, <1>3, <1>4, <1>5

LEMMA OwnedRestart ==
  ASSUME GateType, Owned, Restart
  PROVE  Owned'
<1> PICK owner \in Owners, home \in Homes : OwnedBy(owner, home)
  BY DEF Owned
<1> DEFINE Nobody == [u \in Users |-> None]
           job == [snap |-> mem', stage |-> "saving", then |-> Nothing]
<1>1. /\ \/ mem' = disk /\ jobs' = <<>>
         \/ mem' = Nobody /\ jobs' = <<job>>
      /\ pair' = NoPair /\ UNCHANGED <<disk, made, acked>> /\ \A a \in Addrs : SameSession(a)
  BY DEF Restart, SameSession
<1>2. OwnedIn(owner, home, disk) /\ OwnedIn(owner, home, Nobody) /\ made \in Nat
  BY DEF OwnedBy, OwnedIn, GateType
<1> HIDE DEF Nobody
<1>3. OwnedIn(owner, home, mem')
  BY <1>1, <1>2
<1>4. OwnedJob(owner, home, job)
  BY <1>3 DEF OwnedJob, OwnedThen, Nothing
<1> HIDE DEF job
<1>5. \A i \in DOMAIN jobs' : OwnedJob(owner, home, jobs'[i])
  <2>1. CASE jobs' = <<>>
    BY <2>1
  <2>2. CASE jobs' = <<job>>
    BY <1>4, <2>2
  <2> QED BY <1>1, <2>1, <2>2
<1>6. pair'.pending = None
  BY <1>1 DEF NoPair
<1> QED BY <1>1, <1>2, <1>3, <1>5, <1>6, OwnedKept

-----------------------------------------------------------------------------
(***************************************************************************)
(* All together.                                                           *)
(***************************************************************************)
LEMMA GateInit == Init => GateInv
<1> SUFFICES ASSUME Init PROVE GateInv
  OBVIOUS
<1>1. /\ mem = [u \in Users |-> None] /\ disk = mem /\ sessions = [a \in Addrs |-> None]
      /\ jobs = <<>> /\ pair = NoPair /\ made = 0 /\ day = 0 /\ acked = [u \in Users |-> 0]
      /\ dropped = {} /\ told = {} /\ raced = {} /\ best = [s \in 1 .. MaxSecret |-> 0]
  BY DEF Init
<1>2. NoPair \in Windows
  BY DEF NoPair, Windows
<1>3. jobs \in Seq(Jobs) /\ DOMAIN jobs = {}
  BY <1>1
<1>4. GateType
  BY <1>1, <1>2, <1>3, GateAssumption DEF GateType, Stores
<1>5. Claims
  BY <1>1, <1>3 DEF Claims, InOrder, WaitingKept, SessionsKept, AckedKept, ToldKept
<1>6. Owned
  <2> DEFINE nobody == [p \in 1 .. MaxSecret |-> None]
  <2>1. nobody \in Owners /\ nobody \in Homes
    BY DEF Owners, Homes
  <2>2. OwnedBy(nobody, nobody)
    BY <1>1, <1>3 DEF OwnedBy, OwnedIn, OwnedSession, NoPair
  <2> QED BY <2>1, <2>2 DEF Owned
<1> QED BY <1>4, <1>5, <1>6 DEF GateInv

LEMMA GateStep == GateInv /\ [Next]_vars => GateInv'
<1> SUFFICES ASSUME GateType, Claims, Owned, [Next]_vars
             PROVE  GateType' /\ Claims' /\ Owned'
  BY DEF GateInv
<1>1. CASE \/ openPairWindow \/ closePairWindow \/ WindowTimesOut
           \/ (\E u \in Users, a \in Addrs : OnCommit(u, a))
           \/ (\E a \in Addrs, kept \in BOOLEAN : OnReveal(a, kept))
  <2>1. pair'.pending \in {None, pair.pending} /\ UNCHANGED <<store, jobs, made, acked>>
        /\ \A a \in Addrs : SameSession(a)
    BY <1>1, WindowType DEF hist, SameSession
  <2>2. Owned'
    BY <2>1, OwnedStill DEF GateType
  <2> QED BY <1>1, <2>2, WindowStep
<1>2. CASE approvePairing
  BY <1>2, approvePairingStep, OwnedApprove
<1>3. ASSUME NEW a \in Addrs, OnConfirm(a) PROVE GateType' /\ Claims' /\ Owned'
  BY <1>3, OnConfirmStep, OwnedOnConfirm
<1>4. ASSUME NEW u \in Users, NEW p \in 1 .. made, NEW holds \in BOOLEAN, Paired(u, p, holds)
      PROVE  GateType' /\ Claims' /\ Owned'
  BY <1>4, PairedStep, OwnedResumed
<1>5. ASSUME NEW u \in Users, NEW k \in 1 .. made, NEW a \in Addrs, HelloOk(u, k, a)
      PROVE  GateType' /\ Claims' /\ Owned'
  BY <1>5, HelloOkStep, OwnedHelloOk
<1>6. ASSUME NEW u \in Users, NEW k \in 1 .. made, NEW a \in Addrs, NEW named \in BOOLEAN,
             HelloDrops(u, k, a, named)
      PROVE  GateType' /\ Claims' /\ Owned'
  BY <1>6, HelloDropsStep, OwnedPerson
<1>7. ASSUME NEW t, HelloAnswered(t) PROVE GateType' /\ Claims' /\ Owned'
  BY <1>7, HelloAnsweredStep, OwnedResumed
<1>8. CASE \/ \E a \in Addrs : OnBye(a)
           \/ \E gone \in SUBSET Addrs : linkGone(gone)
           \/ endSessions
  <2>1. GateType' /\ Claims' /\ UNCHANGED <<store, jobs, pair, made, day, hist>>
        /\ \A a \in Addrs : SameSession(a)
    BY <1>8, SessionsEndStep
  <2> QED BY <2>1, OwnedStill DEF GateType, hist
<1>9. ASSUME NEW a \in Addrs, NEW good \in BOOLEAN, OnRenewal(a, good)
      PROVE  GateType' /\ Claims' /\ Owned'
  BY <1>9, OnRenewalStep, OwnedOnRenewal
<1>10. ASSUME NEW u \in Users, revoke(u) PROVE GateType' /\ Claims' /\ Owned'
  BY <1>10, revokeStep, OwnedPerson
<1>11. ASSUME NEW u \in Users, NEW on \in BOOLEAN, setOn(u, on) PROVE GateType' /\ Claims' /\ Owned'
  BY <1>11, setOnStep, OwnedPerson
<1>12. ASSUME NEW p \in 1 .. made, NEW holds \in BOOLEAN, Revoked(p, holds)
       PROVE  GateType' /\ Claims' /\ Owned'
  BY <1>12, RevokedStep, OwnedResumed
<1>13. CASE Stored
  BY <1>13, StoredClaims, OwnedStored
<1>14. CASE StoreFails \/ Finished
  BY <1>14, LeavesStep, OwnedResumed
<1>15. CASE Restart
  BY <1>15, RestartStep, OwnedRestart
<1>16. CASE Tick
  <2>1. UNCHANGED <<store, jobs, pair, made, acked>> /\ \A a \in Addrs : SameSession(a)
    BY <1>16 DEF Tick, hist, SameSession
  <2>2. Owned'
    BY <2>1, OwnedStill DEF GateType
  <2> QED BY <1>16, <2>2, TickStep
<1>17. CASE UNCHANGED vars
  <2>1. UNCHANGED <<store, sessions, jobs, pair, made, day, hist>>
    BY <1>17 DEF vars
  <2>2. Claims'
    BY <2>1, QuietClaims DEF store, hist, SameSession
  <2>3. Owned'
    BY <2>1, OwnedStill DEF GateType, hist, SameSession
  <2> QED BY <2>1, <2>2, <2>3 DEF GateType, store, hist
<1>18. CASE Pairing
  BY <1>1, <1>2, <1>3, <1>4, <1>18 DEF Pairing
<1>19. CASE Connection
  BY <1>5, <1>6, <1>7, <1>8, <1>9, <1>19 DEF Connection
<1>20. CASE Person
  BY <1>10, <1>11, <1>12, <1>20 DEF Person
<1> QED BY <1>13, <1>14, <1>15, <1>16, <1>17, <1>18, <1>19, <1>20 DEF Next

LEMMA GateAlways == Spec => []GateInv
BY GateInit, GateStep, PTL DEF Spec

(***************************************************************************)
(* What drops or switches off a pairing ends its sessions, at every        *)
(* address: drop(), setOn() of btTransit.ts.  A session that outlives its  *)
(* pairing was made by a hello that waited for its save meanwhile.         *)
(***************************************************************************)
THEOREM SessionsOutliveOnlyByALateHello == Spec => []OnlyALateHelloOutlives
<1>1. GateInv => OnlyALateHelloOutlives
  <2> SUFFICES ASSUME GateInv, NEW a \in Addrs, sessions[a] # None
               PROVE  Stands(sessions[a]) \/ sessions[a].pid \in raced
    BY DEF OnlyALateHelloOutlives
  <2>1. Fits(HelloOf(sessions[a]), mem, raced)
    BY DEF GateInv, Claims, SessionsKept, Kept
  <2> QED BY <2>1 DEF Fits, HelloOf, Stands
<1> QED BY <1>1, GateAlways, PTL

(***************************************************************************)
(* onHello() makes its session after the save of its record: the secret    *)
(* the session was made with is in the store as used.                      *)
(***************************************************************************)
THEOREM SessionsAreStored == Spec => []SessionSecretIsStored
<1>1. GateInv => SessionSecretIsStored
  <2> SUFFICES ASSUME GateInv, NEW a \in Addrs, sessions[a] # None, NEW s, s = sessions[a]
               PROVE  \/ s.pid \in raced
                      \/ /\ disk[s.user] # None /\ disk[s.user].pid = s.pid
                         /\ s.secret \in disk[s.user].old \cup {disk[s.user].secret}
    BY DEF SessionSecretIsStored
  <2>1. Fits(HelloOf(s), disk, raced)
    BY DEF GateInv, Claims, SessionsKept, Kept
  <2> QED BY <2>1 DEF Fits, HelloOf
<1> QED BY <1>1, GateAlways, PTL

(***************************************************************************)
(* CONFIRM is acked after its save: the acked pairing is in the store      *)
(* until something drops it.                                               *)
(***************************************************************************)
THEOREM AcksArePaired == Spec => []AckMeansPaired
<1>1. GateInv => AckMeansPaired
  BY DEF GateInv, Claims, AckedKept, Kept, PairedOf, Fits, AckMeansPaired
<1> QED BY <1>1, GateAlways, PTL

(***************************************************************************)
(* revoke() reports after its save, and no save begun earlier ends later:  *)
(* the revoked pairing is neither in memory nor in the store.              *)
(***************************************************************************)
THEOREM RevokesHold == Spec => []RevokedStaysGone
<1>1. GateInv => RevokedStaysGone
  BY DEF GateInv, Claims, ToldKept, Kept, RevokedOf, Fits, RevokedStaysGone
<1> QED BY <1>1, GateAlways, PTL

-----------------------------------------------------------------------------
(***************************************************************************)
(* Secrets.  A pairing's secrets only grow: what it used is no newer than  *)
(* its present one, and the renewed one that waits is no older (unless it  *)
(* raced).  Every record that may come back after a restart has reached    *)
(* the newest secret a session was made with; the hellos that wait come in *)
(* the order of their secrets; and what a session still offers is newer    *)
(* than what its pairing has.                                              *)
(***************************************************************************)
Ripe(r, past) ==
  /\ r.secret \in 1 .. made /\ r.next \in 0 .. made
  /\ r.pid \notin past => /\ \A o \in r.old : o <= r.secret
                          /\ r.next # 0 => r.secret <= r.next
AllRipe(records, past) == \A u \in Users : records[u] # None => Ripe(records[u], past)
Newest(records, past, newest) ==
  \A u \in Users : records[u] # None /\ records[u].pid \notin past =>
    newest[records[u].pid] <= records[u].secret
IsFresh(r) == r.old = {} /\ r.next = 0 /\ r.secret \in 1 .. made

RipeInv ==
  /\ AllRipe(mem, raced) /\ AllRipe(disk, raced)
  /\ \A i \in DOMAIN jobs : AllRipe(jobs[i].snap, raced)
  /\ pair.pending # None => IsFresh(pair.pending)
NewestInv ==
  /\ Newest(mem, raced, best) /\ Newest(disk, raced, best)
  /\ \A i \in DOMAIN jobs : jobs[i].stage = "saving" => Newest(jobs[i].snap, raced, best)
Follows(t, c) == c.kind = "hello" /\ c.pid = t.pid => t.secret <= c.secret
QueueInv ==
  \A i \in DOMAIN jobs :
    LET t == jobs[i].then IN
    t.kind = "hello" /\ t.pid \notin raced =>
      /\ best[t.pid] <= t.secret
      /\ \A j \in DOMAIN jobs : i < j => Follows(t, jobs[j].then)
Offered(s, records, past) ==
  LET r == records[s.user] IN
  r # None /\ r.pid = s.pid /\ s.pid \notin past => r.secret <= s.renew /\ r.next <= s.renew
OfferInv ==
  \A a \in Addrs : sessions[a] # None /\ sessions[a].renew # 0 =>
    sessions[a].renew <= made /\ Offered(sessions[a], mem, raced)

SecretsInv == RipeInv /\ NewestInv /\ QueueInv /\ OfferInv

LEMMA RipeStep ==
  ASSUME RipeInv, made \in Nat, made' \in Nat, made <= made', raced \subseteq raced',
         \/ mem' = mem \/ mem' = disk
         \/ \A u \in Users : mem'[u] # None => mem'[u] = mem[u] \/ Ripe(mem'[u], raced'),
         disk' = disk \/ \E i \in DOMAIN jobs : disk' = jobs[i].snap,
         \A i \in DOMAIN jobs' : jobs'[i].snap = mem' \/ \E j \in DOMAIN jobs : jobs'[i].snap = jobs[j].snap,
         \/ pair'.pending \in {None, pair.pending}
         \/ pair'.pending.old = {} /\ pair'.pending.next = 0 /\ pair'.pending.secret \in 1 .. made'
  PROVE  RipeInv'
<1>1. \A r : Ripe(r, raced) => Ripe(r, raced')
  BY DEF Ripe
<1>2. ASSUME NEW r, Ripe(r, raced') PROVE Ripe(r, raced)'
  BY <1>2 DEF Ripe
<1>3. ASSUME NEW records, AllRipe(records, raced) PROVE AllRipe(records, raced)'
  BY <1>1, <1>2, <1>3 DEF AllRipe
<1>4. AllRipe(mem', raced') /\ AllRipe(mem, raced)'
  <2>1. AllRipe(mem', raced')
    BY <1>1 DEF RipeInv, AllRipe
  <2> QED BY <1>2, <2>1 DEF AllRipe
<1>5. AllRipe(disk, raced)'
  <2>1. AllRipe(disk', raced)
    BY DEF RipeInv
  <2> QED BY <1>1, <1>2, <2>1 DEF AllRipe
<1>6. \A i \in DOMAIN jobs' : AllRipe(jobs[i].snap, raced)'
  <2> SUFFICES ASSUME NEW i \in DOMAIN jobs', NEW records, records = jobs'[i].snap
               PROVE  AllRipe(records, raced)'
    BY DEF AllRipe
  <2>1. CASE records = mem'
    BY <1>4, <2>1 DEF AllRipe
  <2>2. CASE \E j \in DOMAIN jobs : records = jobs[j].snap
    BY <1>3, <2>2 DEF RipeInv
  <2> QED BY <2>1, <2>2
<1>7. pair'.pending # None =>
        pair'.pending.old = {} /\ pair'.pending.next = 0 /\ pair'.pending.secret \in 1 .. made'
  BY DEF RipeInv, IsFresh
<1> QED BY <1>4, <1>5, <1>6, <1>7 DEF RipeInv, IsFresh

LEMMA NewestStep ==
  ASSUME GateType, Owned, NewestInv, raced \subseteq raced',
         best' \in [1 .. MaxSecret -> Nat], \A p \in 1 .. MaxSecret : best'[p] <= best[p],
         \/ mem' = mem \/ mem' = disk
         \/ \A u \in Users : mem'[u] # None =>
              \/ mem'[u] = mem[u]
              \/ mem'[u].pid \notin raced' => best'[mem'[u].pid] <= mem'[u].secret,
         disk' = disk \/ \E i \in DOMAIN jobs : jobs[i].stage = "saving" /\ disk' = jobs[i].snap,
         \A i \in DOMAIN jobs' : jobs'[i].stage = "saving" =>
           jobs'[i].snap = mem' \/ \E j \in DOMAIN jobs : jobs[j].stage = "saving" /\ jobs'[i].snap = jobs[j].snap
  PROVE  NewestInv'
<1> PICK owner \in Owners, home \in Homes : OwnedBy(owner, home)
  BY DEF Owned
<1>1. \A p \in 1 .. made : best'[p] \in Nat /\ best[p] \in Nat /\ best'[p] <= best[p]
  BY GateAssumption DEF GateType
<1>2. ASSUME NEW records \in Stores, OwnedIn(owner, home, records), NEW u \in Users, records[u] # None,
             records[u].pid \notin raced => best[records[u].pid] <= records[u].secret
      PROVE  records[u].pid \notin raced' => best'[records[u].pid] <= records[u].secret
  <2>1. records[u].pid \in 1 .. made /\ records[u].secret \in Nat
    BY <1>2 DEF OwnedIn, Stores, Records
  <2> QED BY <1>1, <1>2, <2>1
<1>3. ASSUME NEW records \in Stores, OwnedIn(owner, home, records), Newest(records, raced, best)
      PROVE  Newest(records, raced', best')
  BY <1>2, <1>3 DEF Newest
<1>4. /\ mem \in Stores /\ disk \in Stores /\ OwnedIn(owner, home, mem) /\ OwnedIn(owner, home, disk)
      /\ \A i \in DOMAIN jobs : jobs[i].snap \in Stores /\ OwnedIn(owner, home, jobs[i].snap)
  BY JobsTyped DEF GateType, OwnedBy, OwnedJob, Jobs
<1>5. Newest(mem', raced', best')
  <2>1. CASE mem' = mem \/ mem' = disk
    BY <1>3, <1>4, <2>1 DEF NewestInv
  <2>2. CASE \A u \in Users : mem'[u] # None =>
              \/ mem'[u] = mem[u]
              \/ mem'[u].pid \notin raced' => best'[mem'[u].pid] <= mem'[u].secret
    <3>1. Newest(mem, raced', best')
      BY <1>3, <1>4 DEF NewestInv
    <3> QED BY <2>2, <3>1 DEF Newest
  <2> QED BY <2>1, <2>2
<1>6. Newest(disk', raced', best')
  BY <1>3, <1>4 DEF NewestInv
<1>7. \A i \in DOMAIN jobs' : jobs'[i].stage = "saving" => Newest(jobs'[i].snap, raced', best')
  BY <1>3, <1>4, <1>5 DEF NewestInv
<1> QED BY <1>5, <1>6, <1>7 DEF NewestInv

(* A hello that waits was made for a pairing, so its best is a number.     *)
LEMMA HelloIs ==
  ASSUME GateType, Owned, NEW i \in DOMAIN jobs, jobs[i].then.kind = "hello"
  PROVE  /\ jobs[i].then.pid \in 1 .. made /\ jobs[i].then.pid \in 1 .. MaxSecret
         /\ jobs[i].then.secret \in Nat /\ jobs[i].then.user \in Users
<1>1. jobs[i].then.pid \in 1 .. made
  BY DEF Owned, OwnedBy, OwnedJob, OwnedThen
<1>2. jobs[i].then.secret \in Nat /\ jobs[i].then.user \in Users
  BY JobsTyped, ThenFields
<1>3. made \in Nat /\ MaxSecret \in Nat /\ made <= MaxSecret
  BY GateAssumption DEF GateType
<1> QED BY <1>1, <1>2, <1>3

(* The queue as it is, but for what some wait for; or one shorter.         *)
LEMMA QueueRemoval ==
  ASSUME GateType, QueueInv, NEW i \in DOMAIN jobs, jobs' = RemoveAt(jobs, i), UNCHANGED <<raced, best>>
  PROVE  QueueInv'
<1>1. /\ jobs \in Seq(Jobs) /\ DOMAIN jobs \subseteq Nat /\ jobs' \in Seq(Jobs) /\ DOMAIN jobs' \subseteq Nat
      /\ \A k \in DOMAIN jobs' : Back(i, k) \in DOMAIN jobs /\ jobs'[k] = jobs[Back(i, k)]
  <2>1. jobs \in Seq(Jobs)
    BY DEF GateType
  <2>2. /\ jobs' \in Seq(Jobs)
        /\ \A k \in DOMAIN jobs' : Back(i, k) \in DOMAIN jobs /\ jobs'[k] = jobs[Back(i, k)]
    BY <2>1, Removed, Zenon
  <2> QED BY <2>1, <2>2
<1>2. \A k, l \in DOMAIN jobs' : k < l => Back(i, k) < Back(i, l)
  BY <1>1, BackOrder
<1> QED BY <1>1, <1>2 DEF QueueInv

LEMMA QueueStored ==
  ASSUME GateType, Claims, QueueInv, Stored
  PROVE  QueueInv'
<1>1. /\ DOMAIN jobs' = DOMAIN jobs /\ UNCHANGED <<raced, best>>
      /\ \A i \in DOMAIN jobs : jobs'[i].then = jobs[i].then
  BY StoredStep DEF Claims, Stored, hist
<1> QED BY <1>1 DEF QueueInv

LEMMA QueueSave ==
  ASSUME GateType, Owned, QueueInv, raced \subseteq raced',
         best' \in [1 .. MaxSecret -> Nat], \A p \in 1 .. MaxSecret : best'[p] <= best[p],
         NEW Q \in Seq(Jobs), DOMAIN Q = DOMAIN jobs, Len(Q) = Len(jobs),
         \A i \in DOMAIN jobs : Q[i].then = jobs[i].then \/ Q[i].then.kind # "hello",
         NEW t \in Thens, saveAfter(Q, mem', t),
         t.kind = "hello" /\ t.pid \notin raced' =>
           /\ best'[t.pid] <= t.secret
           /\ \A i \in DOMAIN jobs : jobs[i].then.kind = "hello" /\ jobs[i].then.pid = t.pid =>
                jobs[i].then.secret <= t.secret
  PROVE  QueueInv'
<1> DEFINE new == [snap |-> mem', stage |-> "saving", then |-> t]
           n == Len(jobs) + 1
<1>1. jobs' = Append(Q, new) /\ new.then = t
  BY DEF saveAfter
<1> HIDE DEF new
<1>2. /\ Len(jobs) \in Nat /\ DOMAIN jobs = 1 .. Len(jobs) /\ DOMAIN jobs' = 1 .. n
      /\ jobs'[n] = new /\ \A i \in DOMAIN jobs : jobs'[i] = Q[i] /\ i < n
  BY <1>1 DEF GateType
<1>3. /\ \A i \in DOMAIN jobs' : i \in DOMAIN jobs \/ i = n
      /\ \A j \in DOMAIN jobs' : ~(n < j)
  BY <1>2
<1> HIDE DEF n
<1> SUFFICES ASSUME NEW i \in DOMAIN jobs', NEW c, c = jobs'[i].then, c.kind = "hello", c.pid \notin raced'
             PROVE  /\ best'[c.pid] <= c.secret
                    /\ \A j \in DOMAIN jobs' : i < j => Follows(c, jobs'[j].then)
  BY DEF QueueInv
<1>4. CASE i = n
  BY <1>1, <1>2, <1>3, <1>4
<1>5. CASE i \in DOMAIN jobs
  <2>1. c = jobs[i].then /\ c.pid \notin raced
    BY <1>2, <1>5
  <2>2. best[c.pid] <= c.secret /\ \A j \in DOMAIN jobs : i < j => Follows(c, jobs[j].then)
    BY <1>5, <2>1 DEF QueueInv
  <2>3. c.pid \in 1 .. MaxSecret /\ c.secret \in Nat
    BY <1>5, <2>1, HelloIs
  <2>4. best'[c.pid] \in Nat /\ best[c.pid] \in Nat /\ best'[c.pid] <= best[c.pid]
    BY <2>3 DEF GateType
  <2>5. best'[c.pid] <= c.secret
    BY <2>2, <2>3, <2>4
  <2>6. ASSUME NEW j \in DOMAIN jobs', i < j PROVE Follows(c, jobs'[j].then)
    <3>1. CASE j = n
      BY <1>1, <1>2, <1>5, <2>1, <3>1 DEF Follows
    <3>2. CASE j \in DOMAIN jobs
      BY <1>2, <2>2, <2>6, <3>2 DEF Follows
    <3> QED BY <1>3, <3>1, <3>2
  <2> QED BY <2>5, <2>6
<1> QED BY <1>3, <1>4, <1>5

LEMMA OfferStep ==
  ASSUME OfferInv, made \in Nat, made' \in Nat, made <= made', raced \subseteq raced', GateType,
         \A a \in Addrs : sessions'[a] # None /\ sessions'[a].renew # 0 =>
           /\ sessions'[a] = sessions[a]
           /\ LET s == sessions[a] IN
              mem'[s.user] = mem[s.user] \/ Offered(s, mem', raced')
  PROVE  OfferInv'
<1> SUFFICES ASSUME NEW a \in Addrs, sessions'[a] # None, sessions'[a].renew # 0, NEW s, s = sessions[a]
             PROVE  s.renew <= made' /\ Offered(s, mem', raced')
  BY DEF OfferInv, Offered
<1>1. s.renew <= made /\ Offered(s, mem, raced) /\ s \in Sessions
  BY DEF OfferInv, GateType
<1>2. s.renew <= made'
  BY <1>1 DEF Sessions
<1> QED BY <1>1, <1>2 DEF Offered

(* Nothing of the records or the queue moves.                              *)
EndOrStay == \A a \in Addrs : sessions'[a] \in {None, sessions[a]}

LEMMA QuietSecrets ==
  ASSUME GateType, GateType', SecretsInv, UNCHANGED <<mem, disk, jobs, raced, best>>, made <= made',
         EndOrStay,
         \/ pair'.pending \in {None, pair.pending}
         \/ pair'.pending.old = {} /\ pair'.pending.next = 0 /\ pair'.pending.secret \in 1 .. made'
  PROVE  SecretsInv'
<1>1. made \in Nat /\ made' \in Nat
  BY DEF GateType
<1>2. RipeInv'
  BY <1>1, RipeStep DEF SecretsInv
<1>3. NewestInv' /\ QueueInv'
  BY DEF SecretsInv, NewestInv, QueueInv
<1>4. OfferInv'
  BY <1>1, OfferStep DEF SecretsInv, EndOrStay
<1> QED BY <1>2, <1>3, <1>4 DEF SecretsInv

(* A handler leaves the queue and says no more than what stands.           *)
LEMMA LeavingJobs ==
  ASSUME GateType, NEW i \in DOMAIN jobs, jobs' = RemoveAt(jobs, i)
  PROVE  \A k \in DOMAIN jobs' : \E j \in DOMAIN jobs : jobs'[k] = jobs[j]
<1>1. jobs \in Seq(Jobs)
  BY DEF GateType
<1> QED BY <1>1, Removed, Zenon

LEMMA LeavingSecrets ==
  ASSUME GateType, GateType', Owned, SecretsInv, NEW i \in DOMAIN jobs, jobs' = RemoveAt(jobs, i),
         UNCHANGED <<mem, disk, sessions, made, raced, best>>, pair'.pending \in {None, pair.pending}
  PROVE  SecretsInv'
<1>1. made \in Nat /\ made <= made' /\ best' \in [1 .. MaxSecret -> Nat]
  BY DEF GateType
<1>2. \A k \in DOMAIN jobs' : \E j \in DOMAIN jobs : jobs'[k] = jobs[j]
  BY LeavingJobs
<1>3. RipeInv'
  BY <1>1, <1>2, RipeStep DEF SecretsInv
<1>4. NewestInv'
  BY <1>2 DEF SecretsInv, NewestInv
<1>5. QueueInv'
  BY QueueRemoval DEF SecretsInv
<1>6. OfferInv'
  BY DEF SecretsInv, OfferInv
<1> QED BY <1>3, <1>4, <1>5, <1>6 DEF SecretsInv

LEMMA StoredSecrets ==
  ASSUME GateType, GateType', Claims, Owned, SecretsInv, Stored
  PROVE  SecretsInv'
<1>1. UNCHANGED <<mem, sessions, pair, made, raced, best>>
  BY DEF Stored, hist
<1> PICK i \in DOMAIN jobs :
      jobs[i].stage = "saving" /\ disk' = jobs[i].snap /\ jobs' = [jobs EXCEPT ![i].stage = "saved"]
  BY DEF Stored, NextSave, Waits
<1>2. /\ DOMAIN jobs' = DOMAIN jobs
      /\ \A k \in DOMAIN jobs : jobs'[k].snap = jobs[k].snap /\ (jobs'[k].stage = "saving" => jobs[k].stage = "saving")
  <2>1. jobs \in Seq(Jobs) /\ \A k \in DOMAIN jobs : jobs[k] \in Jobs
    BY JobsTyped
  <2> QED BY <2>1 DEF Jobs
<1>3. made \in Nat /\ made <= made' /\ best' \in [1 .. MaxSecret -> Nat] /\ \A p \in 1 .. MaxSecret : best'[p] <= best[p]
  BY <1>1 DEF GateType
<1>4. RipeInv'
  BY <1>1, <1>2, <1>3, RipeStep DEF SecretsInv
<1>5. NewestInv'
  <2>1. \A k \in DOMAIN jobs' : jobs'[k].stage = "saving" => Newest(jobs'[k].snap, raced, best)
    BY <1>2 DEF SecretsInv, NewestInv
  <2> QED BY <1>1, <2>1 DEF SecretsInv, NewestInv
<1>6. QueueInv'
  BY QueueStored DEF SecretsInv
<1>7. OfferInv'
  BY <1>1 DEF SecretsInv, OfferInv
<1> QED BY <1>4, <1>5, <1>6, <1>7 DEF SecretsInv

(* Memory is changed and saved.                                            *)
LEMMA SaveSecrets ==
  ASSUME GateType, GateType', Owned, SecretsInv, raced \subseteq raced', UNCHANGED <<disk, made, pair>>,
         \A p \in 1 .. MaxSecret : best'[p] <= best[p],
         NEW Q \in Seq(Jobs), DOMAIN Q = DOMAIN jobs, Len(Q) = Len(jobs),
         \A i \in DOMAIN jobs : /\ Q[i].snap = jobs[i].snap /\ Q[i].stage = jobs[i].stage
                                /\ Q[i].then = jobs[i].then \/ Q[i].then.kind # "hello",
         NEW t \in Thens, saveAfter(Q, mem', t),
         t.kind = "hello" /\ t.pid \notin raced' =>
           /\ best'[t.pid] <= t.secret
           /\ \A i \in DOMAIN jobs : jobs[i].then.kind = "hello" /\ jobs[i].then.pid = t.pid =>
                jobs[i].then.secret <= t.secret,
         \A u \in Users : mem'[u] # None =>
           \/ mem'[u] = mem[u]
           \/ /\ Ripe(mem'[u], raced')
              /\ mem'[u].pid \notin raced' => best'[mem'[u].pid] <= mem'[u].secret,
         \A a \in Addrs : sessions'[a] # None /\ sessions'[a].renew # 0 =>
           /\ sessions'[a] = sessions[a]
           /\ LET s == sessions[a] IN
              mem'[s.user] = mem[s.user] \/ Offered(s, mem', raced')
  PROVE  SecretsInv'
<1>1. made \in Nat /\ made <= made' /\ best' \in [1 .. MaxSecret -> Nat]
  BY DEF GateType
<1>2. \A k \in DOMAIN jobs' :
        \/ jobs'[k].snap = mem'
        \/ \E j \in DOMAIN jobs : jobs'[k].snap = jobs[j].snap /\ jobs'[k].stage = jobs[j].stage
  <2> DEFINE new == [snap |-> mem', stage |-> "saving", then |-> t]
             n == Len(jobs) + 1
  <2>1. jobs' = Append(Q, new) /\ new.snap = mem'
    BY DEF saveAfter
  <2> HIDE DEF new
  <2>2. /\ Len(jobs) \in Nat /\ DOMAIN jobs = 1 .. Len(jobs) /\ DOMAIN jobs' = 1 .. n
        /\ jobs'[n] = new /\ \A k \in DOMAIN jobs : jobs'[k] = Q[k]
    BY <2>1 DEF GateType
  <2>3. \A k \in DOMAIN jobs' : k \in DOMAIN jobs \/ k = n
    BY <2>2
  <2> HIDE DEF n
  <2> SUFFICES ASSUME NEW k \in DOMAIN jobs'
               PROVE  \/ jobs'[k].snap = mem'
                      \/ \E j \in DOMAIN jobs : jobs'[k].snap = jobs[j].snap /\ jobs'[k].stage = jobs[j].stage
    OBVIOUS
  <2>4. CASE k = n
    BY <2>1, <2>2, <2>4
  <2>5. CASE k \in DOMAIN jobs
    <3>0. jobs'[k] = Q[k]
      BY <2>2, <2>5
    <3>1. Q[k].snap = jobs[k].snap /\ Q[k].stage = jobs[k].stage
      BY <2>5
    <3> QED BY <2>5, <3>0, <3>1, Zenon
  <2> QED BY <2>3, <2>4, <2>5, Zenon
<1>3. RipeInv'
  <2>1. \A u \in Users : mem'[u] # None => mem'[u] = mem[u] \/ Ripe(mem'[u], raced')
    OBVIOUS
  <2> HIDE DEF SecretsInv
  <2>2. RipeInv
    BY DEF SecretsInv
  <2> QED BY <1>1, <1>2, <2>1, <2>2, RipeStep
<1>4. NewestInv'
  <2>1. \A u \in Users : mem'[u] # None =>
          mem'[u] = mem[u] \/ (mem'[u].pid \notin raced' => best'[mem'[u].pid] <= mem'[u].secret)
    OBVIOUS
  <2>2. NewestInv
    BY DEF SecretsInv
  <2> QED BY <1>1, <1>2, <2>1, <2>2, NewestStep
<1>5. QueueInv'
  <2>1. QueueInv
    BY DEF SecretsInv
  <2>2. \A i \in DOMAIN jobs : Q[i].then = jobs[i].then \/ Q[i].then.kind # "hello"
    OBVIOUS
  <2> QED BY <1>1, <2>1, <2>2, QueueSave
<1>6. OfferInv'
  BY <1>1, OfferStep DEF SecretsInv
<1> QED BY <1>3, <1>4, <1>5, <1>6 DEF SecretsInv

-----------------------------------------------------------------------------
(***************************************************************************)
(* One lemma per action, or for a few alike.                               *)
(***************************************************************************)
LEMMA PromotedRipe ==
  ASSUME NEW r \in Records, NEW k \in Nat, Proves(r, k), day \in Nat, made \in Nat, NEW past, Ripe(r, past)
  PROVE  /\ Ripe(Promoted(r, k), past) /\ Promoted(r, k).secret = k
         /\ r.pid \notin past => r.secret <= k
         /\ k \in {r.secret, r.next} /\ Promoted(r, k).next \in {0, r.next}
<1>1. /\ k # 0 /\ k \in {r.secret, r.next} /\ r.secret \in Nat /\ r.next \in Nat /\ r.old \in SUBSET Nat
      /\ Promoted(r, k).pid = r.pid
  BY Promotes DEF Proves, Records
<1>2. r.pid \notin past => r.secret <= k
  BY <1>1 DEF Ripe
<1>3. CASE k = r.next
  <2> DEFINE used == r.old \cup {r.secret}
  <2>1. Promoted(r, k) = [r EXCEPT !.secret = k, !.next = 0, !.old = used, !.renewed = day]
    BY <1>3 DEF Promoted, Records
  <2> HIDE DEF used
  <2>2. Promoted(r, k).secret = k /\ Promoted(r, k).next = 0 /\ Promoted(r, k).old = used
    BY <2>1 DEF Records
  <2>3. ASSUME r.pid \notin past, NEW o \in used PROVE o <= k
    <3>1. CASE o = r.secret
      BY <1>2, <2>3, <3>1
    <3>2. CASE o \in r.old
      <4>1. o <= r.secret /\ r.secret <= k /\ o \in Nat
        BY <1>1, <1>2, <2>3, <3>2 DEF Ripe
      <4> QED BY <1>1, <4>1
    <3> QED BY <2>3, <3>1, <3>2 DEF used
  <2>4. k \in 1 .. made
    BY <1>1, <1>3 DEF Ripe
  <2> QED BY <1>1, <1>2, <2>2, <2>3, <2>4 DEF Ripe
<1>4. CASE k # r.next
  BY <1>1, <1>2, <1>4 DEF Promoted
<1> QED BY <1>3, <1>4

LEMMA HelloOkSecrets ==
  ASSUME GateType, GateType', Claims, Owned, SecretsInv,
         NEW u \in Users, NEW k \in 1 .. made, NEW a \in Addrs, HelloOk(u, k, a)
  PROVE  SecretsInv'
<1> DEFINE r == mem[u]
           r2 == Promoted(r, k)
           t == [kind |-> "hello", user |-> u, addr |-> a, pid |-> r.pid,
                 secret |-> k, due |-> Age(mem'[u]) >= 1]
<1> PICK owner \in Owners, home \in Homes : OwnedBy(owner, home)
  BY DEF Owned
<1>1. /\ r \in Records /\ r # None /\ Proves(r, k) /\ mem' = [mem EXCEPT ![u] = r2]
      /\ k \in Nat /\ day \in Nat /\ made \in Nat
  BY MemIs, GateAssumption DEF HelloOk, GateType
<1>2. saveAfter(jobs, mem', t) /\ UNCHANGED <<disk, sessions, pair, made, raced, best>>
  BY DEF HelloOk, save, hist
<1>3. t \in Thens /\ t.pid = r.pid /\ t.secret = k
  <2>1. r.pid \in Nat
    BY <1>1 DEF Records
  <2> QED BY <1>1, <2>1 DEF Thens
<1>4. Ripe(r, raced) /\ (r.pid \notin raced => best[r.pid] <= r.secret)
  BY <1>1 DEF SecretsInv, RipeInv, NewestInv, AllRipe, Newest
<1>5. /\ Ripe(r2, raced) /\ r2.secret = k /\ (r.pid \notin raced => r.secret <= k)
      /\ k \in {r.secret, r.next} /\ r2.next \in {0, r.next} /\ r2.pid = r.pid /\ r2 # None
  BY <1>1, <1>4, PromotedRipe, Promotes
<1> HIDE DEF t, r2
<1>6. mem'[u] = r2 /\ \A v \in Users : v # u => mem'[v] = mem[v]
  BY <1>1 DEF GateType, Stores
<1>7. r.pid \in 1 .. MaxSecret /\ best[r.pid] \in Nat /\ r.secret \in Nat /\ r.next \in Nat
  <2>1. r.pid \in 1 .. made
    BY <1>1 DEF OwnedBy, OwnedIn
  <2>2. r.pid \in 1 .. MaxSecret
    BY <2>1, GateAssumption DEF GateType
  <2> QED BY <1>1, <2>2 DEF GateType, Records
<1>8. r.pid \notin raced => best[r.pid] <= k
  BY <1>1, <1>4, <1>5, <1>7
<1>9. ASSUME NEW i \in DOMAIN jobs, jobs[i].then.kind = "hello", jobs[i].then.pid = r.pid, r.pid \notin raced
      PROVE  jobs[i].then.secret <= k
  <2> DEFINE c == jobs[i].then
  <2>1. Fits(c, mem, raced)
    BY DEF Claims, WaitingKept
  <2>2. c.user = owner[r.pid] /\ owner[r.pid] = u
    BY <1>1, <1>9 DEF OwnedBy, OwnedIn, OwnedJob, OwnedThen
  <2>3. c.secret \in r.old \cup {r.secret}
    BY <1>9, <2>1, <2>2 DEF Fits
  <2>4. c.secret <= r.secret /\ c.secret \in Nat
    BY <1>4, <1>7, <1>9, <2>3, HelloIs DEF Ripe
  <2> QED BY <1>1, <1>5, <1>7, <1>9, <2>4
<1>10. ASSUME NEW b \in Addrs, sessions[b] # None, sessions[b].renew # 0, sessions[b].user = u
       PROVE  Offered(sessions[b], mem', raced)
  <2>1. Offered(sessions[b], mem, raced) /\ sessions[b].renew \in Nat
    <3>1. sessions[b] \in Sessions
      BY <1>10 DEF GateType
    <3> QED BY <1>10, <3>1 DEF SecretsInv, OfferInv, Sessions
  <2> QED BY <1>1, <1>5, <1>6, <1>7, <1>10, <2>1 DEF Offered
<1> QED
  <2>1. \A v \in Users : mem'[v] # None =>
          \/ mem'[v] = mem[v]
          \/ Ripe(mem'[v], raced') /\ (mem'[v].pid \notin raced' => best'[mem'[v].pid] <= mem'[v].secret)
    BY <1>2, <1>5, <1>6, <1>8
  <2>2. \A b \in Addrs : sessions'[b] # None /\ sessions'[b].renew # 0 =>
          /\ sessions'[b] = sessions[b]
          /\ LET s == sessions[b] IN mem'[s.user] = mem[s.user] \/ Offered(s, mem', raced')
    <3> SUFFICES ASSUME NEW b \in Addrs, sessions[b] # None, sessions[b].renew # 0
                 PROVE  mem'[sessions[b].user] = mem[sessions[b].user] \/ Offered(sessions[b], mem', raced')
      BY <1>2
    <3>1. sessions[b].user \in Users
      BY DEF GateType, Sessions
    <3> QED BY <1>2, <1>6, <1>10, <3>1
  <2>3. t.pid \notin raced' =>
           /\ best'[t.pid] <= t.secret
           /\ \A i \in DOMAIN jobs : jobs[i].then.kind = "hello" /\ jobs[i].then.pid = t.pid =>
                jobs[i].then.secret <= t.secret
    BY <1>2, <1>3, <1>8, <1>9
  <2>4. \A p \in 1 .. MaxSecret : best'[p] <= best[p]
    <3>1. best' = best /\ best \in [1 .. MaxSecret -> Nat]
      BY <1>2 DEF GateType
    <3> QED BY <3>1
  <2> HIDE DEF r
  <2> QED BY <1>2, <1>3, <2>1, <2>2, <2>3, <2>4, SaveSecrets, JobsTyped, ZenonT(60)

(* A record may go in as it was but for what is neither its pairing nor    *)
(* its secrets.                                                            *)
LEMMA SameRipe ==
  ASSUME NEW r, NEW r2, NEW past, NEW later, past \subseteq later, Ripe(r, past),
         r2.pid = r.pid, r2.secret = r.secret, r2.next = r.next, r2.old = r.old
  PROVE  Ripe(r2, later)
BY DEF Ripe

LEMMA OnRenewalSecrets ==
  ASSUME GateType, GateType', Claims, Owned, SecretsInv, NEW a \in Addrs, NEW good \in BOOLEAN, OnRenewal(a, good)
  PROVE  SecretsInv'
<1> DEFINE x == sessions[a]
           u == x.user
           r == mem[u]
           r2 == [r EXCEPT !.next = x.renew]
<1> PICK owner \in Owners, home \in Homes : OwnedBy(owner, home)
  BY DEF Owned
<1>1. x \in Sessions /\ u \in Users /\ x.renew \in Nat /\ x.renew # 0 /\ x # None /\ r \in Records /\ r # None
  <2>1. x \in Sessions
    BY DEF OnRenewal, GateType
  <2> QED BY <2>1, MemIs DEF OnRenewal, Sessions
<1>2. /\ UNCHANGED <<disk, pair, made, best>>
      /\ IF good THEN /\ mem' = [mem EXCEPT ![u] = r2] /\ saveAfter(jobs, mem', Nothing)
                      /\ raced' = raced \cup (Pids(u) \ {x.pid})
         ELSE UNCHANGED <<mem, jobs, raced>>
  BY DEF OnRenewal, save
<1>3. sessions'[a].renew = 0 /\ \A b \in Addrs : b # a => sessions'[b] = sessions[b]
  BY RenewalSessions
<1>4. CASE ~good
  <2>1. made \in Nat /\ made <= made'
    BY <1>2 DEF GateType
  <2>2. RipeInv'
    BY <1>2, <1>4, <2>1, RipeStep DEF SecretsInv
  <2>3. NewestInv' /\ QueueInv'
    BY <1>2, <1>4 DEF SecretsInv, NewestInv, QueueInv
  <2>4. OfferInv'
    <3>1. \A b \in Addrs : sessions'[b] # None /\ sessions'[b].renew # 0 => sessions'[b] = sessions[b]
      BY <1>3
    <3> QED BY <1>2, <1>4, <3>1 DEF SecretsInv, OfferInv
  <2> QED BY <2>2, <2>3, <2>4 DEF SecretsInv
<1>5. CASE good
  <2>1. /\ mem' = [mem EXCEPT ![u] = r2] /\ saveAfter(jobs, mem', Nothing)
        /\ raced' = raced \cup (Pids(u) \ {x.pid})
    BY <1>2, <1>5
  <2>2. r2.pid = r.pid /\ r2.secret = r.secret /\ r2.next = x.renew /\ r2.old = r.old /\ r2 # None
        /\ r2 \in Records
    BY <1>1, NoneAssumption DEF Records
  <2> HIDE DEF r2
  <2>3. mem'[u] = r2 /\ \A v \in Users : v # u => mem'[v] = mem[v]
    BY <1>1, <2>1 DEF GateType, Stores
  <2>4. Ripe(r, raced) /\ (r.pid \notin raced => best[r.pid] <= r.secret)
    BY <1>1 DEF SecretsInv, RipeInv, NewestInv, AllRipe, Newest
  <2>5. x.renew <= made /\ Offered(x, mem, raced) /\ made \in Nat
    BY <1>1 DEF SecretsInv, OfferInv, GateType
  <2>6. r.pid \notin raced' => r.pid \notin raced /\ r.pid = x.pid
    BY <1>1, <2>1 DEF Pids
  <2>7. Ripe(r2, raced')
    <3>1. r.pid \notin raced' => r.secret <= x.renew
      BY <1>1, <2>5, <2>6 DEF Offered
    <3> QED BY <1>1, <2>2, <2>4, <2>5, <2>6, <3>1 DEF Ripe
  <2>8. ASSUME NEW b \in Addrs, b # a, sessions[b] # None, sessions[b].user = u
        PROVE  Offered(sessions[b], mem', raced')
    <3>1. r2.pid = sessions[b].pid => sessions[b].pid \in raced'
      <4> SUFFICES ASSUME r.pid = sessions[b].pid, r.pid \notin raced' PROVE FALSE
        BY <2>2
      <4>1. sessions[b].pid = x.pid
        BY <2>6
      <4> QED BY <1>1, <2>8, <4>1 DEF OwnedBy, OwnedSession
    <3> QED BY <2>3, <2>8, <3>1 DEF Offered
  <2>9. raced \subseteq raced'
    BY <2>1
  <2>10. \A v \in Users : mem'[v] # None =>
           \/ mem'[v] = mem[v]
           \/ Ripe(mem'[v], raced') /\ (mem'[v].pid \notin raced' => best'[mem'[v].pid] <= mem'[v].secret)
    BY <1>2, <2>2, <2>3, <2>4, <2>6, <2>7
  <2>11. \A b \in Addrs : sessions'[b] # None /\ sessions'[b].renew # 0 =>
           /\ sessions'[b] = sessions[b]
           /\ LET s == sessions[b] IN mem'[s.user] = mem[s.user] \/ Offered(s, mem', raced')
    <3> SUFFICES ASSUME NEW b \in Addrs, sessions'[b] # None, sessions'[b].renew # 0
                 PROVE  /\ sessions'[b] = sessions[b]
                        /\ mem'[sessions[b].user] = mem[sessions[b].user] \/ Offered(sessions[b], mem', raced')
      OBVIOUS
    <3>1. b # a /\ sessions'[b] = sessions[b] /\ sessions[b] # None
      BY <1>3
    <3>2. sessions[b].user \in Users
      BY <3>1 DEF GateType, Sessions
    <3> QED BY <2>3, <2>8, <3>1, <3>2
  <2>12. \A p \in 1 .. MaxSecret : best'[p] <= best[p]
    <3>1. best' = best /\ best \in [1 .. MaxSecret -> Nat]
      BY <1>2 DEF GateType
    <3> QED BY <3>1
  <2>13. Nothing \in Thens /\ Nothing.kind # "hello"
    BY ThenFields DEF Nothing
  <2> HIDE DEF x, u, r
  <2> QED BY <1>2, <2>1, <2>9, <2>10, <2>11, <2>12, <2>13, SaveSecrets, JobsTyped, ZenonT(60)
<1> QED BY <1>4, <1>5

LEMMA setOnSecrets ==
  ASSUME GateType, GateType', Claims, Owned, SecretsInv, NEW u \in Users, NEW on \in BOOLEAN, setOn(u, on)
  PROVE  SecretsInv'
<1> DEFINE r == mem[u]
           r2 == [r EXCEPT !.on = on]
<1>1. /\ r # None /\ r \in Records /\ mem' = [mem EXCEPT ![u] = r2]
      /\ sessions' = IF on THEN sessions ELSE Without(sessions, u)
      /\ raced' = IF on THEN raced ELSE raced \cup Racing(u)
      /\ saveAfter(jobs, mem', Nothing)
      /\ UNCHANGED <<disk, pair, made, best>>
  BY MemIs DEF setOn, save
<1>2. r2.pid = r.pid /\ r2.secret = r.secret /\ r2.next = r.next /\ r2.old = r.old
  BY <1>1 DEF Records
<1> HIDE DEF r2
<1>3. mem'[u] = r2 /\ raced \subseteq raced' /\ \A v \in Users : v # u => mem'[v] = mem[v]
  BY <1>1 DEF GateType, Stores
<1>4. Ripe(r, raced) /\ (r.pid \notin raced => best[r.pid] <= r.secret)
  BY <1>1 DEF SecretsInv, RipeInv, NewestInv, AllRipe, Newest
<1>5. Ripe(r2, raced')
  BY <1>2, <1>3, <1>4, SameRipe
<1>6. \A v \in Users : mem'[v] # None =>
        \/ mem'[v] = mem[v]
        \/ Ripe(mem'[v], raced') /\ (mem'[v].pid \notin raced' => best'[mem'[v].pid] <= mem'[v].secret)
  BY <1>1, <1>2, <1>3, <1>4, <1>5
<1>7. \A b \in Addrs : sessions'[b] # None /\ sessions'[b].renew # 0 =>
        /\ sessions'[b] = sessions[b]
        /\ LET s == sessions[b] IN mem'[s.user] = mem[s.user] \/ Offered(s, mem', raced')
  <2> SUFFICES ASSUME NEW b \in Addrs, sessions'[b] # None, sessions'[b].renew # 0
               PROVE  /\ sessions'[b] = sessions[b]
                      /\ mem'[sessions[b].user] = mem[sessions[b].user] \/ Offered(sessions[b], mem', raced')
    OBVIOUS
  <2>1. sessions'[b] = sessions[b]
    BY <1>1 DEF Without
  <2>2. sessions[b].user \in Users /\ Offered(sessions[b], mem, raced)
    BY <2>1 DEF GateType, Sessions, SecretsInv, OfferInv
  <2>3. sessions[b].user = u => Offered(sessions[b], mem', raced')
    BY <1>1, <1>2, <1>3, <2>2 DEF Offered
  <2> QED BY <1>3, <2>1, <2>2, <2>3
<1>8. \A p \in 1 .. MaxSecret : best'[p] <= best[p]
  <2>1. best' = best /\ best \in [1 .. MaxSecret -> Nat]
    BY <1>1 DEF GateType
  <2> QED BY <2>1
<1>9. Nothing \in Thens /\ Nothing.kind # "hello"
  BY ThenFields DEF Nothing
<1> HIDE DEF r
<1> QED BY <1>1, <1>3, <1>6, <1>7, <1>8, <1>9, SaveSecrets, JobsTyped, ZenonT(60)

(* A record is taken off or replaced by a fresh one: its sessions end.     *)
LEMMA ReplacedSecrets ==
  ASSUME GateType, GateType', Owned, SecretsInv, NEW u \in Users, NEW rec \in Records \cup {None}, Replaced(u, rec),
         rec # None => /\ IsFresh(rec) /\ best'[rec.pid] = 0,
         NEW p, NEW t \in Thens, t.kind # "hello", saveAfter(Superseded(u, p), mem', t),
         raced \subseteq raced', sessions' = Without(sessions, u),
         \A q \in 1 .. MaxSecret : best'[q] <= best[q], UNCHANGED <<disk, made, pair>>
  PROVE  SecretsInv'
<1> DEFINE Q == Superseded(u, p)
<1>1. mem'[u] = rec /\ \A v \in Users : v # u => mem'[v] = mem[v]
  BY DEF GateType, Stores, Replaced
<1>2. rec # None => Ripe(rec, raced') /\ best'[rec.pid] <= rec.secret
  <2> SUFFICES ASSUME rec # None PROVE Ripe(rec, raced') /\ best'[rec.pid] <= rec.secret
    OBVIOUS
  <2>1. made \in Nat
    BY DEF GateType
  <2>2. rec.old = {} /\ rec.next = 0 /\ rec.secret \in 1 .. made /\ best'[rec.pid] = 0
    BY DEF IsFresh
  <2>3. Ripe(rec, raced')
    BY <2>1, <2>2 DEF Ripe
  <2> QED BY <2>1, <2>2, <2>3
<1>3. /\ Q \in Seq(Jobs) /\ DOMAIN Q = DOMAIN jobs /\ Len(Q) = Len(jobs)
      /\ \A i \in DOMAIN jobs :
           /\ Q[i].snap = jobs[i].snap /\ Q[i].stage = jobs[i].stage
           /\ Q[i].then = jobs[i].then \/ Q[i].then.kind # "hello"
  <2>1. /\ Q \in Seq(Jobs) /\ DOMAIN Q = DOMAIN jobs /\ Len(Q) = Len(jobs)
        /\ \A i \in DOMAIN jobs :
             /\ Q[i].snap = jobs[i].snap /\ Q[i].stage = jobs[i].stage
             /\ Undone(jobs[i].then, u, p) => Q[i].then.kind \in {"paired", "revoked"}
             /\ ~Undone(jobs[i].then, u, p) => Q[i].then = jobs[i].then
    BY SupersededJobs
  <2> HIDE DEF Q
  <2> QED BY <2>1
<1>4. saveAfter(Q, mem', t)
  OBVIOUS
<1> HIDE DEF Q
<1>5. \A v \in Users : mem'[v] # None =>
        \/ mem'[v] = mem[v]
        \/ Ripe(mem'[v], raced') /\ (mem'[v].pid \notin raced' => best'[mem'[v].pid] <= mem'[v].secret)
  BY <1>1, <1>2
<1>6. \A b \in Addrs : sessions'[b] # None /\ sessions'[b].renew # 0 =>
        /\ sessions'[b] = sessions[b]
        /\ LET s == sessions[b] IN mem'[s.user] = mem[s.user] \/ Offered(s, mem', raced')
  <2> SUFFICES ASSUME NEW b \in Addrs, sessions'[b] # None
               PROVE  sessions'[b] = sessions[b] /\ mem'[sessions[b].user] = mem[sessions[b].user]
    OBVIOUS
  <2>1. sessions'[b] = sessions[b] /\ sessions[b] # None /\ sessions[b].user # u
    BY DEF Without
  <2>2. sessions[b].user \in Users
    BY <2>1 DEF GateType, Sessions
  <2> QED BY <1>1, <2>1, <2>2
<1> QED BY <1>3, <1>4, <1>5, <1>6, SaveSecrets, ZenonT(60)

LEMMA DropSecrets ==
  ASSUME GateType, GateType', Claims, Owned, SecretsInv, NEW u \in Users,
         \/ revoke(u)
         \/ \E k \in 1 .. made, a \in Addrs, named \in BOOLEAN : HelloDrops(u, k, a, named)
  PROVE  SecretsInv'
<1>1. /\ Replaced(u, None) /\ sessions' = Without(sessions, u) /\ raced \subseteq raced'
      /\ UNCHANGED <<disk, made, pair, best>>
      /\ \/ saveAfter(Superseded(u, 0), mem', Nothing)
         \/ saveAfter(Superseded(u, 0), mem', [kind |-> "revoked", pid |-> mem[u].pid, holds |-> TRUE])
  BY DEF revoke, HelloDrops, drop, Replaced
<1>2. mem[u] # None
  BY DEF revoke, HelloDrops
<1>3. PICK t \in Thens : t.kind # "hello" /\ saveAfter(Superseded(u, 0), mem', t)
  <2>1. mem[u].pid \in Nat
    BY <1>2, MemIs DEF Records
  <2>2. /\ Nothing \in Thens /\ Nothing.kind # "hello"
        /\ [kind |-> "revoked", pid |-> mem[u].pid, holds |-> TRUE] \in Thens
    BY <2>1, ThenFields DEF Nothing
  <2> QED BY <1>1, <2>2
<1>4. \A q \in 1 .. MaxSecret : best'[q] <= best[q]
  <2>1. best' = best /\ best \in [1 .. MaxSecret -> Nat]
    BY <1>1 DEF GateType
  <2> QED BY <2>1
<1> QED BY <1>1, <1>3, <1>4, ReplacedSecrets

LEMMA OnConfirmSecrets ==
  ASSUME GateType, GateType', Claims, Owned, SecretsInv, NEW a \in Addrs, OnConfirm(a)
  PROVE  SecretsInv'
<1> DEFINE rec == pair.pending
           u == rec.user
           t == [kind |-> "paired", user |-> u, pid |-> rec.pid, holds |-> TRUE]
<1>1. rec \in Records /\ rec # None /\ u \in Users /\ rec.pid \in Nat /\ IsFresh(rec)
  <2>1. rec \in Records /\ rec # None
    BY DEF OnConfirm, GateType, Windows
  <2> QED BY <2>1 DEF SecretsInv, RipeInv, Records
<1>2. rec.pid \in 1 .. MaxSecret
  <2>1. rec.pid \in 1 .. made
    BY <1>1 DEF Owned, OwnedBy
  <2> QED BY <2>1, GateAssumption DEF GateType
<1>3. /\ sessions' = Without(sessions, u) /\ raced \subseteq raced' /\ Replaced(u, rec)
      /\ saveAfter(Superseded(u, rec.pid), mem', t) /\ best' = [best EXCEPT ![rec.pid] = 0]
      /\ UNCHANGED <<disk, made, pair>>
  BY DEF OnConfirm, drop, Replaced
<1>4. best'[rec.pid] = 0 /\ \A q \in 1 .. MaxSecret : best'[q] <= best[q]
  <2>1. best \in [1 .. MaxSecret -> Nat]
    BY DEF GateType
  <2> QED BY <1>2, <1>3, <2>1
<1>5. t \in Thens /\ t.kind # "hello"
  BY <1>1, ThenFields
<1> HIDE DEF t, u
<1> QED BY <1>1, <1>3, <1>4, <1>5, ReplacedSecrets

(* The first of the handlers whose save is done goes on: its session's     *)
(* secret is the newest so far, and none that still waits has an older.    *)
LEMMA FirstIsFirst ==
  ASSUME GateType, InOrder, NEW t, Resumes(t)
  PROVE  \E i \in DOMAIN jobs : /\ jobs[i].stage = "saved" /\ jobs[i].then = t /\ jobs' = RemoveAt(jobs, i)
                               /\ \A j \in DOMAIN jobs : i <= j
<1> PICK i \in DOMAIN jobs :
      /\ jobs[i].stage = "saved" /\ \A j \in 1 .. i - 1 : jobs[j].stage # "saved"
      /\ jobs[i].then = t /\ jobs' = RemoveAt(jobs, i)
  BY DEF Resumes
<1>1. DOMAIN jobs = 1 .. Len(jobs) /\ Len(jobs) \in Nat
  BY DEF GateType
<1>2. \A j \in DOMAIN jobs : j < i => j \in 1 .. i - 1 /\ jobs[j].stage = "saved"
  BY <1>1 DEF InOrder
<1> QED BY <1>1, <1>2

LEMMA HelloAnsweredSecrets ==
  ASSUME GateType, GateType', Claims, Owned, SecretsInv, NEW t, HelloAnswered(t)
  PROVE  SecretsInv'
<1> DEFINE p == t.pid
           s == [user |-> t.user, pid |-> p, secret |-> t.secret, renew |-> IF t.due THEN made + 1 ELSE 0]
<1> PICK owner \in Owners, home \in Homes : OwnedBy(owner, home)
  BY DEF Owned
<1>1. /\ t.kind = "hello" /\ Resumes(t)
      /\ made' = (IF t.due THEN made + 1 ELSE made)
      /\ sessions' = [sessions EXCEPT ![t.addr] = s]
      /\ best' = [best EXCEPT ![p] = IF t.secret > @ THEN t.secret ELSE @]
      /\ UNCHANGED <<mem, disk, pair, raced>>
  BY DEF HelloAnswered, store
<1> PICK i \in DOMAIN jobs : /\ jobs[i].stage = "saved" /\ jobs[i].then = t /\ jobs' = RemoveAt(jobs, i)
                            /\ \A j \in DOMAIN jobs : i <= j
  BY <1>1, FirstIsFirst DEF Claims
<1>2. p \in 1 .. made /\ p \in 1 .. MaxSecret /\ t.secret \in Nat /\ t.user \in Users /\ t.addr \in Addrs
  BY <1>1, HelloIs, JobsTyped, ThenFields
<1>3. made \in Nat /\ made' \in Nat /\ made <= made' /\ (t.due => made' = made + 1)
  BY <1>1 DEF GateType
<1>4. /\ best' \in [1 .. MaxSecret -> Nat] /\ best \in [1 .. MaxSecret -> Nat]
      /\ \A q \in 1 .. MaxSecret : q # p => best'[q] = best[q]
      /\ best'[p] \in {best[p], t.secret}
  BY <1>1, <1>2 DEF GateType
<1>5. /\ jobs \in Seq(Jobs) /\ jobs' \in Seq(Jobs)
      /\ \A k \in DOMAIN jobs' : Back(i, k) \in DOMAIN jobs /\ jobs'[k] = jobs[Back(i, k)]
  <2>1. jobs \in Seq(Jobs)
    BY JobsTyped
  <2> QED BY <2>1, Removed, Zenon
<1>6. RipeInv'
  <2>1. \A k \in DOMAIN jobs' : \E j \in DOMAIN jobs : jobs'[k].snap = jobs[j].snap
    BY <1>5
  <2> QED BY <1>1, <1>3, <2>1, RipeStep DEF SecretsInv
<1>7. ASSUME NEW records \in Stores, OwnedIn(owner, home, records), AllRipe(records, raced),
             Newest(records, raced, best), Fits(t, records, raced)
      PROVE  Newest(records, raced, best')
  <2> SUFFICES ASSUME NEW u \in Users, records[u] # None, records[u].pid \notin raced
               PROVE  best'[records[u].pid] <= records[u].secret
    BY DEF Newest
  <2>1. /\ records[u] \in Records /\ records[u].pid \in 1 .. made /\ owner[records[u].pid] = u
        /\ best[records[u].pid] <= records[u].secret /\ Ripe(records[u], raced)
    BY <1>7 DEF OwnedIn, Stores, AllRipe, Newest
  <2>2. CASE records[u].pid # p
    <3>1. records[u].pid \in 1 .. MaxSecret
      BY <2>1, GateAssumption DEF GateType
    <3> QED BY <1>4, <2>1, <2>2, <3>1
  <2>3. CASE records[u].pid = p
    <3>1. u = t.user
      BY <1>1, <2>1, <2>3 DEF OwnedBy, OwnedJob, OwnedThen
    <3>2. t.secret \in records[u].old \cup {records[u].secret}
      BY <1>1, <1>7, <2>3, <3>1 DEF Fits
    <3>3. t.secret <= records[u].secret
      BY <2>1, <3>2 DEF Ripe, Records
    <3> QED BY <1>4, <2>1, <2>3, <3>3
  <2> QED BY <2>2, <2>3
<1>8. NewestInv'
  <2>1. /\ Fits(t, mem, raced) /\ Fits(t, disk, raced)
        /\ \A j \in DOMAIN jobs : Fits(t, jobs[j].snap, raced)
    BY DEF Claims, WaitingKept
  <2>2. Newest(mem, raced, best') /\ Newest(disk, raced, best')
    BY <1>7, <2>1 DEF GateType, OwnedBy, SecretsInv, RipeInv, NewestInv
  <2>3. ASSUME NEW j \in DOMAIN jobs, jobs[j].stage = "saving" PROVE Newest(jobs[j].snap, raced, best')
    <3>1. jobs[j].snap \in Stores /\ OwnedIn(owner, home, jobs[j].snap)
      BY JobsTyped DEF Jobs, OwnedBy, OwnedJob
    <3> QED BY <1>7, <2>1, <2>3, <3>1 DEF SecretsInv, RipeInv, NewestInv
  <2>4. \A k \in DOMAIN jobs' : jobs'[k].stage = "saving" => Newest(jobs'[k].snap, raced, best')
    BY <1>5, <2>3
  <2> QED BY <1>1, <2>2, <2>4 DEF NewestInv
<1>9. QueueInv'
  <2>1. ASSUME NEW j \in DOMAIN jobs, j # i, NEW c, c = jobs[j].then, c.kind = "hello", c.pid \notin raced
        PROVE  best'[c.pid] <= c.secret
    <3>1. best[c.pid] <= c.secret /\ c.pid \in 1 .. MaxSecret /\ c.secret \in Nat
      BY <2>1, HelloIs DEF SecretsInv, QueueInv
    <3>2. CASE c.pid = p
      <4>1. i < j
        BY <2>1 DEF GateType
      <4>2. t.secret <= c.secret
        BY <1>1, <2>1, <3>2, <4>1 DEF SecretsInv, QueueInv, Follows
      <4> QED BY <1>4, <3>1, <3>2, <4>2
    <3>3. CASE c.pid # p
      BY <1>4, <3>1, <3>3
    <3> QED BY <3>2, <3>3
  <2>2. DOMAIN jobs \subseteq Nat /\ DOMAIN jobs' \subseteq Nat
    BY <1>5
  <2>3. \A k, l \in DOMAIN jobs' : (k < l => Back(i, k) < Back(i, l)) /\ Back(i, k) # i
    BY <2>2, BackOrder
  <2> SUFFICES ASSUME NEW k \in DOMAIN jobs', NEW c, c = jobs'[k].then, c.kind = "hello", c.pid \notin raced
               PROVE  /\ best'[c.pid] <= c.secret
                      /\ \A l \in DOMAIN jobs' : k < l => Follows(c, jobs'[l].then)
    BY <1>1 DEF QueueInv
  <2>4. Back(i, k) \in DOMAIN jobs /\ c = jobs[Back(i, k)].then /\ Back(i, k) # i
    BY <1>5, <2>3
  <2>5. \A j \in DOMAIN jobs : Back(i, k) < j => Follows(c, jobs[j].then)
    BY <2>4 DEF SecretsInv, QueueInv
  <2>6. \A l \in DOMAIN jobs' : k < l => Follows(c, jobs'[l].then)
    BY <1>5, <2>3, <2>5
  <2> QED BY <2>1, <2>4, <2>6
<1>10. OfferInv'
  <2>1. s.renew = (IF t.due THEN made + 1 ELSE 0) /\ s.user = t.user /\ s.pid = p
    OBVIOUS
  <2> HIDE DEF s
  <2>2. sessions'[t.addr] = s /\ \A a \in Addrs : a # t.addr => sessions'[a] = sessions[a]
    BY <1>1, <1>2 DEF GateType
  <2>3. ASSUME s.renew # 0 PROVE s.renew <= made' /\ Offered(s, mem, raced)
    <3>1. t.due /\ s.renew = made + 1 /\ made' = made + 1
      BY <1>3, <2>1, <2>3
    <3>2. mem[s.user] # None => mem[s.user].secret <= s.renew /\ mem[s.user].next <= s.renew
      <4>1. mem[t.user] # None => mem[t.user].secret \in 1 .. made /\ mem[t.user].next \in 0 .. made
        BY <1>2 DEF SecretsInv, RipeInv, AllRipe, Ripe
      <4> QED BY <1>3, <2>1, <3>1, <4>1
    <3> QED BY <1>3, <3>1, <3>2 DEF Offered
  <2>4. ASSUME NEW a \in Addrs, a # t.addr, sessions[a] # None, sessions[a].renew # 0
        PROVE  sessions[a].renew <= made' /\ Offered(sessions[a], mem, raced)
    <3>1. sessions[a].renew \in Nat /\ sessions[a].renew <= made /\ Offered(sessions[a], mem, raced)
      BY <2>4 DEF GateType, Sessions, SecretsInv, OfferInv
    <3> QED BY <1>3, <3>1
  <2> QED BY <1>1, <2>2, <2>3, <2>4 DEF OfferInv
<1> QED BY <1>6, <1>8, <1>9, <1>10 DEF SecretsInv

LEMMA RestartSecrets ==
  ASSUME GateType, GateType', Owned, SecretsInv, Restart
  PROVE  SecretsInv'
<1> DEFINE Nobody == [u \in Users |-> None]
           job == [snap |-> mem', stage |-> "saving", then |-> Nothing]
<1>0. (mem' = disk /\ jobs' = <<>>) \/ (mem' = Nobody /\ jobs' = <<job>>)
  BY DEF Restart
<1>1. job.snap = mem' /\ job.then.kind = "nothing"
  BY DEF Nothing
<1> HIDE DEF Nobody, job
<1>2. /\ sessions' = [a \in Addrs |-> None] /\ pair'.pending = None
      /\ UNCHANGED <<disk, made, raced, best>>
  BY DEF Restart, NoPair
<1>3. \A i \in DOMAIN jobs' : jobs'[i] = job
  BY <1>0
<1>4. mem' = disk \/ \A u \in Users : mem'[u] = None
  BY <1>0 DEF Nobody
<1>5. made \in Nat /\ made <= made' /\ best' \in [1 .. MaxSecret -> Nat] /\ \A p \in 1 .. MaxSecret : best'[p] <= best[p]
  <2>1. made \in Nat /\ made' = made /\ best' = best /\ best \in [1 .. MaxSecret -> Nat]
    BY <1>2 DEF GateType
  <2> QED BY <2>1
<1>6. RipeInv'
  BY <1>1, <1>2, <1>3, <1>4, <1>5, RipeStep DEF SecretsInv
<1>7. NewestInv'
  BY <1>1, <1>2, <1>3, <1>4, <1>5, NewestStep DEF SecretsInv
<1>8. QueueInv' /\ OfferInv'
  BY <1>1, <1>2, <1>3 DEF QueueInv, OfferInv
<1> QED BY <1>6, <1>7, <1>8 DEF SecretsInv

LEMMA SecretsStep == GateInv /\ SecretsInv /\ [Next]_vars => SecretsInv'
<1> SUFFICES ASSUME GateInv, SecretsInv, [Next]_vars PROVE SecretsInv'
  OBVIOUS
<1>0. GateType /\ GateType' /\ Claims /\ Owned
  BY GateStep DEF GateInv
<1>1. CASE \/ openPairWindow \/ closePairWindow \/ WindowTimesOut
           \/ (\E u \in Users, a \in Addrs : OnCommit(u, a))
           \/ (\E a \in Addrs, kept \in BOOLEAN : OnReveal(a, kept))
  <2>1. pair'.pending \in {None, pair.pending} /\ UNCHANGED <<store, sessions, jobs, made, day, hist>>
    BY <1>0, <1>1, WindowType
  <2> QED BY <1>0, <2>1, QuietSecrets DEF store, hist, EndOrStay, GateType
<1>2. CASE approvePairing
  <2>1. /\ UNCHANGED <<store, sessions, jobs, day, hist>> /\ made' = made + 1 /\ made \in Nat
        /\ pair'.pending.old = {} /\ pair'.pending.next = 0 /\ pair'.pending.secret = made + 1
    BY <1>0, <1>2, approvePairingStep DEF GateType
  <2> QED BY <1>0, <2>1, QuietSecrets DEF store, hist, EndOrStay
<1>3. ASSUME NEW a \in Addrs, OnConfirm(a) PROVE SecretsInv'
  BY <1>0, <1>3, OnConfirmSecrets
<1>4. ASSUME NEW t, Resumes(t), UNCHANGED <<mem, disk, sessions, made, raced, best>>,
             pair'.pending \in {None, pair.pending}
      PROVE  SecretsInv'
  <2>1. \E i \in DOMAIN jobs : jobs' = RemoveAt(jobs, i)
    BY <1>0, <1>4, ResumesWhich
  <2> QED BY <1>0, <1>4, <2>1, LeavingSecrets
<1>5. ASSUME NEW u \in Users, NEW p \in 1 .. made, NEW holds \in BOOLEAN, Paired(u, p, holds)
      PROVE  SecretsInv'
  <2>1. UNCHANGED <<mem, disk, sessions, made, raced, best>> /\ pair'.pending = None
    BY <1>5 DEF Paired, store, NoPair
  <2> QED BY <1>4, <1>5, <2>1 DEF Paired
<1>6. ASSUME NEW p \in 1 .. made, NEW holds \in BOOLEAN, Revoked(p, holds) PROVE SecretsInv'
  <2>1. UNCHANGED <<mem, disk, sessions, made, raced, best>> /\ pair' = pair
    BY <1>6 DEF Revoked, store
  <2> QED BY <1>4, <1>6, <2>1 DEF Revoked
<1>7. ASSUME NEW u \in Users, NEW k \in 1 .. made, NEW a \in Addrs, HelloOk(u, k, a) PROVE SecretsInv'
  BY <1>0, <1>7, HelloOkSecrets
<1>8. ASSUME NEW u \in Users, NEW k \in 1 .. made, NEW a \in Addrs, NEW named \in BOOLEAN,
             HelloDrops(u, k, a, named)
      PROVE  SecretsInv'
  BY <1>0, <1>8, DropSecrets
<1>9. ASSUME NEW t, HelloAnswered(t) PROVE SecretsInv'
  BY <1>0, <1>9, HelloAnsweredSecrets
<1>10. CASE \/ \E a \in Addrs : OnBye(a)
            \/ \E gone \in SUBSET Addrs : linkGone(gone)
            \/ endSessions
  <2>1. UNCHANGED <<store, jobs, pair, made, day, hist>>
    BY <1>0, <1>10, SessionsEndStep
  <2>2. EndOrStay
    BY <1>0, <1>10 DEF OnBye, linkGone, endSessions, EndOrStay, GateType
  <2> QED BY <1>0, <2>1, <2>2, QuietSecrets DEF store, hist, GateType
<1>11. ASSUME NEW a \in Addrs, NEW good \in BOOLEAN, OnRenewal(a, good) PROVE SecretsInv'
  BY <1>0, <1>11, OnRenewalSecrets
<1>12. ASSUME NEW u \in Users, revoke(u) PROVE SecretsInv'
  BY <1>0, <1>12, DropSecrets
<1>13. ASSUME NEW u \in Users, NEW on \in BOOLEAN, setOn(u, on) PROVE SecretsInv'
  BY <1>0, <1>13, setOnSecrets
<1>14. CASE Stored
  BY <1>0, <1>14, StoredSecrets
<1>15. CASE StoreFails \/ Finished
  <2>1. UNCHANGED <<mem, disk, sessions, made, raced, best, pair>>
    BY <1>15 DEF StoreFails, Finished, store, hist
  <2>2. \E i \in DOMAIN jobs : jobs' = RemoveAt(jobs, i)
    BY <1>15 DEF StoreFails, Finished, Resumes
  <2> QED BY <1>0, <2>1, <2>2, LeavingSecrets
<1>16. CASE Restart
  BY <1>0, <1>16, RestartSecrets
<1>17. CASE Tick \/ UNCHANGED vars
  <2>1. UNCHANGED <<mem, disk, sessions, jobs, pair, made, raced, best>>
    BY <1>17 DEF Tick, vars, store, hist
  <2> QED BY <1>0, <2>1, QuietSecrets DEF EndOrStay, GateType
<1>18. CASE Pairing
  BY <1>1, <1>2, <1>3, <1>5, <1>18 DEF Pairing
<1>19. CASE Connection
  BY <1>7, <1>8, <1>9, <1>10, <1>11, <1>19 DEF Connection
<1>20. CASE Person
  BY <1>6, <1>12, <1>13, <1>20 DEF Person
<1> QED BY <1>14, <1>15, <1>16, <1>17, <1>18, <1>19, <1>20 DEF Next

LEMMA SecretsAlways == Spec => []SecretsInv
<1>1. Init => SecretsInv
  BY DEF Init, NoPair, SecretsInv, RipeInv, AllRipe, NewestInv, Newest, QueueInv, OfferInv
<1> QED BY <1>1, GateAlways, SecretsStep, PTL DEF Spec

(* Only a hello that waited for its save makes a session.                  *)
LEMMA SessionsFrom ==
  ASSUME GateType, [Next]_vars
  PROVE  (\A a \in Addrs : SameSession(a)) \/ \E t : HelloAnswered(t)
<1>1. UNCHANGED sessions => \A a \in Addrs : SameSession(a)
  BY DEF SameSession
<1>2. CASE Pairing
  <2>1. ASSUME NEW a \in Addrs, OnConfirm(a) PROVE \A b \in Addrs : SameSession(b)
    BY <2>1 DEF OnConfirm, drop, Without, SameSession
  <2> QED BY <1>1, <1>2, <2>1 DEF Pairing, openPairWindow, closePairWindow, WindowTimesOut, approvePairing,
                                 OnCommit, OnReveal, Paired
<1>3. CASE Connection
  <2>1. ASSUME NEW u, NEW k, NEW a, NEW named, HelloOk(u, k, a) \/ HelloDrops(u, k, a, named)
        PROVE  \A b \in Addrs : SameSession(b)
    BY <2>1 DEF HelloOk, HelloDrops, drop, Without, SameSession
  <2>2. ASSUME NEW a \in Addrs, NEW good \in BOOLEAN, OnRenewal(a, good) PROVE \A b \in Addrs : SameSession(b)
    BY <2>2, RenewalSessions
  <2>3. ASSUME \/ \E a \in Addrs : OnBye(a)
               \/ \E gone \in SUBSET Addrs : linkGone(gone)
               \/ endSessions
        PROVE  \A b \in Addrs : SameSession(b)
    BY <2>3 DEF OnBye, linkGone, endSessions, SameSession, GateType
  <2> QED BY <1>3, <2>1, <2>2, <2>3 DEF Connection
<1>4. CASE Person
  <2>1. ASSUME NEW u \in Users, NEW on \in BOOLEAN, revoke(u) \/ setOn(u, on)
        PROVE  \A b \in Addrs : SameSession(b)
    BY <2>1 DEF revoke, setOn, drop, Without, SameSession
  <2>2. ASSUME NEW p, NEW holds, Revoked(p, holds) PROVE UNCHANGED sessions
    BY <2>2 DEF Revoked
  <2> QED BY <1>1, <1>4, <2>1, <2>2 DEF Person
<1>5. CASE Restart
  BY <1>5 DEF Restart, SameSession
<1>6. CASE Stored \/ StoreFails \/ Finished \/ Tick \/ UNCHANGED vars
  BY <1>1, <1>6 DEF Stored, StoreFails, Finished, Tick, vars
<1> QED BY <1>2, <1>3, <1>4, <1>5, <1>6 DEF Next

(***************************************************************************)
(* A secret that was renewed makes no session again once the newer one     *)
(* did: the copy alarm of btTransit.ts does not forget over saves, drops   *)
(* and restarts.                                                           *)
(***************************************************************************)
THEOREM NoOlderSecretServes == Spec => NoOlderSecretAgain
<1>1. ASSUME GateInv, SecretsInv, [Next]_vars, NEW a \in Addrs, sessions'[a] # None,
             sessions[a] = None \/ sessions[a].secret # sessions'[a].secret
      PROVE  sessions'[a].pid \in raced \/ sessions'[a].secret >= best[sessions'[a].pid]
  <2>1. GateType /\ Claims /\ Owned
    BY <1>1 DEF GateInv
  <2>2. ~SameSession(a)
    BY <1>1 DEF SameSession, HelloOf
  <2> PICK t : HelloAnswered(t)
    BY <1>1, <2>1, <2>2, SessionsFrom
  <2> DEFINE s == [user |-> t.user, pid |-> t.pid, secret |-> t.secret,
                   renew |-> IF t.due THEN made + 1 ELSE 0]
  <2>3. t.kind = "hello" /\ Resumes(t) /\ sessions' = [sessions EXCEPT ![t.addr] = s]
    BY DEF HelloAnswered
  <2>4. s.pid = t.pid /\ s.secret = t.secret
    OBVIOUS
  <2> HIDE DEF s
  <2>5. sessions'[a] = s
    BY <2>1, <2>2, <2>3 DEF GateType, SameSession
  <2> PICK i \in DOMAIN jobs : jobs[i].then = t
    BY <2>3 DEF Resumes
  <2>6. t.secret \in Nat /\ t.pid \in 1 .. MaxSecret
    BY <2>1, <2>3, HelloIs
  <2>7. t.pid \in raced \/ best[t.pid] <= t.secret
    BY <1>1, <2>3 DEF SecretsInv, QueueInv
  <2> QED BY <2>1, <2>4, <2>5, <2>6, <2>7 DEF GateType
<1>2. GateInv /\ SecretsInv /\ [Next]_vars =>
        [\A a \in Addrs :
           sessions'[a] # None /\ (sessions[a] = None \/ sessions[a].secret # sessions'[a].secret)
             => LET s == sessions'[a] IN s.pid \in raced \/ s.secret >= best[s.pid]]_vars
  BY <1>1
<1> QED BY <1>2, GateAlways, SecretsAlways, PTL DEF Spec, NoOlderSecretAgain
=============================================================================
