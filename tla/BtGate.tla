------------------------------- MODULE BtGate -------------------------------
(* The phone's Bluetooth pairing gate (src/btTransit.ts): the paired computers   *)
(* in memory and in the sealed store, the pairing window, and the sessions.     *)
(* JavaScript runs one handler at a time, but a handler that saves gives way:    *)
(* what follows its await is a step of its own, after anything else.           *)
(*                                                                           *)
(* The pairing protocol's cryptography is a library's: a secret is a number,    *)
(* a later one is greater, and a hello proves one. Its answers to a hello are    *)
(* modelled from what the gate does with them.                                *)
EXTENDS Integers, Sequences, FiniteSets, SequencesExt

CONSTANTS None,       \* no pairing, no session, no address
          Users,      \* CLI users who may pair
          Addrs,      \* Bluetooth addresses; users of one computer share one
          MaxSecret,  \* bound: secrets ever made
          MaxDay,     \* bound on the clock; a renewal is due after a day and
                      \* missed after two (six and seven days in the code)
          MaxJobs,    \* bound: handlers waiting for a save
          Keystore    \* what opening the store may answer: TRUE opens

ASSUME GateAssumption == MaxSecret \in Nat /\ MaxDay \in Nat /\ MaxJobs \in Nat /\ Keystore \subseteq BOOLEAN

Records == [user : Users, addr : Addrs \cup {None}, pid : Nat, secret : Nat, next : Nat,
            old : SUBSET Nat, renewed : Nat, on : BOOLEAN]
ASSUME NoneAssumption == None \notin Records

VARIABLES mem,       \* state.records: user -> its pairing or None
          disk,      \* the records of the sealed store
          sessions,  \* address -> session or None
          jobs,      \* saves begun and not yet followed up, in order
          pair,      \* the pairing window
          made,      \* secrets made so far
          day,       \* the clock
          acked,     \* history: user -> pairing its computer was last acked for, if
                     \* nothing dropped it between its CONFIRM and the ack
          dropped,   \* history: pairings dropped in memory, until confirmed again
          told,      \* history: those of them whose revoke was reported done, and
                     \* not confirmed again between the two
          raced,     \* history: pairings dropped or switched off while a hello of
                     \* theirs waited for its save, or renewed in a session that
                     \* such a hello made for the user's last pairing
          best       \* history: pairing -> newest secret a session was made with
                     \* since it was confirmed

store == <<mem, disk>>
hist == <<acked, dropped, told, raced, best>>
vars == <<store, sessions, jobs, pair, made, day, hist>>

NoPair == [stage |-> "closed", timedOut |-> FALSE, addr |-> None, lib |-> None, pending |-> None]

\* A pairing as the lib makes it: it is known by its first secret.
Record(u, a, s) ==
  [user |-> u, addr |-> a, pid |-> s, secret |-> s, next |-> 0, old |-> {},
   renewed |-> day, on |-> TRUE]

Init ==
  /\ mem = [u \in Users |-> None] /\ disk = mem
  /\ sessions = [a \in Addrs |-> None]
  /\ jobs = <<>> /\ pair = NoPair
  /\ made = 0 /\ day = 0
  /\ acked = [u \in Users |-> 0]
  /\ dropped = {} /\ told = {} /\ raced = {}
  /\ best = [s \in 1..MaxSecret |-> 0]

-----------------------------------------------------------------------------
(* Saves *)

\* save() is called: the records as they are now are on their way to the store,
\* and `then` is what the handler does after.
saveAfter(queue, records, then) ==
  /\ Len(queue) < MaxJobs
  /\ jobs' = Append(queue, [snap |-> records, stage |-> "saving", then |-> then])
save(records, then) == saveAfter(jobs, records, then)

\* History: of the handlers that wait, what user u's pairing p (0: none) takes back.
Undone(t, u, p) ==
  \/ t.kind = "paired" /\ t.user = u /\ t.pid # p
  \/ t.kind = "revoked" /\ t.pid = p
Superseded(u, p) ==
  [i \in DOMAIN jobs |-> IF Undone(jobs[i].then, u, p)
                         THEN [jobs[i] EXCEPT !.then.holds = FALSE] ELSE jobs[i]]

Nothing == [kind |-> "nothing"]

Waits(i) == jobs[i].stage = "saving"

(* Mutant: saves end in any order. *)
MutantNextSave(i) == Waits(i)
\* Sealing and storing each take calls in turn, so saves end in order.
NextSave(i) == Waits(i) /\ \A j \in 1..(i - 1) : ~Waits(j)

\* The box seals and AsyncStorage stores.
Stored ==
  \E i \in DOMAIN jobs :
    /\ NextSave(i)
    /\ disk' = jobs[i].snap
    /\ jobs' = [jobs EXCEPT ![i].stage = "saved"]
    /\ UNCHANGED <<mem, sessions, pair, made, day, hist>>

\* Or one of them fails: the handler stops there.
StoreFails ==
  \E i \in DOMAIN jobs :
    /\ NextSave(i)
    /\ jobs' = RemoveAt(jobs, i)
    /\ UNCHANGED <<store, sessions, pair, made, day, hist>>

(* Mutant: a handler goes on without waiting for its save. *)
MutantResumes(then) ==
  \E i \in DOMAIN jobs :
    /\ jobs[i].then = then
    /\ jobs' = [jobs EXCEPT ![i].then = Nothing]
\* A handler goes on after its save.
Resumes(then) ==
  \E i \in DOMAIN jobs :
    /\ jobs[i].stage = "saved" /\ \A j \in 1..(i - 1) : jobs[j].stage # "saved"
    /\ jobs[i].then = then
    /\ jobs' = RemoveAt(jobs, i)

-----------------------------------------------------------------------------
(* Dropping *)

Racing(u) ==
  {t.pid : t \in {x \in {jobs[i].then : i \in DOMAIN jobs} : x.kind = "hello" /\ x.user = u}}

Without(ss, u) == [a \in Addrs |-> IF ss[a] # None /\ ss[a].user = u THEN None ELSE ss[a]]

Pids(u) == IF mem[u] = None THEN {} ELSE {mem[u].pid}

(* Mutant: a dropped pairing keeps its session. *)
Mutantdrop(u) ==
  /\ UNCHANGED sessions
  /\ raced' = raced \cup Racing(u)
\* The sessions of a dropped pairing end; the caller takes it off the records.
drop(u) ==
  /\ sessions' = Without(sessions, u)
  /\ raced' = raced \cup Racing(u)

-----------------------------------------------------------------------------
(* Pairing *)

pairWindowOpen == pair.stage \in {"waiting", "code", "approved"} /\ ~pair.timedOut

openPairWindow ==
  /\ pair' = [NoPair EXCEPT !.stage = "waiting"]
  /\ UNCHANGED <<store, sessions, jobs, made, day, hist>>

closePairWindow ==
  /\ pair # NoPair
  /\ pair' = NoPair
  /\ UNCHANGED <<store, sessions, jobs, made, day, hist>>

WindowTimesOut ==
  /\ pairWindowOpen
  /\ pair' = [pair EXCEPT !.timedOut = TRUE]
  /\ UNCHANGED <<store, sessions, jobs, made, day, hist>>

\* COMMIT: one computer at a time; a second commit of the same one starts over,
\* and leaves a pairing already approved to be confirmed.
OnCommit(u, a) ==
  /\ pairWindowOpen
  /\ pair.addr \in {None, a}
  /\ pair' = [pair EXCEPT !.addr = a, !.lib = [user |-> u, code |-> FALSE], !.stage = "waiting"]
  /\ UNCHANGED <<store, sessions, jobs, made, day, hist>>

\* REVEAL: the code is shown, or the computer did not keep to what it committed to.
OnReveal(a, kept) ==
  /\ pairWindowOpen
  /\ pair.addr = a /\ pair.lib # None
  /\ pair' = IF kept /\ ~pair.lib.code
             THEN [pair EXCEPT !.lib.code = TRUE, !.stage = "code"]
             ELSE [pair EXCEPT !.lib = None, !.stage = "failed"]
  /\ UNCHANGED <<store, sessions, jobs, made, day, hist>>

\* The person confirms the code: the pairing is made, not yet kept.
approvePairing ==
  /\ pairWindowOpen
  /\ pair.stage = "code" /\ pair.lib # None
  /\ made < MaxSecret
  /\ made' = made + 1
  /\ pair' = [pair EXCEPT !.pending = Record(pair.lib.user, pair.addr, made + 1),
                          !.lib = None, !.stage = "approved"]
  /\ UNCHANGED <<store, sessions, jobs, day, hist>>

\* CONFIRM: the pairing replaces any old one of this user, and is saved. Until the
\* save is over the same CONFIRM does it all again.
OnConfirm(a) ==
  /\ pairWindowOpen
  /\ pair.addr = a /\ pair.pending # None
  /\ LET rec == pair.pending IN
     /\ drop(rec.user)
     /\ mem' = [mem EXCEPT ![rec.user] = rec]
     /\ saveAfter(Superseded(rec.user, rec.pid), mem',
                  [kind |-> "paired", user |-> rec.user, pid |-> rec.pid, holds |-> TRUE])
     /\ dropped' = (dropped \cup Pids(rec.user)) \ {rec.pid}
     /\ told' = told \ {rec.pid}
     /\ best' = [best EXCEPT ![rec.pid] = 0]
  /\ UNCHANGED <<disk, pair, made, day, acked>>

\* ... and then the computer is told, and the window is over.
Paired(u, p, holds) ==
  /\ Resumes([kind |-> "paired", user |-> u, pid |-> p, holds |-> holds])
  /\ acked' = IF holds THEN [acked EXCEPT ![u] = p] ELSE acked
  /\ pair' = [NoPair EXCEPT !.stage = "paired"]
  /\ UNCHANGED <<store, sessions, made, day, dropped, told, raced, best>>

-----------------------------------------------------------------------------
(* Connections *)

(* Mutant: a secret that was renewed still serves. *)
MutantProves(r, k) == k \in ({r.secret, r.next} \cup r.old) \ {0}
Proves(r, k) == k \in {r.secret, r.next} \ {0}
Age(r) == day - r.renewed
Promoted(r, k) ==
  IF k = r.next
  THEN [r EXCEPT !.secret = k, !.next = 0, !.old = @ \cup {r.secret}, !.renewed = day]
  ELSE r

\* The hello proves an old secret (the copy alarm), comes under another name or
\* from another address, or after the renewal was missed: the pairing goes.
HelloDrops(u, k, a, named) ==
  /\ mem[u] # None /\ mem[u].on
  /\ \/ k \in mem[u].old
     \/ Proves(mem[u], k) /\ (~named \/ a # mem[u].addr \/ Age(mem[u]) >= 2)
  /\ drop(u)
  /\ mem' = [mem EXCEPT ![u] = None]
  /\ dropped' = dropped \cup Pids(u)
  /\ saveAfter(Superseded(u, 0), mem', Nothing)
  /\ UNCHANGED <<disk, pair, made, day, acked, told, best>>

(* Mutant: the records are saved before the hello's is put in. *)
MutantHelloOk(u, k, a) ==
  /\ mem[u] # None /\ mem[u].on
  /\ Proves(mem[u], k) /\ a = mem[u].addr /\ Age(mem[u]) < 2
  /\ mem' = [mem EXCEPT ![u] = Promoted(@, k)]
  /\ save(mem, [kind |-> "hello", user |-> u, addr |-> a, pid |-> mem[u].pid,
                 secret |-> k, due |-> Age(mem'[u]) >= 1])
  /\ UNCHANGED <<disk, sessions, pair, made, day, hist>>
\* A good hello: its record, promoted if it proved the renewed secret, is saved.
HelloOk(u, k, a) ==
  /\ mem[u] # None /\ mem[u].on
  /\ Proves(mem[u], k) /\ a = mem[u].addr /\ Age(mem[u]) < 2
  /\ mem' = [mem EXCEPT ![u] = Promoted(@, k)]
  /\ save(mem', [kind |-> "hello", user |-> u, addr |-> a, pid |-> mem[u].pid,
                 secret |-> k, due |-> Age(mem'[u]) >= 1])
  /\ UNCHANGED <<disk, sessions, pair, made, day, hist>>

\* ... and then the session stands and is answered; when the renewal is due it is
\* offered at once.
HelloAnswered(t) ==
  /\ t.kind = "hello"
  /\ Resumes(t)
  /\ t.due => made < MaxSecret
  /\ made' = IF t.due THEN made + 1 ELSE made
  /\ sessions' = [sessions EXCEPT ![t.addr] =
       [user |-> t.user, pid |-> t.pid, secret |-> t.secret, renew |-> IF t.due THEN made + 1 ELSE 0]]
  /\ best' = [best EXCEPT ![t.pid] = IF t.secret > @ THEN t.secret ELSE @]
  /\ UNCHANGED <<store, pair, day, acked, dropped, told, raced>>

\* The computer's half of the renewal, in its session: the new secret waits for a
\* hello that proves it; the present one still serves. A bad one is forgotten.
OnRenewal(a, good) ==
  /\ sessions[a] # None /\ sessions[a].renew # 0
  /\ mem[sessions[a].user] # None
  /\ LET x == sessions[a] IN
     /\ sessions' = [sessions EXCEPT ![a].renew = 0]
     /\ IF good
        THEN /\ mem' = [mem EXCEPT ![x.user].next = x.renew]
             /\ save(mem', Nothing)
             /\ raced' = raced \cup (Pids(x.user) \ {x.pid})
        ELSE UNCHANGED <<mem, jobs, raced>>
  /\ UNCHANGED <<disk, pair, made, day, acked, dropped, told, best>>

\* The computer says goodbye; or the radio has no link left and it was quiet.
OnBye(a) ==
  /\ sessions[a] # None
  /\ sessions' = [sessions EXCEPT ![a] = None]
  /\ UNCHANGED <<store, jobs, pair, made, day, hist>>

linkGone(gone) ==
  /\ gone # {} /\ \A a \in gone : sessions[a] # None
  /\ sessions' = [a \in Addrs |-> IF a \in gone THEN None ELSE sessions[a]]
  /\ UNCHANGED <<store, jobs, pair, made, day, hist>>

\* The bridge stops.
endSessions ==
  /\ \E a \in Addrs : sessions[a] # None
  /\ sessions' = [a \in Addrs |-> None]
  /\ UNCHANGED <<store, jobs, pair, made, day, hist>>

-----------------------------------------------------------------------------
(* The Bluetooth tab *)

setOn(u, on) ==
  /\ mem[u] # None
  /\ mem' = [mem EXCEPT ![u].on = on]
  /\ sessions' = IF on THEN sessions ELSE Without(sessions, u)
  /\ raced' = IF on THEN raced ELSE raced \cup Racing(u)
  /\ save(mem', Nothing)
  /\ UNCHANGED <<disk, pair, made, day, acked, dropped, told, best>>

revoke(u) ==
  /\ mem[u] # None
  /\ drop(u)
  /\ mem' = [mem EXCEPT ![u] = None]
  /\ dropped' = dropped \cup Pids(u)
  /\ saveAfter(Superseded(u, 0), mem', [kind |-> "revoked", pid |-> mem[u].pid, holds |-> TRUE])
  /\ UNCHANGED <<disk, pair, made, day, acked, told, best>>

\* ... and then the tab is told that it is done.
Revoked(p, holds) ==
  /\ Resumes([kind |-> "revoked", pid |-> p, holds |-> holds])
  /\ told' = IF holds THEN told \cup {p} ELSE told
  /\ UNCHANGED <<store, sessions, pair, made, day, acked, dropped, raced, best>>

\* A handler with nothing left to do but say so.
Finished ==
  /\ Resumes(Nothing)
  /\ UNCHANGED <<store, sessions, pair, made, day, hist>>

-----------------------------------------------------------------------------
\* The process dies and the app is started again: load() opens the store, or
\* finds that the Keystore no longer can and starts with none.
Restart ==
  \E opens \in Keystore :
    /\ mem' = IF opens THEN disk ELSE [u \in Users |-> None]
    /\ jobs' = IF opens THEN <<>>
               ELSE <<[snap |-> mem', stage |-> "saving", then |-> Nothing]>>
    /\ sessions' = [a \in Addrs |-> None]
    /\ pair' = NoPair
    /\ LET kept == {mem'[u].pid : u \in {v \in Users : mem'[v] # None}}
       IN  dropped' = (dropped \ kept) \cup (1..made \ kept)
    /\ UNCHANGED <<disk, made, day, acked, told, raced, best>>

Tick ==
  /\ day < MaxDay
  /\ day' = day + 1
  /\ UNCHANGED <<store, sessions, jobs, pair, made, hist>>

Pairing ==
  \/ openPairWindow \/ closePairWindow \/ WindowTimesOut \/ approvePairing
  \/ \E u \in Users, a \in Addrs : OnCommit(u, a)
  \/ \E a \in Addrs : OnConfirm(a) \/ \E kept \in BOOLEAN : OnReveal(a, kept)
  \/ \E u \in Users, p \in 1..made, holds \in BOOLEAN : Paired(u, p, holds)

Connection ==
  \/ \E u \in Users, k \in 1..made, a \in Addrs :
       HelloOk(u, k, a) \/ \E named \in BOOLEAN : HelloDrops(u, k, a, named)
  \/ \E i \in DOMAIN jobs : HelloAnswered(jobs[i].then)
  \/ \E a \in Addrs : OnBye(a) \/ \E good \in BOOLEAN : OnRenewal(a, good)
  \/ \E gone \in SUBSET Addrs : linkGone(gone)
  \/ endSessions

Person ==
  \/ \E u \in Users : revoke(u) \/ \E on \in BOOLEAN : setOn(u, on)
  \/ \E p \in 1..made, holds \in BOOLEAN : Revoked(p, holds)

Next == Pairing \/ Connection \/ Person \/ Stored \/ StoreFails \/ Finished \/ Restart \/ Tick

Spec == Init /\ [][Next]_vars

-----------------------------------------------------------------------------
Stands(s) == mem[s.user] # None /\ mem[s.user].pid = s.pid /\ mem[s.user].on

\* A session is there only for a pairing that is there and switched on: off and
\* revoked computers get no answer, as handle() and outgoing() answer by session.
SessionStands ==
  \A a \in Addrs : sessions[a] # None => Stands(sessions[a])

\* What ends a pairing ends its sessions at every address, whatever else is in
\* flight - but for one thing, a hello of that pairing that waits for its save.
OnlyALateHelloOutlives ==
  \A a \in Addrs : sessions[a] # None =>
    Stands(sessions[a]) \/ sessions[a].pid \in raced

\* onHello makes a session only once the secret it was made with is in the store
\* as used: after a crash an older copy still raises the alarm.
SessionSecretIsStored ==
  \A a \in Addrs : sessions[a] # None =>
    LET s == sessions[a] IN
    \/ s.pid \in raced
    \/ /\ disk[s.user] # None /\ disk[s.user].pid = s.pid
       /\ s.secret \in disk[s.user].old \cup {disk[s.user].secret}

\* A computer that was told it is paired is in the store, crash or no crash, until
\* something drops it.
AckMeansPaired ==
  \A u \in Users : acked[u] # 0 /\ acked[u] \notin dropped =>
    disk[u] # None /\ disk[u].pid = acked[u]

\* A pairing whose revoke was reported done does not come back, by no restart and
\* by no save begun earlier; only its own CONFIRM, again, makes it anew.
RevokedStaysGone ==
  \A u \in Users :
    /\ mem[u] # None => mem[u].pid \notin told
    /\ disk[u] # None => disk[u].pid \notin told

\* Once onHello made a session with a renewed secret, it makes none with an older
\* one of that pairing, restarts included: only a copy could hold it. A pairing
\* dropped or confirmed again while its hello waited is out of the count.
NoOlderSecretAgain ==
  [][\A a \in Addrs :
       sessions'[a] # None /\ (sessions[a] = None \/ sessions[a].secret # sessions'[a].secret)
         => LET s == sessions'[a] IN s.pid \in raced \/ s.secret >= best[s.pid]]_vars
=============================================================================
