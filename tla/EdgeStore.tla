------------------------------ MODULE EdgeStore ------------------------------
(* The phone's copy of its key's Edge chain (src/src/edgeStore.ts): one queue of *)
(* jobs that load the copy, change it and save it, and the checks that turn a    *)
(* copy and what the key says into a verdict. The key, the stored text, the Sync *)
(* button and a computer that offers links move at every await.                  *)
(* A history is the sequence of its links, and a head pins its history (SHA-256  *)
(* is injective): heads, lastSeen and checkpoints are histories here.            *)
EXTENDS Integers, Sequences, FiniteSets

CONSTANTS
  Nil,
  RingSize,    \* the links the key holds for pickup
  READ_BATCH,
  Before,      \* the links a key may have before this phone first sees it: lengths
  MaxLinks,    \* bound: links the key adds
  MaxSyncs,    \* bound: syncs asked for
  MaxEvents    \* bound: edits, restarts, Sync buttons, offers, lost reads

ASSUME BoundsAssumption ==
  /\ RingSize \in Nat \ {0} /\ READ_BATCH \in Nat \ {0}
  /\ MaxLinks \in Nat /\ MaxEvents \in Nat
  /\ Before \subseteq Nat /\ \E n \in Before : \A m \in Before : m <= n

\* A link of the key's first history; one linked after its flash was put back to an
\* earlier state; a record edited in place; a record that was never a link.
First == 0
Second == 1
Edited == 2
Stray == 3

\* Copies of a chain: links by seq, and lastSeen. A stray is put at most two behind
\* the last record.
Longest == CHOOSE n \in Before : \A m \in Before : m <= n
Reach(e) == Longest + MaxLinks + 2 * e
Copies(e) == UNION {[S -> First..Stray] : S \in SUBSET (1..Reach(e))}
Texts(e) == [links : Copies(e), seen : Seq({First, Second})]
ASSUME NilAssumption == Nil \notin Nat /\ Nil \notin Texts(MaxEvents)

VARIABLES
  log, oldest,   \* the key: its links, the first one it still holds
  era,           \* what it links: First, or Second once it was put back
  stored,        \* the copy in AsyncStorage
  inMemory,      \* the copy in memory, or Nil
  storedText,    \* what this session last read or wrote there, or Nil
  verifiedNow,   \* what this session verified, or Nil
  answer,        \* the chain state's last answer, or Nil
  asked,         \* the queue `syncing`: the first job runs
  at, job,       \* where the running job and an offer's check are, and their locals
  grown, syncs, events, \* counts, for the bounds
  edits,         \* history: outside edits of the stored text
  unread,        \* history: a save wrote over a text its job had not read
  crossed,       \* history: the stored copy was read while a save put a newer one there
  firstHead,     \* history: what the last sync that passed and was saved read first
  lastHead,      \* history: the head the last sync that was saved verified
  signed,        \* the checkpoints that verified this session, with the links they vouch for
  alarm,         \* history: a sync ended tampered
  slipped        \* history: how a sync passed what it should not have

keyVars == <<log, oldest, era>>
storeVars == <<stored, inMemory, storedText>>
memoVars == <<verifiedNow, answer>>
countVars == <<grown, syncs, events>>
pastVars == <<edits, unread, crossed, firstHead, lastHead, signed, alarm, slipped>>
esVars == <<keyVars, storeVars, memoVars, asked, at, job, countVars, pastVars>>

Who == {"sync", "offer"}
Empty0 == [links |-> <<>>, seen |-> <<>>]
\* base and forgot are histories: the copy a job began with, and whether the memory
\* was forgotten since.
Idle == [links |-> <<>>, seen |-> <<>>, base |-> Empty0, forgot |-> FALSE, head |-> <<>>, from |-> 0,
         vhead |-> <<>>, cp |-> Nil, again |-> FALSE, verdict |-> "none", added |-> <<>>, tag |-> Nil]

FirstHeld(n) == IF n >= RingSize THEN n + 1 - RingSize ELSE 1
ESInit ==
  /\ \E n \in Before : log = [i \in 1..n |-> First] /\ oldest = FirstHeld(n)
  /\ era = First
  /\ stored = Empty0 /\ inMemory = Nil /\ storedText = Nil
  /\ verifiedNow = Nil /\ answer = Nil
  /\ asked = <<>> /\ at = [p \in Who |-> "idle"] /\ job = [p \in Who |-> Idle]
  /\ grown = 0 /\ syncs = 0 /\ events = 0
  /\ edits = 0 /\ unread = FALSE /\ crossed = FALSE /\ firstHead = <<>> /\ lastHead = <<>> /\ signed = {}
  /\ alarm = FALSE /\ slipped = {}

-----------------------------------------------------------------------------
(* Copies and heads. A copy's links are a function from seqs to links. *)

Extends(h, g) == Len(g) <= Len(h) /\ SubSeq(h, 1, Len(g)) = g
LastSeq(links) == IF DOMAIN links = {} THEN 0
                  ELSE CHOOSE n \in DOMAIN links : \A m \in DOMAIN links : m <= n
Only(links, S) == [n \in DOMAIN links \cap S |-> links[n]]
Merge(links, added) == [n \in DOMAIN links \cup DOMAIN added |->
                          IF n \in DOMAIN links THEN links[n] ELSE added[n]]
Forks(links, added) == \E n \in DOMAIN links \cap DOMAIN added : links[n] # added[n]

\* follows: the key's link n after this copy. The very next seq must weld - onto
\* the head an edited link still has - and over a gap nothing can be welded.
follows(links, n) ==
  LET last == LastSeq(links) IN
  n > last /\ (n = last + 1 /\ last > 0 => links[last] \in {log[last], Edited})

\* setAsideStrays: the records at the end past the key's head that no sync
\* verified and that do not weld onto the one before them.
Welds(links, n) == n - 1 \in DOMAIN links /\ {links[n - 1], links[n]} \cap {Edited, Stray} = {}
setAsideStrays(links, seen, keySeq) ==
  LET stray(n) == n > keySeq /\ n > Len(seen) /\ ~Welds(links, n)
  IN  Only(links, {n \in DOMAIN links : \E m \in DOMAIN links : m >= n /\ ~stray(m)})

\* The library's copy.assess: the copy may not pass the head, every record that
\* genesis or the head reaches is compared, lastSeen and the checkpoint must lie on
\* the chain; what is missing is a gap unless the key's ring holds it.
Missing(links, h, held) == (1..Len(h)) \ (DOMAIN links \cup held)
Islands(links, h, held) ==
  {n \in DOMAIN links : (\E m \in Missing(links, h, held) : m < n)
                        /\ (\E m \in Missing(links, h, held) : m > n)}
Assess(links, h, held, seen, cp) ==
  CASE \/ LastSeq(links) > Len(h)
       \/ \E n \in DOMAIN links \ Islands(links, h, held) : links[n] # h[n]
       \/ ~Extends(h, seen)
       \/ cp # Nil /\ ~Extends(h, cp) -> "tampered"
    [] OTHER -> IF Missing(links, h, held) = {} THEN "verified" ELSE "gap"

\* A checkpoint for a newer head than the one read is left out.
hybridOk(w) == IF w.cp = Nil THEN FALSE ELSE Len(w.cp) <= Len(w.vhead)

\* ... and from this session's verified copy on: every later link is there.
NewLinksClean(w, held) ==
  LET was == verifiedNow  last == LastSeq(was.links) IN
  /\ LastSeq(w.links) <= Len(w.vhead) /\ Extends(w.vhead, SubSeq(was.head, 1, last))
  /\ hybridOk(w) => Extends(w.vhead, w.cp)
  /\ \A n \in (last + 1)..Len(w.vhead) :
       IF n \in DOMAIN w.links THEN w.links[n] = w.vhead[n] ELSE n \in held

samePrefix(links, was) == Only(links, 1..LastSeq(was)) = was

(* What this session verified, and whether it answers for a copy and a head. The  *)
(* code compares the records by identity: records a job read or an offer brought   *)
(* are its own (tag) until they are saved.                                         *)
(* Mutant: the head alone decides. *)
MutantSkips(w) == verifiedNow # Nil /\ verifiedNow.head = w.vhead
Skips(w) == verifiedNow # Nil /\ verifiedNow.head = w.vhead /\ verifiedNow.links = w.links
            /\ verifiedNow.tag = w.tag
Grew(w) ==
  /\ verifiedNow # Nil /\ verifiedNow.verdict = "verified" /\ DOMAIN verifiedNow.links # {}
  /\ \/ Cardinality(DOMAIN w.links) > Cardinality(DOMAIN verifiedNow.links)
     \/ Len(w.vhead) > Len(verifiedNow.head)
  /\ samePrefix(w.links, verifiedNow.links)
  /\ verifiedNow.tag = Nil /\ DOMAIN w.added \cap DOMAIN verifiedNow.links = {}

-----------------------------------------------------------------------------
(* The key, and what else moves around the app *)

Event == events < MaxEvents /\ events' = events + 1

KeyLinks ==
  /\ grown < MaxLinks /\ grown' = grown + 1
  /\ log' = Append(log, era)
  /\ oldest' = IF oldest < FirstHeld(Len(log) + 1) THEN FirstHeld(Len(log) + 1) ELSE oldest
  /\ UNCHANGED <<era, storeVars, memoVars, asked, at, job, syncs, events, pastVars>>

\* The soft key starts again: of its ring it keeps the latest link.
KeyRestarts ==
  /\ Event /\ oldest < Len(log)
  /\ oldest' = Len(log)
  /\ UNCHANGED <<log, era, storeVars, memoVars, asked, at, job, grown, syncs, pastVars>>

\* The key's flash is put back to an earlier state, and it goes on from there.
KeyPutBack ==
  /\ era = First /\ log # <<>>
  /\ \E n \in 0..(Len(log) - 1) :
       log' = SubSeq(log, 1, n) /\ oldest' = IF n = 0 THEN 1 ELSE n
  /\ era' = Second
  /\ UNCHANGED <<storeVars, memoVars, asked, at, job, countVars, pastVars>>

\* Something else edits the stored copy: a link flipped, cut, or junk put behind.
Edit ==
  /\ Event
  /\ \/ \E n \in DOMAIN stored.links : stored' = [stored EXCEPT !.links[n] = Edited]
     \/ \E n \in DOMAIN stored.links :
          stored' = [stored EXCEPT !.links = Only(@, DOMAIN @ \ {n})]
     \/ \E n \in {LastSeq(stored.links) + 1, LastSeq(stored.links) + 2} :
          stored' = [stored EXCEPT !.links = Merge(@, [m \in {n} |-> Stray])]
  /\ edits' = edits + 1
  /\ UNCHANGED <<keyVars, inMemory, storedText, memoVars, asked, at, job, grown, syncs,
                 unread, crossed, firstHead, lastHead, signed, alarm, slipped>>

\* A restart: the memory is gone, the stored copy and the key are not.
Restarts ==
  /\ Event
  /\ inMemory' = Nil /\ storedText' = Nil /\ verifiedNow' = Nil /\ answer' = Nil
  /\ asked' = <<>> /\ at' = [p \in Who |-> "idle"] /\ job' = [p \in Who |-> Idle]
  /\ signed' = {}
  /\ UNCHANGED <<keyVars, stored, grown, syncs, edits, unread, crossed, firstHead, lastHead,
                 alarm, slipped>>

\* The tab, the background watch, a note: a sync joins the queue.
Ask(j) == syncs < MaxSyncs /\ syncs' = syncs + 1 /\ asked' = Append(asked, j)
sync ==
  /\ Ask([kind |-> "sync", added |-> <<>>, tag |-> Nil])
  /\ UNCHANGED <<keyVars, storeVars, memoVars, at, job, grown, events, pastVars>>

\* fullSync: forgetVerifiedFor, outside the queue, and a sync.
SyncButton ==
  /\ Event /\ Ask([kind |-> "sync", added |-> <<>>, tag |-> Nil])
  /\ inMemory' = Nil /\ verifiedNow' = Nil /\ answer' = Nil
  /\ job' = [job EXCEPT !["sync"].forgot = at["sync"] # "idle"]
  /\ UNCHANGED <<keyVars, stored, storedText, at, grown, pastVars>>

-----------------------------------------------------------------------------
(* A job of the queue, and an offer's check *)

Go(p, where, w) == at' = [at EXCEPT ![p] = where] /\ job' = [job EXCEPT ![p] = w]
Done(p) == Go(p, "idle", Idle)

\* loadMirror: the copy in memory, or the stored one read and kept.
Loaded == IF inMemory # Nil THEN inMemory ELSE stored
loadMirror ==
  /\ inMemory' = Loaded
  /\ storedText' = IF inMemory # Nil THEN storedText ELSE stored
  /\ UNCHANGED stored

SyncLoads ==
  /\ asked # <<>> /\ at["sync"] = "idle"
  /\ loadMirror
  /\ LET j == Head(asked)
         w == [Idle EXCEPT !.links = Loaded.links, !.seen = Loaded.seen, !.base = Loaded]
     IN \/ j.kind = "sync" /\ Go("sync", "head", w) /\ UNCHANGED asked
        \* keepOfferedNow: merged into the copy as it is now; a fork keeps nothing
        \/ /\ j.kind = "keep" /\ ~Forks(w.links, j.added)
           /\ Go("sync", "look", [w EXCEPT !.links = Merge(@, j.added), !.tag = j.tag]) /\ UNCHANGED asked
        \/ j.kind = "keep" /\ Forks(w.links, j.added) /\ asked' = Tail(asked) /\ Done("sync")
  /\ UNCHANGED <<keyVars, memoVars, countVars, pastVars>>

\* mergeOffered, outside the queue: the candidate is the copy with what a computer
\* offers; a fork ends it. With the memory forgotten it may read the stored copy
\* while a save is putting a newer one there.
Offers == {<<>>} \cup {[m \in {n} |-> log[n]] : n \in DOMAIN log}
            \cup UNION {[{n} -> {Edited} \cup (0..(era - 1))] : n \in 1..(Len(log) + 1)}
mergeOffered ==
  /\ Event /\ at["offer"] = "idle"
  /\ loadMirror
  /\ \E x \in Offers :
       /\ DOMAIN x \cap DOMAIN Loaded.links = {}
       /\ Go("offer", "head", [Idle EXCEPT !.links = Merge(Loaded.links, x),
               !.seen = Loaded.seen, !.added = x,
               !.tag = IF x = <<>> THEN Nil ELSE events + 1])
  /\ crossed' = (crossed \/ (inMemory = Nil /\ at["sync"] = "write"))
  /\ UNCHANGED <<keyVars, memoVars, asked, grown, syncs, edits, unread, firstHead, lastHead, signed,
                 alarm, slipped>>

\* The key's head, and where its ring begins; a sync sets strays aside and reads.
ReadHead(p) ==
  /\ at[p] = "head"
  /\ LET w == [job[p] EXCEPT !.head = log, !.vhead = log] IN
     IF p = "sync"
     THEN LET kept == setAsideStrays(w.links, w.seen, Len(log)) IN
          Go(p, "read", [w EXCEPT !.links = kept,
               !.from = IF LastSeq(kept) + 1 > oldest THEN LastSeq(kept) + 1 ELSE oldest])
     ELSE Go(p, "key", w)
  /\ UNCHANGED <<keyVars, storeVars, memoVars, asked, countVars, pastVars>>

\* One batch: what the key holds of it now, as long as it follows and is not past
\* the head this sync read.
(* Mutant: links written since the head was read are kept too. *)
MutantTaken(w, got) ==
  {n \in got : \A m \in got : m <= n =>
     m > LastSeq(w.links) /\ (m - 1 \in got \/ follows(w.links, m))}
Taken(w, got) ==
  {n \in got : \A m \in got : m <= n =>
     /\ m <= Len(w.head)
     /\ m > LastSeq(w.links) /\ (m - 1 \in got \/ follows(w.links, m))}
ReadBatch ==
  /\ at["sync"] = "read"
  /\ LET w == job["sync"]
         first == IF w.from > oldest THEN w.from ELSE oldest
         last == IF w.from + READ_BATCH - 1 < Len(log) THEN w.from + READ_BATCH - 1 ELSE Len(log)
         got == first..last
         taken == Taken(w, got)
     IN IF w.from > Len(w.head) \/ got = {} THEN Go("sync", "key", w)
        ELSE LET more == [w EXCEPT !.links = Merge(@, [n \in taken |-> log[n]]), !.from = last + 1,
                                  !.tag = IF taken = {} THEN @ ELSE 0]
             IN  Go("sync", IF taken = got /\ last < Len(w.head) THEN "read" ELSE "key", more)
  /\ UNCHANGED <<keyVars, storeVars, memoVars, asked, countVars, pastVars>>

\* copyKey: a checkpoint of the key's head now, or the one kept for the head this
\* check read. It may be unwanted (only new links to check), or not read.
Checkpoints(w) == {Nil} \cup (({log} \cup {s.cp : s \in {t \in signed : t.cp = w.vhead}}) \ {<<>>})
copyKey(p) ==
  /\ at[p] = "key"
  /\ \E cp \in Checkpoints(job[p]) :
       Go(p, IF job[p].again THEN "ring" ELSE "check", [job[p] EXCEPT !.cp = cp])
  /\ UNCHANGED <<keyVars, storeVars, memoVars, asked, countVars, pastVars>>

\* A check ends: an offer is taken if it verifies, every added link checked; a sync
\* goes on to save, lastSeen at the head it read if that verified or shows a gap.
Good == {"verified", "gap"}
(* Mutant: links inside a gap are taken. *)
MutantTakes(w, held) == TRUE
Takes(w, held) == DOMAIN w.added \cap Islands(w.links, w.vhead, held) = {}
SeenAfter(w, verdict) == IF verdict \in Good THEN w.head ELSE w.seen
Islanded(w, held, verdict) == IF verdict = "verified" THEN {} ELSE Islands(w.links, w.vhead, held)
Slips(w, held, verdict, full) ==
  {k \in {"full"} : full /\ ~Extends(w.vhead, firstHead)}
  \cup {k \in {"verified"} : ~Extends(w.vhead, lastHead)}
  \cup {k \in {"copy"} : \E n \in DOMAIN w.links \ Islanded(w, held, verdict) :
                          n > Len(w.vhead) \/ w.links[n] # w.vhead[n]}
Ends(p, w, verdict, held, full) ==
  IF p = "sync"
  THEN /\ Go(p, "look", [w EXCEPT !.seen = SeenAfter(w, verdict), !.verdict = verdict])
       /\ slipped' = IF verdict \in Good THEN slipped \cup Slips(w, held, verdict, full) ELSE slipped
       /\ UNCHANGED asked
  ELSE /\ Done(p)
       /\ IF verdict \in Good /\ Takes(w, held)
          THEN asked' = Append(asked, [kind |-> "keep", added |-> w.added, tag |-> w.tag])
          ELSE UNCHANGED asked
       /\ UNCHANGED slipped

Clean(w, held) == Grew(w) /\ NewLinksClean(w, held)
remember(w, verdict) ==
  verifiedNow' = [head |-> w.vhead, links |-> w.links, verdict |-> verdict, tag |-> w.tag]
\* evaluateWith without the full check.
Short(p, w, held) ==
  \/ /\ Skips(w)
     /\ Ends(p, w, verifiedNow.verdict, {}, FALSE) /\ UNCHANGED <<verifiedNow, signed>>
  \/ /\ ~Skips(w) /\ Clean(w, held)
     /\ Ends(p, w, "verified", held, FALSE) /\ remember(w, "verified") /\ UNCHANGED signed

\* liveView's short path; when it is not clean what this session verified is dropped,
\* and a check with no checkpoint asks for one.
CheckShort(p) ==
  /\ at[p] = "check"
  /\ LET w == job[p] IN
     \/ Short(p, w, {})
     \/ /\ ~Skips(w) /\ ~Clean(w, {})
        /\ verifiedNow' = IF Grew(w) THEN Nil ELSE verifiedNow
        /\ \E cp \in IF w.cp = Nil THEN Checkpoints(w) ELSE {w.cp} :
             Go(p, "ring", [w EXCEPT !.cp = cp])
        /\ UNCHANGED <<asked, slipped, signed>>
  /\ UNCHANGED <<keyVars, storeVars, answer, countVars, edits, unread, crossed, firstHead, lastHead, alarm>>

\* evaluateWith, the full check. A copy that verifies without a checkpoint is unsigned.
(* Mutant: a check with no signature counts. *)
MutantEvaluate(w, held) ==
  Assess(w.links, w.vhead, held, w.seen, IF hybridOk(w) THEN w.cp ELSE Nil)
(* Mutant: lastSeen is not given to the check. *)
MutantForgets(w, held) ==
  LET v == Assess(w.links, w.vhead, held, <<>>, IF hybridOk(w) THEN w.cp ELSE Nil)
  IN  IF v = "verified" /\ ~hybridOk(w) /\ w.vhead # <<>> THEN "unsigned" ELSE v
evaluate(w, held) ==
  LET v == Assess(w.links, w.vhead, held, w.seen, IF hybridOk(w) THEN w.cp ELSE Nil)
  IN  IF v = "verified" /\ ~hybridOk(w) /\ w.vhead # <<>> THEN "unsigned" ELSE v

Vouched(w) == [cp |-> w.cp, part |-> SubSeq(w.vhead, 1, LastSeq(w.links))]
\* ... with the key's ring read. Unsigned, head and checkpoint are asked once more.
CheckFull(p) ==
  /\ at[p] = "ring"
  /\ LET w == job[p]
         held == {n \in oldest..Len(log) : n <= Len(w.vhead) /\ log[n] = w.vhead[n]}
         v == evaluate(w, held)
     IN \/ Short(p, w, held)
        \/ /\ ~Skips(w) /\ ~Clean(w, held)
           /\ IF v = "unsigned" THEN verifiedNow' = Nil ELSE remember(w, v)
           /\ signed' = IF hybridOk(w) /\ v = "verified" THEN signed \cup {Vouched(w)} ELSE signed
           /\ IF v = "unsigned" /\ ~w.again
              THEN Go(p, "again", [w EXCEPT !.again = TRUE]) /\ UNCHANGED <<asked, slipped>>
              ELSE Ends(p, w, v, held, TRUE)
  /\ UNCHANGED <<keyVars, storeVars, answer, countVars, edits, unread, crossed, firstHead, lastHead, alarm>>

HeadAgain(p) ==
  /\ at[p] = "again"
  /\ Go(p, "key", [job[p] EXCEPT !.vhead = log])
  /\ UNCHANGED <<keyVars, storeVars, memoVars, asked, countVars, pastVars>>

\* An await fails: the key does not answer. The job is over, nothing is saved.
Fails(p) ==
  /\ Event /\ at[p] \in {"head", "read", "key", "ring", "again"}
  /\ Done(p)
  /\ asked' = IF p = "sync" THEN Tail(asked) ELSE asked
  /\ UNCHANGED <<keyVars, storeVars, memoVars, grown, syncs, pastVars>>

-----------------------------------------------------------------------------
(* saveMirror *)

Text(w) == [links |-> w.links, seen |-> w.seen]

(* Mutant: the stored text is not looked at. *)
MutantChangedOutside == FALSE
changedOutside == inMemory # Nil /\ stored # storedText

\* The stored text is read back: changed outside, the save is not made and the
\* memory is dropped. With the memory forgotten meanwhile there is nothing to
\* compare with.
SaveLooks ==
  /\ at["sync"] = "look"
  /\ LET w == job["sync"] IN
     IF changedOutside
     THEN /\ inMemory' = Nil /\ verifiedNow' = Nil /\ answer' = Nil
          /\ Go("sync", "record", w) /\ UNCHANGED unread
     ELSE /\ inMemory' = Text(w)
          /\ unread' = (unread \/ (stored # w.base /\ ~w.forgot))
          /\ Go("sync", "write", w)
          /\ verifiedNow' = IF verifiedNow # Nil /\ verifiedNow.tag = w.tag
                            THEN [verifiedNow EXCEPT !.tag = Nil] ELSE verifiedNow
          /\ UNCHANGED answer
  /\ UNCHANGED <<keyVars, stored, storedText, asked, countVars, edits, crossed, firstHead, lastHead,
                 signed, alarm, slipped>>

\* ... and written: what was put there since the look is written over.
SaveWrites ==
  /\ at["sync"] = "write"
  /\ LET w == job["sync"] IN
     /\ stored' = Text(w) /\ storedText' = Text(w)
     /\ firstHead' = IF w.verdict \in Good THEN w.head ELSE firstHead
     /\ lastHead' = IF w.verdict = "verified" THEN w.vhead ELSE lastHead
     /\ Go("sync", "record", w)
  /\ UNCHANGED <<keyVars, inMemory, memoVars, asked, countVars, edits, unread, crossed, signed, alarm,
                 slipped>>

\* record: the chain state's answer, with a head only if this check vouched for it.
record ==
  /\ at["sync"] = "record"
  /\ LET w == job["sync"]
         vouched == w.verdict \in Good /\ Len(w.seen) = Len(w.vhead)
     IN /\ answer' = IF w.verdict = "none" THEN answer
                     ELSE [verdict |-> w.verdict, ok |-> w.verdict = "verified" /\ vouched,
                           head |-> IF vouched THEN w.seen ELSE Nil]
        /\ alarm' = (alarm \/ w.verdict = "tampered")
  /\ asked' = Tail(asked) /\ Done("sync")
  /\ UNCHANGED <<keyVars, storeVars, verifiedNow, countVars, edits, unread, crossed, firstHead, lastHead, signed,
                 slipped>>

World == KeyLinks \/ KeyRestarts \/ KeyPutBack \/ Edit \/ Restarts \/ sync \/ SyncButton
Check(p) == ReadHead(p) \/ copyKey(p) \/ CheckShort(p) \/ CheckFull(p) \/ HeadAgain(p) \/ Fails(p)
ESNext ==
  \/ World \/ SyncLoads \/ mergeOffered \/ ReadBatch \/ SaveLooks \/ SaveWrites \/ record
  \/ \E p \in Who : Check(p)

ESSpec == ESInit /\ [][ESNext]_esVars

-----------------------------------------------------------------------------
\* Through restarts and edits, no full check passes a head that does not extend the
\* last one saved as seen, also when syncs in between failed or ended tampered -
\* unless the stored copy was once read across a save.
LastSeenHolds == crossed \/ "full" \notin slipped

\* What the code says lastSeen is for, with no exception: to catch a key that went
\* backwards.
LastSeenCatches == "full" \notin slipped

\* Whatever path a check took and whatever ran beside it, a copy that passes is the
\* key's: each of its records that the head reaches is the head's.
PassedIsTheKeys == "copy" \notin slipped

\* What the tests say: a key whose head went back since the last verified sync is a
\* rollback. A sync that verified on its second try saves the head of the first.
RollbackIsSeen == "verified" \notin slipped

\* As long as the key only grows and nothing edits the copy, no race of the key's
\* links with a check's reads, no restart and no offer ends in "tampered".
NoFalseAlarm == edits = 0 /\ era = First => ~alarm

\* An answer that lets a budget open names a head that grew from links which a
\* check with the key's signature verified in this session.
OkIsSigned ==
  answer # Nil /\ answer.ok =>
    answer.head = <<>> \/ \E s \in signed : Extends(answer.head, s.part)

\* A save never finds a stored copy other than the one its job began with and still
\* writes, unless the memory was forgotten while the job ran or the copy was once
\* read across a save.
EditsAreSeen == crossed \/ ~unread

\* Nothing but the key's links gets into the copy, whatever is offered.
OnlyTheKeysLinks ==
  edits = 0 => \A n \in DOMAIN stored.links : stored.links[n] \in {First, Second}
=============================================================================
