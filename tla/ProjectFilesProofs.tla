------------------------- MODULE ProjectFilesProofs -------------------------
(***************************************************************************)
(* Theorems about ProjectFiles, for any wrappers and threads: what is      *)
(* signed can be verified, and every refusal has a cause.                  *)
(***************************************************************************)
EXTENDS ProjectFiles, TLAPS

WrapperRecord == [status : Status, known : Hash, key : Key \cup {"none"},
                  raced : BOOLEAN, trouble : BOOLEAN]
ThreadRecord == [step : Step, hash : Hash, alone : BOOLEAN]

\* What a thread can be at, by how far its wrapper is; a start has one thread.
Places ==
    /\ \A t \in Thread :
          /\ At(t, "opened") => wrapper[Owner[t]].status \in {"cache", "up"}
          /\ thread[t].step \in {"hashing", "storing"} =>
                wrapper[Owner[t]].status \in {"register", "up"}
          /\ thread[t].step \in {"verifying", "calling"} => Is(Owner[t], "up")
    /\ \A t, s \in Thread : Owner[t] = Owner[s] /\ Is(Owner[t], "cache") =>
          At(t, "idle") \/ At(s, "idle") \/ t = s

\* What is signed without a secret, and the wrappers that verify it: with a key
\* that is not a secret, and that they got without meeting anybody.
Signed == entries \ Secrets
Relies(w) == ~wrapper[w].raced /\ wrapper[w].key \notin Secrets

\* Only one wrapper that has met no other is at its key, a wrapper with a key has
\* that of the file, or a secret, or has met another, and so has everybody with a
\* key while somebody is making one.
Keys ==
    /\ \A key \in Signed : key = keyFile /\ keyFile # "none"
    /\ \A w, v \in Wrapper : AtKey(w) /\ AtKey(v) /\ w # v => wrapper[w].raced
    /\ \A w \in Wrapper : wrapper[w].status \in {"register", "up"} =>
          /\ wrapper[w].key # "none"
          /\ Relies(w) => wrapper[w].key = keyFile
    /\ \A w \in Wrapper : wrapper[w].status \in {"creating", "filling"} =>
          /\ Signed = {}
          /\ \A v \in Wrapper : wrapper[v].status \in {"register", "up"} => ~Relies(v)

\* Unless something is wrong the hash a wrapper knows is that of the file; one
\* that a verification holds is the one the wrapper knows, and one about to be
\* stored that of the file, for threads that have had the cache for themselves.
KnownRight(w) ==
    /\ Is(w, "up") /\ author = w /\ ~wrapper[w].trouble
    /\ \A t \in Thread : Owner[t] = w => ~Writing(t)
    => wrapper[w].known = cache
HoldsKnown(t) ==
    At(t, "verifying") /\ thread[t].alone => thread[t].hash = wrapper[Owner[t]].known
StoresRight(t) ==
    At(t, "storing") /\ thread[t].alone /\ author = Owner[t] => thread[t].hash = cache
Apart(t) ==
    Busy(t) /\ thread[t].alone => \A s \in Thread : s # t /\ Owner[s] = Owner[t] => ~Writing(s)

Hashes ==
    /\ \A w \in Wrapper : KnownRight(w)
    /\ \A t \in Thread : HoldsKnown(t) /\ StoresRight(t) /\ Apart(t)

\* The inductive invariant.
Inv == TypeOK /\ Places /\ Keys /\ Hashes

----------------------------------------------------------------------------
(* What the steps are built from                                           *)

LEMMA Types ==
    ASSUME TypeOK
    PROVE  /\ cache \in File /\ author \in Wrapper \cup {Operator}
           /\ keyFile \in Made \cup {"none"} /\ entries \subseteq Key
           /\ wrapper \in [Wrapper -> WrapperRecord]
           /\ thread \in [Thread -> ThreadRecord]
           /\ Owner \in [Thread -> Wrapper] /\ Background \subseteq Thread
BY OwnerAssumption DEF TypeOK, WrapperRecord, ThreadRecord

LEMMA OlderHash == \A hash \in Hash : Older(hash) \in Hash
BY DEF Older, Hash, File

LEMMA IdleRecords ==
    /\ Idle \in ThreadRecord /\ Calling \in ThreadRecord /\ Down \in WrapperRecord
    /\ Idle.step = "idle" /\ Calling.step = "calling" /\ Down.status = "down"
BY DEF Idle, Calling, Down, ThreadRecord, WrapperRecord, Step, Hash, File, Status, Key, Made

\* Rewriting the cache ages the hashes and changes nothing else.
LEMMA RewriteFacts ==
    ASSUME NEW by \in Wrapper \cup {Operator}, NEW content \in File,
           NEW ws \in [Wrapper -> WrapperRecord], NEW ts \in [Thread -> ThreadRecord],
           Rewrite(by, content, ws, ts)
    PROVE  /\ cache' = content /\ author' = by
           /\ wrapper' \in [Wrapper -> WrapperRecord]
           /\ thread' \in [Thread -> ThreadRecord]
           /\ \A w \in Wrapper :
                 /\ wrapper'[w].status = ws[w].status /\ wrapper'[w].key = ws[w].key
                 /\ wrapper'[w].raced = ws[w].raced /\ wrapper'[w].trouble = ws[w].trouble
                 /\ wrapper'[w].known = Older(ws[w].known)
           /\ \A t \in Thread :
                 /\ thread'[t].step = ts[t].step /\ thread'[t].alone = ts[t].alone
                 /\ thread'[t].hash = Older(ts[t].hash)
<1>1. ASSUME NEW w \in Wrapper
      PROVE  /\ wrapper'[w] \in WrapperRecord
             /\ wrapper'[w].status = ws[w].status /\ wrapper'[w].key = ws[w].key
             /\ wrapper'[w].raced = ws[w].raced /\ wrapper'[w].trouble = ws[w].trouble
             /\ wrapper'[w].known = Older(ws[w].known)
  <2>1. wrapper'[w] = [ws[w] EXCEPT !.known = Older(@)]
    BY DEF Rewrite
  <2>2. ws[w] \in WrapperRecord
    OBVIOUS
  <2>3. Older(ws[w].known) \in Hash
    BY <2>2, OlderHash DEF WrapperRecord
  <2> QED
    BY <2>1, <2>2, <2>3 DEF WrapperRecord
<1>2. ASSUME NEW t \in Thread
      PROVE  /\ thread'[t] \in ThreadRecord
             /\ thread'[t].step = ts[t].step /\ thread'[t].alone = ts[t].alone
             /\ thread'[t].hash = Older(ts[t].hash)
  <2>1. thread'[t] = [ts[t] EXCEPT !.hash = Older(@)]
    BY DEF Rewrite
  <2>2. ts[t] \in ThreadRecord
    OBVIOUS
  <2>3. Older(ts[t].hash) \in Hash
    BY <2>2, OlderHash DEF ThreadRecord
  <2> QED
    BY <2>1, <2>2, <2>3 DEF ThreadRecord
<1> QED
  BY <1>1, <1>2 DEF Rewrite

LEMMA UsingFacts ==
    ASSUME TypeOK, NEW t \in Thread, NEW step \in Step
    PROVE  /\ Using(t, step) \in ThreadRecord
           /\ Using(t, step).step = step
           /\ Using(t, step).alone <=> \A s \in Siblings(t) : ~Writing(s)
           /\ step = "verifying" => Using(t, step).hash = wrapper[Owner[t]].known
<1>1. wrapper[Owner[t]].known \in Hash
  BY Types DEF WrapperRecord
<1>2. (\A s \in Siblings(t) : ~Writing(s)) \in BOOLEAN
  OBVIOUS
<1> QED
  BY <1>1, <1>2 DEF Using, ThreadRecord, Hash, File

LEMMA StartedFacts ==
    ASSUME TypeOK, NEW t \in Thread, NEW step \in Step
    PROVE  /\ Started(t, step) \in [Thread -> ThreadRecord]
           /\ Started(t, step)[t].step = step
           /\ Started(t, step)[t].alone <=> \A s \in Siblings(t) : ~Writing(s)
           /\ \A s \in Thread : s # t =>
                 /\ Started(t, step)[s].step = thread[s].step
                 /\ Started(t, step)[s].hash = thread[s].hash
                 /\ Started(t, step)[s].alone <=>
                       thread[s].alone /\ ~(s \in Siblings(t) /\ Busy(s))
<1>1. ASSUME NEW s \in Thread, s # t
      PROVE  /\ Started(t, step)[s] \in ThreadRecord
             /\ Started(t, step)[s].step = thread[s].step
             /\ Started(t, step)[s].hash = thread[s].hash
             /\ Started(t, step)[s].alone <=>
                   thread[s].alone /\ ~(s \in Siblings(t) /\ Busy(s))
  <2>1. thread[s] \in ThreadRecord
    BY Types
  <2>2. Started(t, step)[s] =
          [thread[s] EXCEPT !.alone = @ /\ ~(s \in Siblings(t) /\ Busy(s))]
    BY <1>1 DEF Started
  <2>3. thread[s].alone \in BOOLEAN
    BY <2>1 DEF ThreadRecord
  <2> QED
    BY <2>1, <2>2, <2>3 DEF ThreadRecord
<1>2. Started(t, step)[t] = Using(t, step)
  BY DEF Started
<1>3. Started(t, step) \in [Thread -> ThreadRecord]
  BY <1>1, <1>2, UsingFacts DEF Started
<1> QED
  BY <1>1, <1>2, <1>3, UsingFacts

LEMMA EndedFacts ==
    ASSUME TypeOK, NEW t \in Thread
    PROVE  /\ Ended(t) \in [Thread -> ThreadRecord]
           /\ Ended(t)[t].step = "idle" \/ (Ended(t)[t].step = "calling" /\ Is(Owner[t], "up"))
           /\ \A s \in Thread : s # t => Ended(t)[s] = thread[s]
BY Types, IdleRecords DEF Ended, Idle, Calling

\* Nothing that Keys speaks of has changed.
LEMMA KeysKept ==
    ASSUME Keys, UNCHANGED <<keyFile, entries>>,
           \A w \in Wrapper :
              /\ wrapper'[w].key = wrapper[w].key
              /\ wrapper'[w].raced = wrapper[w].raced
              /\ \/ wrapper'[w].status = wrapper[w].status
                 \/ wrapper[w].status = "register" /\ wrapper'[w].status = "up"
                 \/ ~AtKey(w) /\ wrapper'[w].status \in {"down", "cache"}
    PROVE  Keys'
BY DEF Keys, Relies, Signed, AtKey

\* Siblings share the wrapper.
LEMMA SiblingFacts ==
    ASSUME NEW t \in Thread, NEW s \in Thread
    PROVE  s \in Siblings(t) <=> s # t /\ Owner[s] = Owner[t]
BY DEF Siblings

----------------------------------------------------------------------------
(* Writing the cache                                                       *)

\* A step that rewrites the cache in a thread of the wrapper w: the thread t is
\* or gets to writing, or has failed, which is trouble, or w is only starting.
LEMMA OwnRewrite ==
    ASSUME Inv, NEW t \in Thread, NEW content \in File,
           NEW ws \in [Wrapper -> WrapperRecord], NEW ts \in [Thread -> ThreadRecord],
           Rewrite(Owner[t], content, ws, ts),
           \A w \in Wrapper : ws[w].known = wrapper[w].known,
           \A s \in Thread : s # t => ts[s].step = thread[s].step /\ ts[s].hash = thread[s].hash,
           \A s \in Thread : s # t /\ ts[s].alone =>
               /\ thread[s].alone
               /\ Owner[s] = Owner[t] /\ Busy(s) =>
                     Writing(t) \/ ts[t].step \notin {"opened", "hashing", "storing"},
           ts[t].step \in {"idle", "calling", "opened", "hashing"},
           ts[t].step \in {"opened", "hashing"} /\ ts[t].alone =>
               \A s \in Thread : s # t /\ Owner[s] = Owner[t] => ~Writing(s),
           \/ ts[t].step \in {"opened", "hashing"}
           \/ ws[Owner[t]].trouble \/ ws[Owner[t]].status # "up",
           \A s \in Thread : s # t /\ Owner[s] = Owner[t] /\ At(s, "storing") /\ ts[s].alone =>
               Writing(t)
    PROVE  Hashes'
<1>1. Owner[t] \in Wrapper /\ Owner \in [Thread -> Wrapper]
  BY Types DEF Inv
<1>2. /\ cache' = content /\ author' = Owner[t]
      /\ \A w \in Wrapper :
            /\ wrapper'[w].status = ws[w].status /\ wrapper'[w].trouble = ws[w].trouble
            /\ wrapper'[w].known = Older(wrapper[w].known)
      /\ \A s \in Thread :
            /\ thread'[s].step = ts[s].step /\ thread'[s].alone = ts[s].alone
            /\ thread'[s].hash = Older(ts[s].hash)
  BY <1>1, RewriteFacts
<1>3. ASSUME NEW w \in Wrapper
      PROVE  KnownRight(w)'
  <2>1. CASE w = Owner[t]
    BY <1>2, <2>1 DEF KnownRight, Is, Writing
  <2>2. CASE w # Owner[t]
    BY <1>2, <2>2 DEF KnownRight
  <2> QED
    BY <2>1, <2>2
<1>4. ASSUME NEW s \in Thread
      PROVE  HoldsKnown(s)'
  <2>1. CASE s = t
    BY <1>2, <2>1 DEF HoldsKnown, At
  <2>2. CASE s # t
    <3>1. ASSUME At(s, "verifying")', thread'[s].alone
          PROVE  thread'[s].hash = wrapper'[Owner[s]].known
      <4>1. At(s, "verifying") /\ thread[s].alone
        BY <1>2, <2>2, <3>1 DEF At
      <4>2. thread[s].hash = wrapper[Owner[s]].known
        BY <4>1 DEF Inv, Hashes, HoldsKnown
      <4> QED
        BY <1>1, <1>2, <2>2, <4>2
    <3> QED
      BY <3>1 DEF HoldsKnown
  <2> QED
    BY <2>1, <2>2
<1>5. ASSUME NEW s \in Thread
      PROVE  StoresRight(s)'
  <2>1. CASE s = t
    BY <1>2, <2>1 DEF StoresRight, At
  <2>2. CASE s # t
    <3>1. ASSUME At(s, "storing")', thread'[s].alone, author' = Owner[s]
          PROVE  FALSE
      <4>1. At(s, "storing") /\ thread[s].alone /\ Owner[s] = Owner[t]
        BY <1>2, <2>2, <3>1 DEF At
      <4>2. Writing(t)
        BY <1>2, <2>2, <3>1, <4>1
      <4> QED
        BY <2>2, <4>1, <4>2 DEF Inv, Hashes, Apart, Busy, Writing, At
    <3> QED
      BY <3>1 DEF StoresRight
  <2> QED
    BY <2>1, <2>2
<1>6. ASSUME NEW s \in Thread
      PROVE  Apart(s)'
  <2>1. CASE s = t
    BY <1>2, <2>1 DEF Apart, Busy, Writing, At
  <2>2. CASE s # t
    <3>1. ASSUME Busy(s)', thread'[s].alone, NEW r \in Thread, r # s, Owner[r] = Owner[s]
          PROVE  ~Writing(r)'
      <4>1. Busy(s) /\ thread[s].alone
        BY <1>2, <2>2, <3>1 DEF Busy, Writing, At
      <4>2. ~Writing(r)
        BY <3>1, <4>1 DEF Inv, Hashes, Apart
      <4>3. CASE r # t
        BY <1>2, <4>2, <4>3 DEF Writing
      <4>4. CASE r = t
        BY <1>2, <2>2, <3>1, <4>1, <4>2, <4>4 DEF Writing
      <4> QED
        BY <4>3, <4>4
    <3> QED
      BY <3>1 DEF Apart
  <2> QED
    BY <2>1, <2>2
<1> QED
  BY <1>3, <1>4, <1>5, <1>6 DEF Hashes

\* TypeOK's own conditions are among those of Places and Keys.
LEMMA TypeStep ==
    ASSUME cache' \in File, author' \in Wrapper \cup {Operator},
           keyFile' \in Made \cup {"none"}, entries' \subseteq Key,
           wrapper' \in [Wrapper -> WrapperRecord], thread' \in [Thread -> ThreadRecord],
           Places', Keys'
    PROVE  TypeOK'
<1>1. \A t \in Thread : wrapper'[Owner[t]].status = "down" => thread'[t].step = "idle"
  <2>1. \A t \in Thread : thread'[t].step \in Step
    BY DEF ThreadRecord
  <2> QED
    BY <2>1 DEF Places, At, Is, Step
<1>2. \A w \in Wrapper : wrapper'[w].status = "up" => wrapper'[w].key # "none"
  BY DEF Keys, Relies, Signed
<1> QED
  BY <1>1, <1>2 DEF TypeOK, WrapperRecord, ThreadRecord

LEMMA OpenStep ==
    ASSUME Inv, NEW t \in Thread, Open(t)
    PROVE  Inv'
<1> DEFINE ts == Started(t, "opened")
<1>1. /\ wrapper \in [Wrapper -> WrapperRecord] /\ thread \in [Thread -> ThreadRecord]
      /\ Owner \in [Thread -> Wrapper]
      /\ keyFile \in Made \cup {"none"} /\ entries \subseteq Key
  BY Types DEF Inv
<1>2. /\ ts \in [Thread -> ThreadRecord]
      /\ ts[t].step = "opened"
      /\ ts[t].alone <=> \A s \in Siblings(t) : ~Writing(s)
      /\ \A s \in Thread : s # t =>
            /\ ts[s].step = thread[s].step
            /\ ts[s].hash = thread[s].hash
            /\ ts[s].alone <=> thread[s].alone /\ ~(s \in Siblings(t) /\ Busy(s))
  BY StartedFacts DEF Inv, Step
<1>3. /\ Is(Owner[t], "up")
      /\ Rewrite(Owner[t], "empty", wrapper, ts)
      /\ keyFile' = keyFile /\ entries' = entries
  BY DEF Open
<1> HIDE DEF ts
<1>4. "empty" \in File /\ Owner[t] \in Wrapper
  BY <1>1 DEF File
<1>5. /\ cache' = "empty" /\ author' = Owner[t]
      /\ wrapper' \in [Wrapper -> WrapperRecord] /\ thread' \in [Thread -> ThreadRecord]
      /\ \A w \in Wrapper :
            /\ wrapper'[w].status = wrapper[w].status /\ wrapper'[w].key = wrapper[w].key
            /\ wrapper'[w].raced = wrapper[w].raced
      /\ \A s \in Thread : thread'[s].step = ts[s].step
  BY <1>1, <1>2, <1>3, <1>4, RewriteFacts
<1>6. Places'
  BY <1>1, <1>2, <1>3, <1>5 DEF Inv, Places, At, Is
<1>7. Keys'
  BY <1>3, <1>5, KeysKept DEF Inv
<1>8. Hashes'
  <2>1. \A s \in Thread : s # t => (s \in Siblings(t) <=> Owner[s] = Owner[t])
    BY SiblingFacts
  <2>2. \A s \in Thread : s # t /\ ts[s].alone =>
           /\ thread[s].alone
           /\ Owner[s] = Owner[t] /\ Busy(s) => FALSE
    BY <1>2, <2>1
  <2>3. ts[t].alone => \A s \in Thread : s # t /\ Owner[s] = Owner[t] => ~Writing(s)
    BY <1>2, <2>1
  <2>4. \A s \in Thread : At(s, "storing") => Busy(s)
    BY DEF Busy, Writing, At
  <2>5. \A s \in Thread : s # t /\ Owner[s] = Owner[t] /\ At(s, "storing") /\ ts[s].alone => FALSE
    BY <2>2, <2>4
  <2>6. \A s \in Thread : s # t => ts[s].step = thread[s].step /\ ts[s].hash = thread[s].hash
    BY <1>2
  <2> QED
    BY <1>1, <1>2, <1>3, <1>4, <2>2, <2>3, <2>5, <2>6, OwnRewrite
<1> QED
  BY <1>1, <1>3, <1>4, <1>5, <1>6, <1>7, <1>8, TypeStep DEF Inv

\* What the thread that writes is at when it is done with the writing proper.
LEMMA DumpStep ==
    ASSUME Inv, NEW t \in Thread, Dump(t)
    PROVE  Inv'
<1> DEFINE ts == Registering(t)
<1>1. /\ wrapper \in [Wrapper -> WrapperRecord] /\ thread \in [Thread -> ThreadRecord]
      /\ Owner \in [Thread -> Wrapper]
      /\ keyFile \in Made \cup {"none"} /\ entries \subseteq Key
  BY Types DEF Inv
<1>2. /\ ts \in [Thread -> ThreadRecord]
      /\ ts[t].step = "hashing" /\ ts[t].alone = thread[t].alone
      /\ \A s \in Thread : s # t => ts[s] = thread[s]
  BY <1>1 DEF Registering, ThreadRecord, Step
<1>3. /\ At(t, "opened") /\ Is(Owner[t], "up")
      /\ Rewrite(Owner[t], "filled", wrapper, ts)
      /\ keyFile' = keyFile /\ entries' = entries
  BY DEF Dump
<1> HIDE DEF ts
<1>4. "filled" \in File /\ Owner[t] \in Wrapper
  BY <1>1 DEF File
<1>5. /\ cache' = "filled" /\ author' = Owner[t]
      /\ wrapper' \in [Wrapper -> WrapperRecord] /\ thread' \in [Thread -> ThreadRecord]
      /\ \A w \in Wrapper :
            /\ wrapper'[w].status = wrapper[w].status /\ wrapper'[w].key = wrapper[w].key
            /\ wrapper'[w].raced = wrapper[w].raced
      /\ \A s \in Thread : thread'[s].step = ts[s].step
  BY <1>1, <1>2, <1>3, <1>4, RewriteFacts
<1>6. Places'
  <2>1. \A s \in Thread : wrapper'[Owner[s]].status = wrapper[Owner[s]].status
    BY <1>1, <1>5
  <2>2. thread'[t].step = "hashing" /\ \A s \in Thread : s # t => thread'[s].step = thread[s].step
    BY <1>2, <1>5
  <2>3. wrapper[Owner[t]].status = "up"
    BY <1>3 DEF Is
  <2> QED
    BY <2>1, <2>2, <2>3 DEF Inv, Places, At, Is
<1>7. Keys'
  BY <1>3, <1>5, KeysKept DEF Inv
<1>8. Writing(t) /\ (thread[t].alone =>
         \A s \in Thread : s # t /\ Owner[s] = Owner[t] => ~Writing(s))
  BY <1>3 DEF Inv, Hashes, Apart, Busy, Writing, At
<1>9. Hashes'
  BY <1>1, <1>2, <1>3, <1>4, <1>8, OwnRewrite
<1> QED
  BY <1>1, <1>3, <1>4, <1>5, <1>6, <1>7, <1>9, TypeStep DEF Inv

LEMMA DumpFailsStep ==
    ASSUME Inv, NEW t \in Thread, DumpFails(t)
    PROVE  Inv'
<1> DEFINE ts == Ended(t)
<1> DEFINE ws == [wrapper EXCEPT ![Owner[t]].trouble = TRUE]
<1>1. /\ wrapper \in [Wrapper -> WrapperRecord] /\ thread \in [Thread -> ThreadRecord]
      /\ Owner \in [Thread -> Wrapper]
      /\ keyFile \in Made \cup {"none"} /\ entries \subseteq Key
  BY Types DEF Inv
<1>2. /\ ts \in [Thread -> ThreadRecord]
      /\ ts[t].step \in {"idle", "calling"}
      /\ \A s \in Thread : s # t => ts[s] = thread[s]
  BY EndedFacts DEF Inv
<1>3. /\ ws \in [Wrapper -> WrapperRecord]
      /\ ws[Owner[t]].trouble
      /\ \A w \in Wrapper :
            /\ ws[w].status = wrapper[w].status /\ ws[w].key = wrapper[w].key
            /\ ws[w].raced = wrapper[w].raced /\ ws[w].known = wrapper[w].known
  BY <1>1 DEF WrapperRecord
<1>4. PICK content \in {"empty", "filled"} : Rewrite(Owner[t], content, ws, ts)
  BY DEF DumpFails
<1>5. /\ At(t, "opened") /\ Is(Owner[t], "up")
      /\ keyFile' = keyFile /\ entries' = entries
  BY DEF DumpFails
<1> HIDE DEF ts, ws
<1>6. content \in File /\ Owner[t] \in Wrapper
  BY <1>1 DEF File
<1>7. /\ cache' = content /\ author' = Owner[t]
      /\ wrapper' \in [Wrapper -> WrapperRecord] /\ thread' \in [Thread -> ThreadRecord]
      /\ \A w \in Wrapper :
            /\ wrapper'[w].status = ws[w].status /\ wrapper'[w].key = ws[w].key
            /\ wrapper'[w].raced = ws[w].raced
      /\ \A s \in Thread : thread'[s].step = ts[s].step
  BY <1>2, <1>3, <1>4, <1>6, RewriteFacts
<1>8. Places'
  BY <1>1, <1>2, <1>3, <1>5, <1>7 DEF Inv, Places, At, Is
<1>9. Keys'
  BY <1>3, <1>5, <1>7, KeysKept DEF Inv
<1>10. Hashes'
  <2>1. Writing(t)
    BY <1>5 DEF Writing, At
  <2> QED
    BY <1>2, <1>3, <1>4, <1>6, <2>1, OwnRewrite
<1> QED
  BY <1>1, <1>5, <1>6, <1>7, <1>8, <1>9, <1>10, TypeStep DEF Inv

----------------------------------------------------------------------------
(* The start of a wrapper                                                  *)

LEMMA StartOpenStep ==
    ASSUME Inv, NEW t \in Thread, StartOpen(t)
    PROVE  Inv'
<1> DEFINE ts == Started(t, "opened")
<1> DEFINE ws == [wrapper EXCEPT ![Owner[t]].status = "cache"]
<1>1. /\ wrapper \in [Wrapper -> WrapperRecord] /\ thread \in [Thread -> ThreadRecord]
      /\ Owner \in [Thread -> Wrapper]
      /\ keyFile \in Made \cup {"none"} /\ entries \subseteq Key
  BY Types DEF Inv
<1>2. /\ ts \in [Thread -> ThreadRecord]
      /\ ts[t].step = "opened"
      /\ ts[t].alone <=> \A s \in Siblings(t) : ~Writing(s)
      /\ \A s \in Thread : s # t =>
            /\ ts[s].step = thread[s].step
            /\ ts[s].hash = thread[s].hash
            /\ ts[s].alone <=> thread[s].alone /\ ~(s \in Siblings(t) /\ Busy(s))
  BY StartedFacts DEF Inv, Step
<1>3. /\ ws \in [Wrapper -> WrapperRecord]
      /\ ws[Owner[t]].status = "cache"
      /\ \A w \in Wrapper :
            /\ w # Owner[t] => ws[w].status = wrapper[w].status
            /\ ws[w].key = wrapper[w].key
            /\ ws[w].raced = wrapper[w].raced /\ ws[w].known = wrapper[w].known
  BY <1>1 DEF WrapperRecord, Status
<1>4. /\ wrapper[Owner[t]].status = "down"
      /\ Rewrite(Owner[t], "empty", ws, ts)
      /\ keyFile' = keyFile /\ entries' = entries
  BY DEF StartOpen, Is
<1> HIDE DEF ts, ws
<1>5. "empty" \in File /\ Owner[t] \in Wrapper
  BY <1>1 DEF File
<1>6. /\ cache' = "empty" /\ author' = Owner[t]
      /\ wrapper' \in [Wrapper -> WrapperRecord] /\ thread' \in [Thread -> ThreadRecord]
      /\ \A w \in Wrapper :
            /\ wrapper'[w].status = ws[w].status /\ wrapper'[w].key = ws[w].key
            /\ wrapper'[w].raced = ws[w].raced
      /\ \A s \in Thread : thread'[s].step = ts[s].step
  BY <1>2, <1>3, <1>4, <1>5, RewriteFacts
<1>7. \A s \in Thread : Owner[s] = Owner[t] => thread[s].step = "idle"
  BY <1>4 DEF Inv, TypeOK
<1>8. Places'
  <2>1. \A s \in Thread : Owner[s] # Owner[t] =>
           /\ s # t /\ thread'[s].step = thread[s].step
           /\ wrapper'[Owner[s]].status = wrapper[Owner[s]].status
    BY <1>1, <1>2, <1>3, <1>6
  <2>2. \A s \in Thread : Owner[s] = Owner[t] =>
           /\ s # t => thread'[s].step = "idle"
           /\ wrapper'[Owner[s]].status = "cache"
    BY <1>1, <1>2, <1>3, <1>5, <1>6, <1>7
  <2>3. thread'[t].step = "opened"
    BY <1>2, <1>6
  <2> QED
    BY <2>1, <2>2, <2>3 DEF Inv, Places, At, Is
<1>9. Keys'
  <2>1. ~AtKey(Owner[t])
    BY <1>4 DEF AtKey
  <2> QED
    BY <1>3, <1>4, <1>6, <2>1, KeysKept DEF Inv
<1>10. Hashes'
  <2>1. \A s \in Thread : s # t => (s \in Siblings(t) <=> Owner[s] = Owner[t])
    BY SiblingFacts
  <2>2. \A s \in Thread : s # t /\ ts[s].alone =>
           /\ thread[s].alone
           /\ Owner[s] = Owner[t] /\ Busy(s) => FALSE
    BY <1>2, <2>1
  <2>3. ts[t].alone => \A s \in Thread : s # t /\ Owner[s] = Owner[t] => ~Writing(s)
    BY <1>2, <2>1
  <2>4. \A s \in Thread : At(s, "storing") => Busy(s)
    BY DEF Busy, Writing, At
  <2>5. \A s \in Thread : s # t /\ Owner[s] = Owner[t] /\ At(s, "storing") /\ ts[s].alone => FALSE
    BY <2>2, <2>4
  <2>6. \A s \in Thread : s # t => ts[s].step = thread[s].step /\ ts[s].hash = thread[s].hash
    BY <1>2
  <2> QED
    BY <1>1, <1>2, <1>3, <1>4, <1>5, <2>2, <2>3, <2>5, <2>6, OwnRewrite
<1> QED
  BY <1>1, <1>4, <1>5, <1>6, <1>8, <1>9, <1>10, TypeStep DEF Inv

\* A start that has written the cache goes for the key file, or has a secret.
LEMMA KeyedFacts ==
    ASSUME TypeOK, NEW o \in Wrapper, NEW ws \in Keyed(o)
    PROVE  /\ ws \in [Wrapper -> WrapperRecord]
           /\ \A w \in Wrapper : ws[w].known = wrapper[w].known
           /\ \A w \in Wrapper : w # o => ws[w].status = wrapper[w].status
                                          /\ ws[w].key = wrapper[w].key
           /\ \/ /\ ws[o].status = "key" /\ ws[o].key = wrapper[o].key
                 /\ ws[o].raced <=> \E u \in Wrapper : AtKey(u)
                 /\ \A w \in Wrapper : w # o => (ws[w].raced <=> wrapper[w].raced \/ AtKey(w))
              \/ /\ ws[o].status = "register" /\ ws[o].key \in Secrets
                 /\ \A w \in Wrapper : w # o => ws[w].raced = wrapper[w].raced
<1>1. wrapper \in [Wrapper -> WrapperRecord]
  BY Types
<1>2. CASE ws = Meeting(o)
  <2>1. ASSUME NEW w \in Wrapper
        PROVE  /\ ws[w] \in WrapperRecord
               /\ ws[w].key = wrapper[w].key /\ ws[w].known = wrapper[w].known
               /\ w = o => ws[w].status = "key" /\ (ws[w].raced <=> \E u \in Wrapper : AtKey(u))
               /\ w # o => /\ ws[w].status = wrapper[w].status
                           /\ ws[w].raced <=> wrapper[w].raced \/ AtKey(w)
    <3>1. wrapper[w] \in WrapperRecord /\ wrapper[w].raced \in BOOLEAN
      BY <1>1 DEF WrapperRecord
    <3>2. /\ w = o => ws[w] = [wrapper[w] EXCEPT !.status = "key",
                                                 !.raced = \E u \in Wrapper : AtKey(u)]
          /\ w # o => ws[w] = [wrapper[w] EXCEPT !.raced = @ \/ AtKey(w)]
      BY <1>2 DEF Meeting
    <3>3. (\E u \in Wrapper : AtKey(u)) \in BOOLEAN /\ AtKey(w) \in BOOLEAN
      BY DEF AtKey
    <3>4. CASE w = o
      <4> DEFINE met == \E u \in Wrapper : AtKey(u)
      <4>1. ws[w] = [wrapper[w] EXCEPT !.status = "key", !.raced = met] /\ met \in BOOLEAN
        BY <3>2, <3>3, <3>4
      <4>2. ws[w].raced <=> met
        <5> HIDE DEF met
        <5> QED
          BY <3>1, <4>1 DEF WrapperRecord
      <4>3. ws[w] \in WrapperRecord /\ ws[w].status = "key"
            /\ ws[w].key = wrapper[w].key /\ ws[w].known = wrapper[w].known
        <5> HIDE DEF met
        <5> QED
          BY <3>1, <4>1 DEF WrapperRecord, Status
      <4> QED
        BY <3>4, <4>2, <4>3
    <3>5. CASE w # o
      BY <3>1, <3>2, <3>3, <3>5 DEF WrapperRecord
    <3> QED
      BY <3>4, <3>5
  <2>2. ws \in [Wrapper -> WrapperRecord]
    BY <1>2, <2>1 DEF Meeting
  <2> QED
    BY <2>1, <2>2
<1>3. ASSUME NEW secret \in Secrets, ws = WithSecret(o, secret)
      PROVE  /\ ws \in [Wrapper -> WrapperRecord]
             /\ ws[o].known = wrapper[o].known
             /\ ws[o].status = "register" /\ ws[o].key \in Secrets
             /\ \A w \in Wrapper : w # o => ws[w] = wrapper[w]
  <2> DEFINE r == [wrapper[o] EXCEPT !.status = "register", !.key = secret]
  <2>1. wrapper[o] \in WrapperRecord
    BY <1>1
  <2>2. /\ r \in WrapperRecord /\ r.status = "register" /\ r.key = secret
        /\ r.known = wrapper[o].known
    BY <2>1 DEF WrapperRecord, Status, Key
  <2>3. ws = [wrapper EXCEPT ![o] = r]
    BY <1>3 DEF WithSecret
  <2> HIDE DEF r
  <2> QED
    BY <1>1, <2>2, <2>3
<1> QED
  BY <1>2, <1>3 DEF Keyed

LEMMA StartDumpStep ==
    ASSUME Inv, NEW t \in Thread, StartDump(t)
    PROVE  Inv'
<1> DEFINE o == Owner[t]
<1> DEFINE ts == Ended(t)
<1>1. /\ wrapper \in [Wrapper -> WrapperRecord] /\ thread \in [Thread -> ThreadRecord]
      /\ Owner \in [Thread -> Wrapper]
      /\ keyFile \in Made \cup {"none"} /\ entries \subseteq Key
  BY Types DEF Inv
<1>2. /\ ts \in [Thread -> ThreadRecord]
      /\ ts[t].step = "idle" \/ (ts[t].step = "calling" /\ Is(o, "up"))
      /\ \A s \in Thread : s # t => ts[s] = thread[s]
  BY EndedFacts DEF Inv
<1>3. PICK content \in {"empty", "filled"}, ws \in Keyed(o) : Rewrite(o, content, ws, ts)
  BY DEF StartDump
<1>4. /\ ws \in [Wrapper -> WrapperRecord]
      /\ \A w \in Wrapper : ws[w].known = wrapper[w].known
      /\ \A w \in Wrapper : w # o => ws[w].status = wrapper[w].status
                                     /\ ws[w].key = wrapper[w].key
      /\ \/ /\ ws[o].status = "key" /\ ws[o].key = wrapper[o].key
            /\ ws[o].raced <=> \E u \in Wrapper : AtKey(u)
            /\ \A w \in Wrapper : w # o => (ws[w].raced <=> wrapper[w].raced \/ AtKey(w))
         \/ /\ ws[o].status = "register" /\ ws[o].key \in Secrets
            /\ \A w \in Wrapper : w # o => ws[w].raced = wrapper[w].raced
  BY <1>1, KeyedFacts DEF Inv
<1>5. content \in File /\ o \in Wrapper
  BY <1>1 DEF File
<1>6. /\ thread[t].step = "opened" /\ wrapper[o].status = "cache"
      /\ keyFile' = keyFile /\ entries' = entries
  BY DEF StartDump, At, Is
<1> HIDE DEF ts
<1>7. /\ cache' = content /\ author' = o
      /\ wrapper' \in [Wrapper -> WrapperRecord] /\ thread' \in [Thread -> ThreadRecord]
      /\ \A w \in Wrapper :
            /\ wrapper'[w].status = ws[w].status /\ wrapper'[w].key = ws[w].key
            /\ wrapper'[w].raced = ws[w].raced
      /\ \A s \in Thread : thread'[s].step = ts[s].step
  BY <1>2, <1>3, <1>4, <1>5, RewriteFacts
<1>8. \A s \in Thread : Owner[s] = o => thread'[s].step = "idle"
  <2>1. \A s \in Thread : s # t /\ Owner[s] = o => thread[s].step = "idle"
    BY <1>6 DEF Inv, Places, At, Is
  <2> QED
    BY <1>2, <1>6, <1>7, <2>1 DEF Is
<1>9. /\ wrapper'[o].status \in {"key", "register"}
      /\ \A w \in Wrapper : w # o => wrapper'[w].status = wrapper[w].status
                                     /\ wrapper'[w].key = wrapper[w].key
  BY <1>4, <1>5, <1>7
<1>10. Places'
  <2>1. \A s \in Thread : Owner[s] # o => /\ s # t /\ thread'[s].step = thread[s].step
                                          /\ wrapper'[Owner[s]].status = wrapper[Owner[s]].status
    BY <1>1, <1>2, <1>7, <1>9
  <2> HIDE DEF o
  <2> QED
    BY <1>8, <1>9, <2>1 DEF Inv, Places, At, Is
<1>11. Keys'
  <2>1. CASE /\ ws[o].status = "key"
             /\ ws[o].raced <=> \E u \in Wrapper : AtKey(u)
             /\ \A w \in Wrapper : w # o => (ws[w].raced <=> wrapper[w].raced \/ AtKey(w))
    <3>1. \A w \in Wrapper : AtKey(w)' <=> w = o \/ AtKey(w)
      BY <1>5, <1>6, <1>7, <1>9, <2>1 DEF AtKey
    <3>2. \A w, v \in Wrapper : AtKey(w)' /\ AtKey(v)' /\ w # v => wrapper'[w].raced
      BY <1>5, <1>7, <2>1, <3>1
    <3>3. wrapper'[o].status = "key" /\ \A w \in Wrapper : w # o /\ wrapper[w].raced => wrapper'[w].raced
      BY <1>5, <1>7, <2>1
    <3> HIDE DEF o
    <3>4. \A w \in Wrapper : w # o /\ Relies(w)' => Relies(w)
      BY <1>9, <3>3 DEF Relies
    <3> QED
      BY <1>6, <1>9, <3>2, <3>3, <3>4 DEF Inv, Keys, Signed
  <2>2. CASE /\ ws[o].status = "register" /\ ws[o].key \in Secrets
             /\ \A w \in Wrapper : w # o => ws[w].raced = wrapper[w].raced
    <3>1. \A w \in Wrapper : AtKey(w)' <=> AtKey(w)
      BY <1>5, <1>6, <1>7, <1>9, <2>2 DEF AtKey
    <3>2. \A w \in Wrapper : AtKey(w) => w # o /\ wrapper'[w].raced = wrapper[w].raced
      BY <1>5, <1>6, <1>7, <2>2 DEF AtKey
    <3>3. ~Relies(o)' /\ wrapper'[o].status = "register" /\ wrapper'[o].key # "none"
      BY <1>5, <1>7, <2>2, SecretAssumption DEF Relies
    <3>4. \A w \in Wrapper : w # o => (Relies(w)' <=> Relies(w))
      BY <1>7, <1>9, <2>2 DEF Relies
    <3> HIDE DEF o
    <3> QED
      BY <1>6, <1>9, <3>1, <3>2, <3>3, <3>4 DEF Inv, Keys, Signed
  <2> QED
    BY <1>4, <2>1, <2>2
<1>12. Hashes'
  <2>1. Writing(t)
    BY <1>6 DEF Writing
  <2>2. ws[Owner[t]].status # "up" /\ ts[t].step = "idle"
    BY <1>2, <1>4, <1>6 DEF Is
  <2> QED
    BY <1>2, <1>3, <1>4, <1>5, <2>1, <2>2, OwnRewrite
<1> QED
  BY <1>1, <1>5, <1>6, <1>7, <1>10, <1>11, <1>12, TypeStep DEF Inv

\* A step that changes how far the start of w is, at its key, and leaves the
\* cache and the threads alone.
LEMMA KeyStep ==
    ASSUME Inv, NEW w \in Wrapper, NEW r \in WrapperRecord,
           wrapper' = [wrapper EXCEPT ![w] = r],
           AtKey(w), r.status \in {"creating", "filling", "register"},
           r.raced = wrapper[w].raced,
           keyFile' \in Made \cup {"none"},
           UNCHANGED <<cache, author, thread, entries>>,
           Keys'
    PROVE  Inv'
<1>1. /\ wrapper \in [Wrapper -> WrapperRecord] /\ thread \in [Thread -> ThreadRecord]
      /\ Owner \in [Thread -> Wrapper]
  BY Types DEF Inv
<1>2. /\ wrapper' \in [Wrapper -> WrapperRecord]
      /\ \A v \in Wrapper : v # w => wrapper'[v] = wrapper[v]
      /\ wrapper'[w] = r
  BY <1>1
<1>3. \A t \in Thread : Owner[t] = w => thread[t].step = "idle"
  <2>1. \A t \in Thread : thread[t].step \in Step
    BY <1>1 DEF ThreadRecord
  <2> QED
    BY <2>1 DEF Inv, Places, AtKey, At, Is, Step
<1>4. Places'
  BY <1>1, <1>2, <1>3 DEF Inv, Places, At, Is
<1>5. Hashes'
  <2>1. \A v \in Wrapper : KnownRight(v)'
    BY <1>1, <1>2 DEF Inv, Hashes, KnownRight, Is, Writing
  <2>2. \A t \in Thread : HoldsKnown(t)'
    BY <1>1, <1>2, <1>3 DEF Inv, Hashes, HoldsKnown, At
  <2>3. \A t \in Thread : StoresRight(t)' /\ Apart(t)'
    BY DEF Inv, Hashes, StoresRight, Apart, At, Busy, Writing
  <2> QED
    BY <2>1, <2>2, <2>3 DEF Hashes
<1> QED
  BY <1>2, <1>4, <1>5, TypeStep, Types DEF Inv

LEMMA LoadKeyStep ==
    ASSUME Inv, NEW w \in Wrapper, LoadKey(w)
    PROVE  Inv'
<1>1. /\ wrapper \in [Wrapper -> WrapperRecord] /\ wrapper[w] \in WrapperRecord
      /\ keyFile \in Made \cup {"none"}
      /\ wrapper[w].status = "key" /\ AtKey(w)
  BY Types DEF Inv, LoadKey, Is, AtKey
<1>2. CASE MustGenerate(w)
  <2> DEFINE r == [wrapper[w] EXCEPT !.status = "creating"]
  <2>1. wrapper' = [wrapper EXCEPT ![w] = r]
    BY <1>1, <1>2 DEF LoadKey
  <2>2. /\ r \in WrapperRecord /\ r.status = "creating"
        /\ r.raced = wrapper[w].raced /\ r.key = wrapper[w].key
    BY <1>1 DEF WrapperRecord, Status
  <2>3. keyFile = "none" /\ keyFile' = keyFile /\ entries' = entries
    BY <1>2 DEF MustGenerate, LoadKey
  <2> HIDE DEF r
  <2>4. wrapper'[w] = r /\ \A v \in Wrapper : v # w => wrapper'[v] = wrapper[v]
    BY <1>1, <2>1
  <2>5. Keys'
    <3>1. \A v \in Wrapper : AtKey(v)' <=> AtKey(v)
      BY <1>1, <2>2, <2>4 DEF AtKey
    <3>2. \A v \in Wrapper : wrapper'[v].raced = wrapper[v].raced
      BY <2>2, <2>4
    <3>3. Signed = {}
      BY <2>3 DEF Inv, Keys, Relies, Signed
    <3>4. \A v \in Wrapper : wrapper'[v].status \in {"register", "up"} =>
             /\ wrapper[v].status \in {"register", "up"} /\ wrapper'[v].key = wrapper[v].key
             /\ Relies(v)' <=> Relies(v)
      BY <2>2, <2>4, <3>2 DEF Relies
    <3>5. \A v \in Wrapper : wrapper[v].status \in {"register", "up"} =>
             wrapper[v].key # "none" /\ ~Relies(v)
      <4>1. \A v \in Wrapper : wrapper[v].status \in {"register", "up"} =>
               wrapper[v].key # "none" /\ (Relies(v) => wrapper[v].key = "none")
        BY <2>3 DEF Inv, Keys
      <4> QED
        BY <4>1
    <3> QED
      BY <2>3, <3>1, <3>2, <3>3, <3>4, <3>5 DEF Inv, Keys, Signed
  <2> QED
    BY <1>1, <2>1, <2>2, <2>5, KeyStep DEF LoadKey
<1>3. CASE ~MustGenerate(w)
  <2> DEFINE r == [wrapper[w] EXCEPT !.status = "register", !.key = keyFile]
  <2>1. wrapper' = [wrapper EXCEPT ![w] = r]
    BY <1>1, <1>3 DEF LoadKey
  <2>2. /\ r \in WrapperRecord /\ r.status = "register"
        /\ r.raced = wrapper[w].raced /\ r.key = keyFile
    BY <1>1 DEF WrapperRecord, Status, Key
  <2>3. keyFile # "none" /\ keyFile' = keyFile /\ entries' = entries
    BY <1>3 DEF MustGenerate, LoadKey
  <2> HIDE DEF r
  <2>4. wrapper'[w] = r /\ \A v \in Wrapper : v # w => wrapper'[v] = wrapper[v]
    BY <1>1, <2>1
  <2>5. Keys'
    <3>1. \A v \in Wrapper : AtKey(v)' => AtKey(v) /\ v # w
      BY <1>1, <2>2, <2>4 DEF AtKey
    <3>2. \A v \in Wrapper : wrapper'[v].raced = wrapper[v].raced
      BY <2>2, <2>4
    <3>3. \A v, u \in Wrapper : AtKey(v)' /\ AtKey(u)' /\ v # u => wrapper'[v].raced
      BY <3>1, <3>2 DEF Inv, Keys, Relies, Signed
    <3>4. \A v \in Wrapper : AtKey(v)' => wrapper'[w].raced
      BY <1>1, <3>1, <3>2 DEF Inv, Keys, Relies, Signed
    <3>5. ASSUME NEW v \in Wrapper, wrapper'[v].status \in {"register", "up"}
          PROVE  /\ wrapper'[v].key # "none"
                 /\ Relies(v)' => wrapper'[v].key = keyFile
      BY <2>2, <2>3, <2>4, <3>5 DEF Inv, Keys, Relies, Signed
    <3>6. ASSUME NEW v \in Wrapper, wrapper'[v].status \in {"creating", "filling"}
          PROVE  /\ Signed = {}
                 /\ \A u \in Wrapper : wrapper'[u].status \in {"register", "up"} => ~Relies(u)'
      <4>1. v # w /\ wrapper[v].status \in {"creating", "filling"} /\ AtKey(v)'
        BY <2>2, <2>4, <3>6 DEF AtKey
      <4> QED
        BY <2>4, <3>4, <4>1 DEF Inv, Keys, Relies, Signed
    <3> QED
      BY <2>3, <3>3, <3>5, <3>6 DEF Inv, Keys, Relies, Signed
  <2> QED
    BY <1>1, <2>1, <2>2, <2>3, <2>5, KeyStep DEF LoadKey
<1> QED
  BY <1>2, <1>3

LEMMA CreateKeyStep ==
    ASSUME Inv, NEW w \in Wrapper, CreateKeyFile(w)
    PROVE  Inv'
<1>1. /\ wrapper \in [Wrapper -> WrapperRecord] /\ wrapper[w] \in WrapperRecord
      /\ wrapper[w].status = "creating" /\ AtKey(w)
  BY Types DEF Inv, CreateKeyFile, Is, AtKey
<1> DEFINE r == [wrapper[w] EXCEPT !.status = "filling"]
<1>2. wrapper' = [wrapper EXCEPT ![w] = r]
  BY <1>1 DEF CreateKeyFile
<1>3. r \in WrapperRecord /\ r.status = "filling" /\ r.raced = wrapper[w].raced
  BY <1>1 DEF WrapperRecord, Status
<1>4. keyFile' = "empty" /\ entries' = entries /\ keyFile' \in Made \cup {"none"}
  BY DEF CreateKeyFile, Key, Made
<1> HIDE DEF r
<1>5. wrapper'[w] = r /\ \A v \in Wrapper : v # w => wrapper'[v] = wrapper[v]
  BY <1>1, <1>2
<1>6. Keys'
  <2>1. \A v \in Wrapper : (AtKey(v)' <=> AtKey(v)) /\ wrapper'[v].raced = wrapper[v].raced
    BY <1>1, <1>3, <1>5 DEF AtKey
  <2>2. Signed = {} /\ \A v \in Wrapper : wrapper[v].status \in {"register", "up"} => ~Relies(v)
    BY <1>1 DEF Inv, Keys, Relies, Signed
  <2>3. \A v \in Wrapper : wrapper'[v].status \in {"register", "up"} =>
           wrapper[v].status \in {"register", "up"} /\ wrapper'[v].key = wrapper[v].key
    BY <1>3, <1>5
  <2>4. \A v \in Wrapper : wrapper'[v].status \in {"register", "up"} =>
           wrapper'[v].key # "none" /\ ~Relies(v)'
    BY <2>1, <2>2, <2>3 DEF Inv, Keys, Relies, Signed
  <2>5. \A v, u \in Wrapper : AtKey(v)' /\ AtKey(u)' /\ v # u => wrapper'[v].raced
    BY <2>1 DEF Inv, Keys, Relies, Signed
  <2> QED
    BY <1>4, <2>2, <2>4, <2>5 DEF Keys, Relies, Signed
<1> QED
  BY <1>1, <1>2, <1>3, <1>4, <1>6, KeyStep DEF CreateKeyFile

LEMMA FillKeyStep ==
    ASSUME Inv, NEW w \in Wrapper, FillKeyFile(w)
    PROVE  Inv'
<1>1. /\ wrapper \in [Wrapper -> WrapperRecord] /\ wrapper[w] \in WrapperRecord
      /\ wrapper[w].status = "filling" /\ AtKey(w)
  BY Types DEF Inv, FillKeyFile, Is, AtKey
<1> DEFINE r == [wrapper[w] EXCEPT !.status = "register", !.key = w]
<1>2. wrapper' = [wrapper EXCEPT ![w] = r]
  BY <1>1 DEF FillKeyFile
<1>3. r \in WrapperRecord /\ r.status = "register" /\ r.raced = wrapper[w].raced /\ r.key = w
  BY <1>1 DEF WrapperRecord, Status, Key, Made
<1>4. keyFile' = w /\ entries' = entries /\ keyFile' \in Made \cup {"none"} /\ w # "none"
  BY WrapperAssumption DEF FillKeyFile, Key, Made
<1> HIDE DEF r
<1>5. wrapper'[w] = r /\ \A v \in Wrapper : v # w => wrapper'[v] = wrapper[v]
  BY <1>1, <1>2
<1>6. Keys'
  <2>1. \A v \in Wrapper : (AtKey(v)' => AtKey(v) /\ v # w) /\ wrapper'[v].raced = wrapper[v].raced
    BY <1>1, <1>3, <1>5 DEF AtKey
  <2>2. Signed = {} /\ \A v \in Wrapper : wrapper[v].status \in {"register", "up"} => ~Relies(v)
    BY <1>1 DEF Inv, Keys, Relies, Signed
  <2>3. \A v \in Wrapper : v # w /\ wrapper'[v].status \in {"register", "up"} =>
           wrapper'[v].key # "none" /\ ~Relies(v)'
    BY <1>5, <2>2 DEF Inv, Keys, Relies, Signed
  <2>4. \A v \in Wrapper : AtKey(v)' => wrapper'[w].raced
    BY <1>1, <2>1 DEF Inv, Keys, Relies, Signed
  <2>5. \A v, u \in Wrapper : AtKey(v)' /\ AtKey(u)' /\ v # u => wrapper'[v].raced
    BY <2>1 DEF Inv, Keys, Relies, Signed
  <2>6. \A v \in Wrapper : wrapper'[v].status \in {"creating", "filling"} => AtKey(v)'
    BY DEF AtKey
  <2>7. \A v \in Wrapper : wrapper'[v].status \in {"register", "up"} =>
           wrapper'[v].key # "none" /\ (Relies(v)' => wrapper'[v].key = keyFile')
    BY <1>3, <1>4, <1>5, <2>3
  <2> QED
    BY <1>4, <2>2, <2>3, <2>4, <2>5, <2>6, <2>7 DEF Keys, Relies, Signed
<1> QED
  BY <1>1, <1>2, <1>3, <1>4, <1>6, KeyStep DEF FillKeyFile

----------------------------------------------------------------------------
(* Hashing, verifying and chatting                                         *)

\* A step of one thread that leaves the files and the wrappers alone and goes on
\* writing, or goes on not writing.
LEMMA ThreadStep ==
    ASSUME Inv, NEW t \in Thread, NEW q \in ThreadRecord,
           thread' = [thread EXCEPT ![t] = q],
           UNCHANGED <<cache, author, keyFile, wrapper>>,
           entries' \subseteq Key, Keys',
           Is(Owner[t], "register") \/ Is(Owner[t], "up"),
           q.step \in {"idle", "storing", "verifying", "calling"},
           q.step \in {"verifying", "calling"} => Is(Owner[t], "up"),
           q.step = "storing" <=> Writing(t),
           q.step = "verifying" /\ q.alone => q.hash = wrapper[Owner[t]].known,
           q.step = "storing" => q.hash = cache,
           q.step \in {"storing", "verifying"} /\ q.alone =>
               \A s \in Thread : s # t /\ Owner[s] = Owner[t] => ~Writing(s)
    PROVE  Inv'
<1>1. /\ thread \in [Thread -> ThreadRecord] /\ wrapper \in [Wrapper -> WrapperRecord]
      /\ Owner \in [Thread -> Wrapper]
  BY Types DEF Inv
<1>2. /\ thread' \in [Thread -> ThreadRecord]
      /\ thread'[t] = q /\ \A s \in Thread : s # t => thread'[s] = thread[s]
  BY <1>1
<1>3. \A s \in Thread : Writing(s)' <=> Writing(s)
  BY <1>2 DEF Writing
<1>4. Places'
  <2>1. wrapper[Owner[t]].status \in {"register", "up"}
    BY DEF Is
  <2> QED
    BY <1>2, <2>1 DEF Inv, Places, At, Is
<1>5. Hashes'
  <2>1. \A w \in Wrapper : KnownRight(w)'
    BY <1>3 DEF Inv, Hashes, KnownRight, Is
  <2>2. \A s \in Thread : HoldsKnown(s)'
    BY <1>2 DEF Inv, Hashes, HoldsKnown, At
  <2>3. \A s \in Thread : StoresRight(s)'
    BY <1>2 DEF Inv, Hashes, StoresRight, At
  <2>4. \A s \in Thread : Apart(s)'
    BY <1>2, <1>3 DEF Inv, Hashes, Apart, Busy, Writing, At
  <2> QED
    BY <2>1, <2>2, <2>3, <2>4 DEF Hashes
<1> QED
  BY <1>2, <1>4, <1>5, TypeStep, Types DEF Inv

LEMMA ReadHashStep ==
    ASSUME Inv, NEW t \in Thread, ReadHash(t)
    PROVE  Inv'
<1> DEFINE q == [thread[t] EXCEPT !.step = "storing", !.hash = cache]
<1>1. /\ thread \in [Thread -> ThreadRecord] /\ thread[t] \in ThreadRecord
      /\ cache \in File /\ entries \subseteq Key
  BY Types DEF Inv
<1>2. thread' = [thread EXCEPT ![t] = q] /\ thread[t].step = "hashing"
  BY <1>1 DEF ReadHash, At
<1>3. /\ q \in ThreadRecord /\ q.step = "storing" /\ q.hash = cache
      /\ q.alone = thread[t].alone
  BY <1>1 DEF ThreadRecord, Step, Hash
<1> HIDE DEF q
<1>4. Is(Owner[t], "register") \/ Is(Owner[t], "up")
  BY <1>2 DEF Inv, Places, Is
<1>5. Writing(t)
  BY <1>2 DEF Writing
<1>6. thread[t].alone => \A s \in Thread : s # t /\ Owner[s] = Owner[t] => ~Writing(s)
  BY <1>5 DEF Inv, Hashes, Apart, Busy
<1>7. Keys'
  BY KeysKept DEF Inv, ReadHash
<1> QED
  BY <1>1, <1>2, <1>3, <1>4, <1>5, <1>6, <1>7, ThreadStep DEF ReadHash

LEMMA BeginChatStep ==
    ASSUME Inv, NEW t \in Thread, BeginChat(t)
    PROVE  Inv'
<1> DEFINE q == Using(t, "verifying")
<1>1. thread' = [thread EXCEPT ![t] = q] /\ Is(Owner[t], "up") /\ thread[t].step = "idle"
  BY DEF BeginChat, At
<1>2. /\ q \in ThreadRecord /\ q.step = "verifying"
      /\ q.alone <=> \A s \in Siblings(t) : ~Writing(s)
      /\ q.hash = wrapper[Owner[t]].known
  BY UsingFacts DEF Inv, Step
<1> HIDE DEF q
<1>3. \A s \in Thread : s # t /\ Owner[s] = Owner[t] => s \in Siblings(t)
  BY SiblingFacts
<1>4. ~Writing(t)
  BY <1>1 DEF Writing
<1>5. Keys' /\ entries \subseteq Key
  BY KeysKept, Types DEF Inv, BeginChat
<1> QED
  BY <1>1, <1>2, <1>3, <1>4, <1>5, ThreadStep DEF BeginChat

\* The end of a verification or of a chat.
LEMMA ChatStep ==
    ASSUME Inv, NEW t \in Thread, Pass(t) \/ Refuse(t) \/ FinishChat(t)
    PROVE  Inv'
<1>1. /\ thread \in [Thread -> ThreadRecord] /\ Owner[t] \in Wrapper
      /\ wrapper \in [Wrapper -> WrapperRecord] /\ entries \subseteq Key
  BY Types DEF Inv
<1>2. Is(Owner[t], "up") /\ ~Writing(t)
  BY DEF Pass, Refuse, FinishChat, Inv, Places, At, Writing
<1>3. PICK q \in {Idle, Calling} : thread' = [thread EXCEPT ![t] = q]
  BY DEF Pass, Refuse, FinishChat, Ended
<1>4. q \in ThreadRecord /\ q.step \in {"idle", "calling"}
  BY <1>3, IdleRecords
<1>5. Keys' /\ entries' \subseteq Key
  <2>1. CASE entries' = entries
    BY <1>1, <2>1, KeysKept DEF Inv, Pass, Refuse, FinishChat
  <2>2. CASE FinishChat(t) /\ entries' # entries
    <3>1. /\ ~wrapper[Owner[t]].raced /\ entries' = entries \cup {wrapper[Owner[t]].key}
          /\ keyFile' = keyFile /\ wrapper' = wrapper
      BY <2>2 DEF FinishChat
    <3>2. wrapper[Owner[t]].key \in Key
      <4>1. wrapper[Owner[t]].key # "none" /\ wrapper[Owner[t]] \in WrapperRecord
        BY <1>1, <1>2 DEF Inv, Keys, Is
      <4> QED
        BY <4>1 DEF WrapperRecord
    <3>3. CASE wrapper[Owner[t]].key \in Secrets
      <4>1. Signed' = Signed
        BY <3>1, <3>3 DEF Signed
      <4> QED
        BY <1>1, <3>1, <3>2, <4>1 DEF Inv, Keys, AtKey, Relies
    <3>4. CASE wrapper[Owner[t]].key \notin Secrets
      <4>1. Relies(Owner[t])
        BY <3>1, <3>4 DEF Relies
      <4>2. wrapper[Owner[t]].key = keyFile /\ keyFile # "none"
        BY <1>1, <1>2, <4>1 DEF Inv, Keys, Is
      <4>3. \A w \in Wrapper : wrapper[w].status \notin {"creating", "filling"}
        BY <1>1, <1>2, <4>1 DEF Inv, Keys, Is
      <4>4. \A key \in Signed' : key = keyFile /\ keyFile # "none"
        BY <3>1, <4>2 DEF Inv, Keys, Signed
      <4>5. Keys'
        BY <3>1, <4>3, <4>4 DEF Inv, Keys, AtKey, Relies
      <4> QED
        BY <1>1, <3>1, <3>2, <4>5
    <3> QED
      BY <3>3, <3>4
  <2> QED
    BY <2>1, <2>2 DEF Pass, Refuse
<1>6. UNCHANGED <<cache, author, keyFile, wrapper>>
  BY DEF Pass, Refuse, FinishChat
<1> QED
  BY <1>2, <1>3, <1>4, <1>5, <1>6, ThreadStep

LEMMA RegisterStep ==
    ASSUME Inv, NEW t \in Thread, Register(t)
    PROVE  Inv'
<1> DEFINE ts == Started(t, "hashing")
<1>1. /\ wrapper \in [Wrapper -> WrapperRecord] /\ thread \in [Thread -> ThreadRecord]
      /\ Owner \in [Thread -> Wrapper]
  BY Types DEF Inv
<1>2. /\ ts \in [Thread -> ThreadRecord]
      /\ ts[t].step = "hashing"
      /\ ts[t].alone <=> \A s \in Siblings(t) : ~Writing(s)
      /\ \A s \in Thread : s # t =>
            /\ ts[s].step = thread[s].step
            /\ ts[s].hash = thread[s].hash
            /\ ts[s].alone <=> thread[s].alone /\ ~(s \in Siblings(t) /\ Busy(s))
  BY StartedFacts DEF Inv, Step
<1>3. /\ wrapper[Owner[t]].status = "register"
      /\ \A s \in Siblings(t) : ~Writing(s)
      /\ thread' = ts
      /\ UNCHANGED <<cache, author, keyFile, wrapper, entries>>
  BY DEF Register, Is
<1> HIDE DEF ts
<1>4. \A s \in Thread : Owner[s] = Owner[t] => /\ s # t => ~Writing(s)
                                               /\ thread[s].step # "verifying"
  BY <1>3, SiblingFacts DEF Inv, Places, Is
<1>5. Places'
  BY <1>2, <1>3 DEF Inv, Places, At, Is
<1>6. Keys'
  BY <1>3, KeysKept DEF Inv
<1>7. \A s \in Thread : Owner[s] # Owner[t] => /\ s # t
                                               /\ thread'[s].step = thread[s].step
                                               /\ thread'[s].hash = thread[s].hash
                                               /\ thread'[s].alone <=> thread[s].alone
  BY <1>2, <1>3, SiblingFacts
<1>8. /\ thread'[t].step = "hashing"
      /\ \A s \in Thread : s # t /\ Owner[s] = Owner[t] => thread'[s].step = thread[s].step
  BY <1>2, <1>3
<1>9. Hashes'
  <2>1. ASSUME NEW w \in Wrapper
        PROVE  KnownRight(w)'
    <3>1. CASE w = Owner[t]
      BY <1>3, <3>1 DEF KnownRight, Is
    <3>2. CASE w # Owner[t]
      <4>1. \A s \in Thread : Owner[s] = w => (Writing(s)' <=> Writing(s))
        BY <1>7, <3>2 DEF Writing
      <4> QED
        BY <1>3, <4>1 DEF Inv, Hashes, KnownRight, Is
    <3> QED
      BY <3>1, <3>2
  <2>2. \A s \in Thread : HoldsKnown(s)' /\ StoresRight(s)'
    <3>1. ASSUME NEW s \in Thread, Owner[s] = Owner[t]
          PROVE  HoldsKnown(s)' /\ StoresRight(s)'
      BY <1>4, <1>8, <3>1 DEF HoldsKnown, StoresRight, At, Writing
    <3>2. ASSUME NEW s \in Thread, Owner[s] # Owner[t]
          PROVE  HoldsKnown(s)' /\ StoresRight(s)'
      BY <1>3, <1>7, <3>2 DEF Inv, Hashes, HoldsKnown, StoresRight, At
    <3> QED
      BY <3>1, <3>2
  <2>3. ASSUME NEW s \in Thread
        PROVE  Apart(s)'
    <3>1. CASE Owner[s] = Owner[t]
      BY <1>4, <1>8, <3>1 DEF Apart, Busy, Writing, At
    <3>2. CASE Owner[s] # Owner[t]
      BY <1>7, <3>2 DEF Inv, Hashes, Apart, Busy, Writing, At
    <3> QED
      BY <3>1, <3>2
  <2> QED
    BY <2>1, <2>2, <2>3 DEF Hashes
<1> QED
  BY <1>1, <1>2, <1>3, <1>5, <1>6, <1>9, TypeStep, Types DEF Inv

LEMMA StoreHashStep ==
    ASSUME Inv, NEW t \in Thread, StoreHash(t)
    PROVE  Inv'
<1> DEFINE o == Owner[t]
<1> DEFINE r == [wrapper[o] EXCEPT !.known = thread[t].hash,
                                   !.trouble = ~thread[t].alone,
                                   !.status = "up"]
<1>1. /\ wrapper \in [Wrapper -> WrapperRecord] /\ thread \in [Thread -> ThreadRecord]
      /\ Owner \in [Thread -> Wrapper] /\ o \in Wrapper
      /\ wrapper[o] \in WrapperRecord /\ thread[t] \in ThreadRecord
  BY Types DEF Inv
<1>2. thread[t].hash \in Hash /\ thread[t].alone \in BOOLEAN
  BY <1>1 DEF ThreadRecord
<1>3. wrapper' = [wrapper EXCEPT ![o] = r]
  BY <1>1 DEF StoreHash
<1>4. /\ r \in WrapperRecord /\ r.status = "up" /\ r.known = thread[t].hash
      /\ r.trouble = ~thread[t].alone
      /\ r.raced = wrapper[o].raced /\ r.key = wrapper[o].key
  BY <1>1, <1>2 DEF WrapperRecord, Status
<1> HIDE DEF r
<1>5. /\ thread' \in [Thread -> ThreadRecord]
      /\ thread'[t].step \in {"idle", "calling"}
      /\ \A s \in Thread : s # t => thread'[s] = thread[s]
  BY EndedFacts DEF Inv, StoreHash
<1>6. /\ wrapper' \in [Wrapper -> WrapperRecord] /\ wrapper'[o] = r
      /\ \A w \in Wrapper : w # o => wrapper'[w] = wrapper[w]
  BY <1>1, <1>3, <1>4
<1>7. /\ thread[t].step = "storing"
      /\ wrapper[o].status \in {"register", "up"}
      /\ UNCHANGED <<cache, author, keyFile, entries>>
  BY DEF StoreHash, At, Inv, Places
<1>8. Places'
  <2>1. ASSUME NEW s \in Thread, Owner[s] = o
        PROVE  wrapper'[Owner[s]].status = "up"
    BY <1>4, <1>6, <2>1
  <2>2. ASSUME NEW s \in Thread, Owner[s] # o
        PROVE  wrapper'[Owner[s]] = wrapper[Owner[s]] /\ thread'[s] = thread[s]
    BY <1>1, <1>5, <1>6, <2>2
  <2> HIDE DEF o
  <2> QED
    BY <2>1, <2>2 DEF Inv, Places, At, Is
<1>9. Keys'
  <2>1. \A w \in Wrapper :
          /\ wrapper'[w].key = wrapper[w].key
          /\ wrapper'[w].raced = wrapper[w].raced
          /\ \/ wrapper'[w].status = wrapper[w].status
             \/ wrapper[w].status = "register" /\ wrapper'[w].status = "up"
    BY <1>4, <1>6, <1>7
  <2> QED
    BY <1>7, <2>1, KeysKept DEF Inv
<1>10. ASSUME thread[t].alone
       PROVE  /\ \A s \in Thread : s # t /\ Owner[s] = o => ~Writing(s)
              /\ author = o => thread[t].hash = cache
  BY <1>7, <1>10 DEF Inv, Hashes, Apart, StoresRight, Busy, Writing, At
<1>11. Hashes'
  <2>1. ASSUME NEW w \in Wrapper
        PROVE  KnownRight(w)'
    <3>1. CASE w = o
      BY <1>4, <1>6, <1>7, <1>10, <3>1 DEF KnownRight
    <3>2. CASE w # o
      <4>1. \A s \in Thread : Owner[s] = w => (Writing(s)' <=> Writing(s))
        BY <1>5, <3>2 DEF Writing
      <4> QED
        BY <1>6, <1>7, <3>2, <4>1 DEF Inv, Hashes, KnownRight, Is
    <3> QED
      BY <3>1, <3>2
  <2>2. ASSUME NEW s \in Thread
        PROVE  HoldsKnown(s)'
    <3>1. CASE s = t
      BY <1>5, <3>1 DEF HoldsKnown, At
    <3>2. CASE s # t /\ Owner[s] = o
      <4>1. Writing(t)
        BY <1>7 DEF Writing
      <4>2. ~(At(s, "verifying") /\ thread[s].alone)
        BY <3>2, <4>1 DEF Inv, Hashes, Apart, Busy
      <4> QED
        BY <1>5, <3>2, <4>2 DEF HoldsKnown, At
    <3>3. CASE s # t /\ Owner[s] # o
      <4>1. wrapper'[Owner[s]] = wrapper[Owner[s]] /\ thread'[s] = thread[s]
        BY <1>1, <1>5, <1>6, <3>3
      <4>2. HoldsKnown(s)
        BY DEF Inv, Hashes
      <4> QED
        BY <4>1, <4>2 DEF HoldsKnown, At
    <3> QED
      BY <3>1, <3>2, <3>3
  <2>3. \A s \in Thread : StoresRight(s)'
    BY <1>5, <1>7 DEF Inv, Hashes, StoresRight, At
  <2>4. \A s \in Thread : Apart(s)'
    BY <1>5 DEF Inv, Hashes, Apart, Busy, Writing, At
  <2> QED
    BY <2>1, <2>2, <2>3, <2>4 DEF Hashes
<1> QED
  BY <1>5, <1>6, <1>7, <1>8, <1>9, <1>11, TypeStep, Types DEF Inv

----------------------------------------------------------------------------
(* Crashes, the operator, the initial states                               *)

LEMMA CrashStep ==
    ASSUME Inv, NEW w \in Wrapper, Crash(w)
    PROVE  Inv'
<1>1. /\ wrapper \in [Wrapper -> WrapperRecord] /\ thread \in [Thread -> ThreadRecord]
      /\ Owner \in [Thread -> Wrapper]
  BY Types DEF Inv
<1>2. /\ wrapper' \in [Wrapper -> WrapperRecord]
      /\ wrapper'[w].status = "down"
      /\ \A v \in Wrapper : v # w => wrapper'[v] = wrapper[v]
  BY <1>1, IdleRecords DEF Crash, Down
<1>3. /\ thread' \in [Thread -> ThreadRecord]
      /\ \A t \in Thread : /\ Owner[t] = w => thread'[t].step = "idle"
                           /\ Owner[t] # w => thread'[t] = thread[t]
  BY <1>1, IdleRecords DEF Crash, StopThreads, Idle
<1>4. UNCHANGED <<cache, author, keyFile, entries>>
  BY DEF Crash
<1>5. \A t \in Thread : Owner[t] # w => wrapper'[Owner[t]] = wrapper[Owner[t]]
  BY <1>1, <1>2
<1>6. Places'
  BY <1>2, <1>3, <1>5 DEF Inv, Places, At, Is
<1>7. Keys'
  BY <1>2, <1>4 DEF Inv, Keys, Relies, Signed, AtKey
<1>8. Hashes'
  <2>1. ASSUME NEW v \in Wrapper
        PROVE  KnownRight(v)'
    <3>1. CASE v = w
      BY <1>2, <3>1 DEF KnownRight, Is
    <3>2. CASE v # w
      <4>1. \A s \in Thread : Owner[s] = v => (Writing(s)' <=> Writing(s))
        BY <1>3, <3>2 DEF Writing
      <4> QED
        BY <1>2, <1>4, <3>2, <4>1 DEF Inv, Hashes, KnownRight, Is
    <3> QED
      BY <3>1, <3>2
  <2>2. ASSUME NEW t \in Thread
        PROVE  HoldsKnown(t)' /\ StoresRight(t)' /\ Apart(t)'
    <3>1. CASE Owner[t] = w
      BY <1>3, <3>1 DEF HoldsKnown, StoresRight, Apart, At, Busy, Writing
    <3>2. CASE Owner[t] # w
      <4>1. HoldsKnown(t)' /\ StoresRight(t)'
        BY <1>3, <1>4, <1>5, <3>2 DEF Inv, Hashes, HoldsKnown, StoresRight, At
      <4>2. Apart(t)'
        BY <1>3, <3>2 DEF Inv, Hashes, Apart, Busy, Writing, At
      <4> QED
        BY <4>1, <4>2
    <3> QED
      BY <3>1, <3>2
  <2> QED
    BY <2>1, <2>2 DEF Hashes
<1> QED
  BY <1>2, <1>3, <1>4, <1>6, <1>7, <1>8, TypeStep, Types DEF Inv

LEMMA EditStep ==
    ASSUME Inv, Edit
    PROVE  Inv'
<1>1. /\ wrapper \in [Wrapper -> WrapperRecord] /\ thread \in [Thread -> ThreadRecord]
      /\ Owner \in [Thread -> Wrapper]
  BY Types DEF Inv
<1>2. "filled" \in File /\ keyFile' = keyFile /\ entries' = entries
      /\ Rewrite(Operator, "filled", wrapper, thread)
  BY DEF Edit, File
<1>3. /\ cache' = "filled" /\ author' = Operator
      /\ wrapper' \in [Wrapper -> WrapperRecord]
      /\ thread' \in [Thread -> ThreadRecord]
      /\ \A w \in Wrapper :
            /\ wrapper'[w].status = wrapper[w].status /\ wrapper'[w].key = wrapper[w].key
            /\ wrapper'[w].raced = wrapper[w].raced
            /\ wrapper'[w].known = Older(wrapper[w].known)
      /\ \A t \in Thread :
            /\ thread'[t].step = thread[t].step /\ thread'[t].alone = thread[t].alone
            /\ thread'[t].hash = Older(thread[t].hash)
  BY <1>1, <1>2, RewriteFacts
<1>4. Places'
  BY <1>1, <1>3 DEF Inv, Places, At, Is
<1>5. Keys'
  BY <1>2, <1>3, KeysKept DEF Inv
<1>6. Hashes'
  <2>1. \A w \in Wrapper : KnownRight(w)'
    BY <1>3, OperatorAssumption DEF KnownRight
  <2>2. \A t \in Thread : StoresRight(t)'
    BY <1>1, <1>3, OperatorAssumption DEF StoresRight
  <2>3. \A t \in Thread : HoldsKnown(t)'
    BY <1>1, <1>3 DEF Inv, Hashes, HoldsKnown, At
  <2>4. \A t \in Thread : Apart(t)'
    BY <1>3 DEF Inv, Hashes, Apart, Busy, Writing, At
  <2> QED
    BY <2>1, <2>2, <2>3, <2>4 DEF Hashes
<1> QED
  BY <1>2, <1>3, <1>4, <1>5, <1>6, TypeStep, Types DEF Inv

LEMMA InitInv == Init => Inv
<1> SUFFICES ASSUME Init PROVE Inv
  OBVIOUS
<1>1. Owner \in [Thread -> Wrapper]
  BY OwnerAssumption
<1>2. /\ \A w \in Wrapper : wrapper[w].status = "down"
      /\ \A t \in Thread : thread[t].step = "idle"
  BY DEF Init, Down, Idle
<1>3. wrapper \in [Wrapper -> WrapperRecord] /\ thread \in [Thread -> ThreadRecord]
  BY IdleRecords DEF Init
<1>4. TypeOK
  BY <1>1, <1>2, <1>3 DEF Init, TypeOK, File, Key, Made, WrapperRecord, ThreadRecord
<1>5. Places
  BY <1>1, <1>2 DEF Places, At, Is
<1>6. Keys
  BY <1>2 DEF Init, Keys, Relies, Signed, AtKey
<1>7. Hashes
  BY <1>1, <1>2 DEF Hashes, KnownRight, HoldsKnown, StoresRight, Apart, At, Is, Busy, Writing
<1> QED
  BY <1>4, <1>5, <1>6, <1>7 DEF Inv

LEMMA NextInv == Inv /\ [Next]_vars => Inv'
<1> SUFFICES ASSUME Inv, [Next]_vars
             PROVE  Inv'
  OBVIOUS
<1>1. ASSUME NEW t \in Thread, WriteCache(t)
      PROVE  Inv'
  BY <1>1, OpenStep, DumpStep, DumpFailsStep, ReadHashStep, StoreHashStep DEF WriteCache
<1>2. ASSUME NEW t \in Thread, Start(t)
      PROVE  Inv'
  BY <1>2, StartOpenStep, StartDumpStep, RegisterStep DEF Start
<1>3. ASSUME NEW t \in Thread, Chat(t)
      PROVE  Inv'
  BY <1>3, BeginChatStep, ChatStep DEF Chat
<1>4. ASSUME NEW w \in Wrapper, GetKey(w)
      PROVE  Inv'
  BY <1>4, LoadKeyStep, CreateKeyStep, FillKeyStep DEF GetKey
<1>5. CASE UNCHANGED vars
  <2>1. TypeOK' /\ Places' /\ Keys'
    BY <1>5 DEF vars, Inv, TypeOK, Places, Keys, Relies, Signed, AtKey, At, Is
  <2>2. Hashes'
    BY <1>5 DEF vars, Inv, Hashes, KnownRight, HoldsKnown, StoresRight, Apart, At, Is, Busy, Writing
  <2> QED
    BY <2>1, <2>2 DEF Inv
<1> QED
  BY <1>1, <1>2, <1>3, <1>4, <1>5, CrashStep, EditStep DEF Next

LEMMA Invariance == Spec => []Inv
BY InitInv, NextInv, PTL DEF Spec

----------------------------------------------------------------------------
(* Theorems                                                                *)

\* Type correctness: a wrapper that is up has a key, one that is down no thread.
THEOREM TypeCorrect == Spec => []TypeOK
<1>1. Inv => TypeOK
  BY DEF Inv
<1> QED
  BY <1>1, Invariance, PTL

\* Through any crashes and restarts, what wrappers that met no other have signed
\* without a secret of the environment can be verified with the key in the file,
\* and by all of them that run without one (provenance/log.py:728-743).
THEOREM EntriesAlwaysVerify == Spec => []EntriesVerify
<1>1. ASSUME Inv PROVE EntriesVerify
  <2>1. Signed \subseteq {keyFile}
    BY <1>1 DEF Inv, Keys
  <2>2. ASSUME NEW w \in Wrapper, Is(w, "up"), ~wrapper[w].raced, wrapper[w].key \notin Secrets
        PROVE  Signed \subseteq {wrapper[w].key}
    <3>1. Relies(w)
      BY <2>2 DEF Relies
    <3>2. wrapper[w].key = keyFile
      BY <1>1, <2>2, <3>1 DEF Inv, Keys, Is
    <3> QED
      BY <2>1, <3>2
  <2> QED
    BY <2>1, <2>2 DEF EntriesVerify, Signed
<1> QED
  BY <1>1, Invariance, PTL

\* Every refusal has a cause: another's hand, a write that went wrong, or one of
\* the wrapper's own threads at the cache meanwhile.
THEOREM RefusalsExplained == Spec => RefusalExplained
<1>1. ASSUME Inv, NEW t \in Thread, Refuse(t)
      PROVE  \/ author # Owner[t]
             \/ wrapper[Owner[t]].trouble
             \/ ~thread[t].alone
  <2> SUFFICES ASSUME author = Owner[t], ~wrapper[Owner[t]].trouble, thread[t].alone
               PROVE  FALSE
    OBVIOUS
  <2>1. At(t, "verifying") /\ thread[t].hash # cache
    BY <1>1 DEF Refuse
  <2>2. Owner[t] \in Wrapper /\ Is(Owner[t], "up")
    BY <1>1, <2>1, Types DEF Inv, Places, At
  <2>3. \A s \in Thread : Owner[s] = Owner[t] => ~Writing(s)
    BY <1>1, <2>1 DEF Inv, Hashes, Apart, Busy, Writing, At
  <2>4. wrapper[Owner[t]].known = cache
    BY <1>1, <2>2, <2>3 DEF Inv, Hashes, KnownRight
  <2>5. thread[t].hash = wrapper[Owner[t]].known
    BY <1>1, <2>1 DEF Inv, Hashes, HoldsKnown
  <2> QED
    BY <2>1, <2>4, <2>5
<1>2. Inv /\ [Next]_vars =>
        [\A t \in Thread : Refuse(t) =>
            \/ author # Owner[t]
            \/ wrapper[Owner[t]].trouble
            \/ ~thread[t].alone]_vars
  BY <1>1
<1> QED
  BY <1>2, Invariance, PTL DEF Spec, RefusalExplained
============================================================================
