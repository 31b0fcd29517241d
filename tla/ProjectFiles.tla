---------------------------- MODULE ProjectFiles ----------------------------
(***************************************************************************)
(* The files that the wrappers of one project share: the capability cache  *)
(* config/llm_capability.yaml, which every wrapper rewrites at its start   *)
(* and whenever it learns something of a model (core/wrapper.py), and which*)
(* is among the files whose hashes its integrity monitor compares before   *)
(* every chat (core/integrity.py); and the key .ct_hmac_key with which it  *)
(* signs what it records (provenance/log.py).  Neither file is locked, and *)
(* both are emptied first and filled afterwards.  A wrapper has several    *)
(* threads: those that chat, and those of background batteries and judges, *)
(* which resolve the policy of their model and may rewrite the cache too.  *)
(*                                                                         *)
(* cache       whether the cache file is there, and empty or filled: every *)
(*             content has the time of its writing in it, so a hash of the *)
(*             file is that of an empty file, of what is in it now, or of  *)
(*             something older                                             *)
(* author      who touched the cache last (history)                        *)
(* keyFile     the key file: a key is named by the wrapper that made it;   *)
(*             a start whose environment has a secret signs with that, and *)
(*             neither reads nor makes the file                            *)
(* wrapper[w]  how far its start is, the hash it has registered for the    *)
(*             cache, its key, whether another start was at its key while  *)
(*             it was (raced, history), and whether a write of its own has *)
(*             gone wrong since its hash was last right (trouble, history) *)
(* thread[t]   what a thread does with the cache, or its chat; a hash that *)
(*             it holds; and whether it has had its wrapper's view of the  *)
(*             cache for itself (alone, history)                           *)
(* entries     the keys of the signatures in the log, but those of wrappers*)
(*             that raced                                                  *)
(***************************************************************************)
CONSTANTS
    Wrapper,     \* wrappers of the project, in one process or several
    Thread,      \* their threads
    Background,  \* those of batteries and judges, which do not chat
    Owner,       \* the wrapper of each thread
    Operator,    \* whoever else edits the cache
    Secrets      \* what CT_HMAC_SECRET may hold at a start that has it

ASSUME OwnerAssumption == Owner \in [Thread -> Wrapper] /\ Background \subseteq Thread
ASSUME OperatorAssumption == Operator \notin Wrapper
ASSUME WrapperAssumption == "none" \notin Wrapper
ASSUME SecretAssumption == Secrets \cap (Wrapper \cup {"none", "empty"}) = {}

VARIABLES cache, author, keyFile, wrapper, thread, entries

vars == <<cache, author, keyFile, wrapper, thread, entries>>

File == {"none", "empty", "filled"}
Hash == File \cup {"older"}
Made == Wrapper \cup {"empty"}
Key == Made \cup Secrets

Status == {"down", "cache", "key", "creating", "filling", "register", "up"}
Step == {"idle", "opened", "hashing", "storing", "verifying", "calling"}

TypeOK ==
    /\ cache \in File
    /\ author \in Wrapper \cup {Operator}
    /\ keyFile \in Made \cup {"none"}
    /\ wrapper \in [Wrapper -> [status : Status, known : Hash, key : Key \cup {"none"},
                                raced : BOOLEAN, trouble : BOOLEAN]]
    /\ thread \in [Thread -> [step : Step, hash : Hash, alone : BOOLEAN]]
    /\ entries \subseteq Key
    /\ \A t \in Thread : wrapper[Owner[t]].status = "down" => thread[t].step = "idle"
    /\ \A w \in Wrapper : wrapper[w].status = "up" => wrapper[w].key # "none"

Down == [status |-> "down", known |-> "none", key |-> "none", raced |-> FALSE, trouble |-> FALSE]
Idle == [step |-> "idle", hash |-> "none", alone |-> TRUE]
Calling == [Idle EXCEPT !.step = "calling"]

\* A new project, before anybody has started.
Init ==
    /\ cache = "none"
    /\ author = Operator
    /\ keyFile = "none"
    /\ wrapper = [w \in Wrapper |-> Down]
    /\ thread = [t \in Thread |-> Idle]
    /\ entries = {}

Is(w, status) == wrapper[w].status = status
At(t, step) == thread[t].step = step

Older(hash) == IF hash = "filled" THEN "older" ELSE hash

\* The file gets another content; the rest of the step gives wrappers and threads.
Rewrite(by, content, ws, ts) ==
    /\ cache' = content
    /\ author' = by
    /\ wrapper' = [w \in Wrapper |-> [ws[w] EXCEPT !.known = Older(@)]]
    /\ thread' = [t \in Thread |-> [ts[t] EXCEPT !.hash = Older(@)]]

Siblings(t) == {s \in Thread \ {t} : Owner[s] = Owner[t]}
Writing(s) == thread[s].step \in {"opened", "hashing", "storing"}
Busy(s) == Writing(s) \/ At(s, "verifying")

\* t begins to use the cache; a writer disturbs its siblings.
Using(t, step) ==
    [step |-> step, hash |-> IF step = "verifying" THEN wrapper[Owner[t]].known ELSE "none",
     alone |-> \A s \in Siblings(t) : ~Writing(s)]
Started(t, step) ==
    [s \in Thread |->
       IF s = t THEN Using(t, step)
       ELSE [thread[s] EXCEPT !.alone = @ /\ ~(s \in Siblings(t) /\ Busy(s))]]
\* and ends: back in its chat, or done.
Ended(t) ==
    [thread EXCEPT ![t] = IF Is(Owner[t], "up") /\ t \notin Background THEN Calling ELSE Idle]

----------------------------------------------------------------------------
(* _write_capability_registry                                              *)

\* A refresh or a passive discovery: open(..., "w") empties the file.
Open(t) ==
    /\ Is(Owner[t], "up")
    /\ At(t, IF t \in Background THEN "idle" ELSE "calling")
    /\ Rewrite(Owner[t], "empty", wrapper, Started(t, "opened"))
    /\ UNCHANGED <<keyFile, entries>>

\* Mutant: the new content is not registered.
NotRegistering(t) == Ended(t)

Registering(t) == [thread EXCEPT ![t].step = "hashing"]

Dump(t) ==
    /\ At(t, "opened") /\ Is(Owner[t], "up")
    /\ Rewrite(Owner[t], "filled", wrapper, Registering(t))
    /\ UNCHANGED <<keyFile, entries>>

\* A failure on the way is logged, and nothing is registered.
DumpFails(t) ==
    /\ At(t, "opened") /\ Is(Owner[t], "up")
    /\ \E content \in {"empty", "filled"} :
          Rewrite(Owner[t], content, [wrapper EXCEPT ![Owner[t]].trouble = TRUE], Ended(t))
    /\ UNCHANGED <<keyFile, entries>>

\* register_file: the hash of what is in the file now, then the dictionary.
ReadHash(t) ==
    /\ At(t, "hashing")
    /\ thread' = [thread EXCEPT ![t].step = "storing", ![t].hash = cache]
    /\ UNCHANGED <<cache, author, keyFile, wrapper, entries>>

StoreHash(t) ==
    /\ At(t, "storing")
    /\ wrapper' = [wrapper EXCEPT ![Owner[t]].known = thread[t].hash,
                                  ![Owner[t]].trouble = ~thread[t].alone,
                                  ![Owner[t]].status = "up"]
    /\ thread' = Ended(t)
    /\ UNCHANGED <<cache, author, keyFile, entries>>

----------------------------------------------------------------------------
(* The start of a wrapper, in one of its threads                           *)

\* _initialize_capability_registry.
StartOpen(t) ==
    /\ Is(Owner[t], "down") /\ t \notin Background
    /\ Rewrite(Owner[t], "empty", [wrapper EXCEPT ![Owner[t]].status = "cache"],
               Started(t, "opened"))
    /\ UNCHANGED <<keyFile, entries>>

AtKey(w) == wrapper[w].status \in {"key", "creating", "filling"}

\* The wrapper comes to its key, and meets those that are at theirs.
Meeting(w) ==
    [v \in Wrapper |->
       IF v = w THEN [wrapper[w] EXCEPT !.status = "key", !.raced = \E u \in Wrapper : AtKey(u)]
                ELSE [wrapper[v] EXCEPT !.raced = @ \/ AtKey(v)]]

\* _load_or_generate_key: with a secret in the environment the start has its key,
\* without one it goes for the file.
WithSecret(w, secret) == [wrapper EXCEPT ![w].status = "register", ![w].key = secret]
Keyed(w) == {Meeting(w)} \cup {WithSecret(w, secret) : secret \in Secrets}

\* The start goes on whether the write succeeds or not; there is no monitor yet.
StartDump(t) ==
    /\ At(t, "opened") /\ Is(Owner[t], "cache")
    /\ \E content \in {"empty", "filled"}, ws \in Keyed(Owner[t]) :
          Rewrite(Owner[t], content, ws, Ended(t))
    /\ UNCHANGED <<keyFile, entries>>

\* Mutant: the key is made anew whether there is one or not.
MustGenerateAlways(w) == TRUE

\* There is a key file, or a key is generated, the file created and then filled.
MustGenerate(w) == keyFile = "none"

LoadKey(w) ==
    /\ Is(w, "key")
    /\ wrapper' = IF MustGenerate(w)
                  THEN [wrapper EXCEPT ![w].status = "creating"]
                  ELSE [wrapper EXCEPT ![w].status = "register", ![w].key = keyFile]
    /\ UNCHANGED <<cache, author, keyFile, thread, entries>>

CreateKeyFile(w) ==
    /\ Is(w, "creating")
    /\ keyFile' = "empty"
    /\ wrapper' = [wrapper EXCEPT ![w].status = "filling"]
    /\ UNCHANGED <<cache, author, thread, entries>>

\* Mutant: the generated key is saved and not returned.
FillKeyFileUnreturned(w) ==
    /\ Is(w, "filling")
    /\ keyFile' = w
    /\ wrapper' = [wrapper EXCEPT ![w].status = "register"]
    /\ UNCHANGED <<cache, author, thread, entries>>

FillKeyFile(w) ==
    /\ Is(w, "filling")
    /\ keyFile' = w
    /\ wrapper' = [wrapper EXCEPT ![w].status = "register", ![w].key = w]
    /\ UNCHANGED <<cache, author, thread, entries>>

\* _register_monitored_files, as far as the cache goes.
Register(t) ==
    /\ Is(Owner[t], "register") /\ t \notin Background
    /\ At(t, "idle") /\ \A s \in Siblings(t) : ~Writing(s)
    /\ thread' = Started(t, "hashing")
    /\ UNCHANGED <<cache, author, keyFile, wrapper, entries>>

----------------------------------------------------------------------------
(* A chat                                                                  *)

\* verify_integrity takes the hash it knows, then reads the file.
BeginChat(t) ==
    /\ Is(Owner[t], "up") /\ At(t, "idle") /\ t \notin Background
    /\ thread' = [thread EXCEPT ![t] = Using(t, "verifying")]
    /\ UNCHANGED <<cache, author, keyFile, wrapper, entries>>

Pass(t) ==
    /\ At(t, "verifying") /\ thread[t].hash = cache
    /\ thread' = Ended(t)
    /\ UNCHANGED <<cache, author, keyFile, wrapper, entries>>

Refuse(t) ==
    /\ At(t, "verifying") /\ thread[t].hash # cache
    /\ thread' = [thread EXCEPT ![t] = Idle]
    /\ UNCHANGED <<cache, author, keyFile, wrapper, entries>>

\* The provider has answered and the interaction is recorded, or it has failed.
FinishChat(t) ==
    /\ At(t, "calling")
    /\ \/ UNCHANGED entries
       \/ ~wrapper[Owner[t]].raced /\ entries' = entries \cup {wrapper[Owner[t]].key}
    /\ thread' = [thread EXCEPT ![t] = Idle]
    /\ UNCHANGED <<cache, author, keyFile, wrapper>>

----------------------------------------------------------------------------

StopThreads(w) ==
    thread' = [t \in Thread |-> IF Owner[t] = w THEN Idle ELSE thread[t]]

\* Whatever is half written stays so.
Crash(w) ==
    /\ ~Is(w, "down")
    /\ wrapper' = [wrapper EXCEPT ![w] = Down]
    /\ StopThreads(w)
    /\ UNCHANGED <<cache, author, keyFile, entries>>

Edit ==
    /\ Rewrite(Operator, "filled", wrapper, thread)
    /\ UNCHANGED <<keyFile, entries>>

WriteCache(t) == Open(t) \/ Dump(t) \/ DumpFails(t) \/ ReadHash(t) \/ StoreHash(t)
Start(t) == StartOpen(t) \/ StartDump(t) \/ Register(t)
GetKey(w) == LoadKey(w) \/ CreateKeyFile(w) \/ FillKeyFile(w)
Chat(t) == BeginChat(t) \/ Pass(t) \/ Refuse(t) \/ FinishChat(t)

Next ==
    \/ \E t \in Thread : WriteCache(t) \/ Start(t) \/ Chat(t)
    \/ \E w \in Wrapper : GetKey(w) \/ Crash(w)
    \/ Edit

Spec == Init /\ [][Next]_vars

----------------------------------------------------------------------------
(* Properties                                                              *)

\* _load_or_generate_key: through crashes and restarts every entry signed without a
\* secret of the environment can be verified with the key in the file and by every
\* wrapper that runs without one, unless the start that obtained the signing or the
\* verifying key met another one at its key.  What is signed with a secret cannot be
\* verified without it.
EntriesVerify ==
    LET signed == entries \ Secrets IN
    /\ signed \subseteq {keyFile}
    /\ \A w \in Wrapper :
          Is(w, "up") /\ ~wrapper[w].raced /\ wrapper[w].key \notin Secrets
             => signed \subseteq {wrapper[w].key}

\* log.py:731: a start that finds entries in the log and neither a secret nor a
\* key file raises; it does not make a key that verifies none of them.
MissingKeyRaises ==
    [][\A w \in Wrapper : Is(w, "key") /\ MustGenerate(w) /\ entries # {} => ~LoadKey(w)]_vars

\* A chat is refused for tampering only if the cache was touched last by somebody
\* else, or a write of the wrapper itself has failed or overlapped another of its
\* writes and none has gone well since, or one overlapped the verification.  A
\* wrapper with one thread, alone in its project, never refuses by its own doing.
RefusalExplained ==
    [][\A t \in Thread : Refuse(t) =>
          \/ author # Owner[t]
          \/ wrapper[Owner[t]].trouble
          \/ ~thread[t].alone]_vars
============================================================================
