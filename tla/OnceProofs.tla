----------------------------- MODULE OnceProofs -----------------------------
(***************************************************************************)
(* Proofs about the components that do something once, whoever interrupts  *)
(* or repeats it: Identity (deletion by destroying the key leaves nothing  *)
(* readable and loses nothing else), IdempotentExecution (a request is     *)
(* performed once, and every answer is the recorded one) and Rails (what   *)
(* callers of the rails are told is true).  They hold for any identities,  *)
(* requests and concurrent callers; for any number of keys, requests and   *)
(* attempts; of operations, payloads, workers and retries.                 *)
(***************************************************************************)
EXTENDS Identity, IdempotentExecution, Rails, TLAPS

-----------------------------------------------------------------------------
(* The PII vault.                                                          *)

IdentitySpec == InitIdentity /\ [][IdentityNext]_identityVars

DeletionRequests == UNION {RequestsOf[i] : i \in Identities}

MappingRow == [state : {"NONE", "ACTIVE", "DELETION_PENDING"}, request : DeletionRequests \cup {"none"}]

TaskRow ==
  [step : {"insert", "discard", "decrypt", "destroy", "finish"}, id : Identities, request : DeletionRequests \cup {"none"}]

IdentityTypeOK ==
  /\ key \in [Identities -> {"unused", "live", "destroyed"}]
  /\ mapping \in [Identities -> MappingRow]
  /\ receipts \subseteq DeletionRequests
  /\ task \in [Clients -> {NoTask} \cup TaskRow]
  /\ known \subseteq Identities /\ deleted \subseteq Identities

Receipted(i) == RequestsOf[i] \cap receipts # {}

\* The mapping of an identity and the request it is marked for.
MarkedFor(i, request) == mapping[i].state = "DELETION_PENDING" /\ mapping[i].request = request

Gone(i) == mapping[i] = NoMapping /\ key[i] = "destroyed"

\* What database and Vault together say of an identity.
Sound(i) ==
  /\ key[i] = "unused" => mapping[i] = NoMapping /\ ~Receipted(i) /\ i \notin known
  /\ i \in deleted => Receipted(i)
  /\ Receipted(i) => Gone(i)
  /\ mapping[i].state = "NONE" => mapping[i] = NoMapping
  /\ mapping[i].state = "ACTIVE" => mapping[i].request = "none"
  /\ mapping[i].state = "DELETION_PENDING" => mapping[i].request \in RequestsOf[i]
  /\ i \in known /\ ~Receipted(i) =>
       (mapping[i].state = "ACTIVE" /\ key[i] = "live") \/ mapping[i].state = "DELETION_PENDING"
  /\ \A r, s \in RequestsOf[i] \cap receipts : r = s

\* What a caller may rely on between two of its calls: the identity it makes is its
\* own until the insert, the one it discards is nobody's, and the one it deletes is
\* marked for its request or gone already.
Holds(c) ==
  task[c] # NoTask =>
    LET i == task[c].id
    IN  /\ key[i] # "unused"
        /\ task[c].step = "insert" =>
             /\ key[i] = "live" /\ mapping[i] = NoMapping /\ ~Receipted(i) /\ i \notin known
             /\ \A d \in Clients : task[d] # NoTask /\ task[d].id = i => d = c
        /\ task[c].step = "discard" => i \notin known
        /\ task[c].step \in {"destroy", "finish"} =>
             task[c].request \in RequestsOf[i] /\ (MarkedFor(i, task[c].request) \/ Gone(i))
        /\ task[c].step = "finish" => key[i] = "destroyed"

IdentityInv ==
  /\ IdentityTypeOK
  /\ leaked = {}
  /\ \A i \in Identities : Sound(i)
  /\ \A c \in Clients : Holds(c)

-----------------------------------------------------------------------------
\* Nothing is stored and nobody is at work.
LEMMA IdentityInitial == InitIdentity => IdentityInv
BY DEF InitIdentity, IdentityInv, IdentityTypeOK, Sound, Holds, Receipted, Gone, MappingRow, NoMapping, NoTask

\* The requests of an identity are requests.
LEMMA RequestsAreRequests == \A i \in Identities : RequestsOf[i] \subseteq DeletionRequests
BY DEF DeletionRequests

\* The invariant contains the property.
LEMMA SoundIsErased == IdentityInv => ErasedForGood
BY Zenon DEF IdentityInv, Sound, Receipted, Gone, ErasedForGood

-----------------------------------------------------------------------------
\* A step of one caller on one identity leaves the other identities sound, and what the
\* callers at work on them rely on.
LEMMA OthersKeep ==
  ASSUME IdentityInv, NEW c \in Clients, NEW i \in Identities,
         NEW t, task' = [task EXCEPT ![c] = t], t # NoTask => t.id = i,
         IdentityTypeOK', leaked' = {},
         \A j \in Identities \ {i} :
           /\ key'[j] = key[j] /\ mapping'[j] = mapping[j]
           /\ j \in known' <=> j \in known
           /\ j \in deleted' <=> j \in deleted
           /\ RequestsOf[j] \cap receipts' = RequestsOf[j] \cap receipts,
         Sound(i)', Holds(c)',
         \A d \in Clients \ {c} : task[d] # NoTask /\ task[d].id = i => Holds(d)'
  PROVE  IdentityInv'
<1>1. task'[c] = t /\ \A d \in Clients \ {c} : task'[d] = task[d]
  BY Zenon DEF IdentityInv, IdentityTypeOK
<1>2. ASSUME NEW j \in Identities \ {i}
      PROVE  Sound(j)'
  <2>1. Sound(j)
    BY Zenon DEF IdentityInv
  <2> QED  BY <2>1, <1>2, Zenon DEF Sound, Receipted, Gone
<1>3. ASSUME NEW d \in Clients \ {c}, task[d] # NoTask, task[d].id # i
      PROVE  Holds(d)'
  <2>1. task[d].id \in Identities \ {i}
    BY <1>3, Zenon DEF IdentityInv, IdentityTypeOK, TaskRow
  <2>2. Holds(d)
    BY DEF IdentityInv
  <2> QED  BY <1>1, <1>3, <2>1, <2>2 DEF Holds, Receipted, Gone, MarkedFor
<1>4. ASSUME NEW d \in Clients \ {c}, task[d] = NoTask
      PROVE  Holds(d)'
  BY <1>1, <1>4, Zenon DEF Holds
<1>5. \A d \in Clients : Holds(d)'
  BY <1>3, <1>4, Zenon
<1> QED  BY <1>2, <1>5, Zenon DEF IdentityInv

\* Create, first step: a key that nobody has used yet.
LEMMA EncryptKeeps ==
  ASSUME IdentityInv, NEW c \in Clients, NEW i \in Identities, Encrypt(c, i)
  PROVE  IdentityInv'
<1>1. PICK t \in {NoTask, [step |-> "insert", id |-> i, request |-> "none"]} : task' = [task EXCEPT ![c] = t]
  BY DEF Encrypt, Do, End
<1>2. t # NoTask => t \in TaskRow /\ t.id = i /\ t.step = "insert"
  BY DEF TaskRow
<1>3. Sound(i) /\ \A d \in Clients : Holds(d)
  BY DEF IdentityInv
<1>4. IdentityTypeOK'
  BY <1>1, <1>2, Zenon DEF IdentityInv, IdentityTypeOK, Encrypt
<1>5. /\ key'[i] = "live" /\ key[i] = "unused" /\ UNCHANGED <<mapping, receipts, known, deleted, leaked>>
      /\ \A j \in Identities \ {i} : key'[j] = key[j]
  BY DEF IdentityInv, IdentityTypeOK, Encrypt
<1>6. Sound(i)'
  BY <1>3, <1>5, Zenon DEF Sound, Receipted, Gone
<1>7. \A d \in Clients : task[d] # NoTask => task[d].id # i
  BY <1>3, <1>5, Zenon DEF Holds
<1>8. Holds(c)'
  <2>1. task'[c] = t /\ \A d \in Clients \ {c} : task'[d] = task[d]
    BY <1>1 DEF IdentityInv, IdentityTypeOK
  <2> QED  BY <1>2, <1>3, <1>5, <1>7, <2>1 DEF Holds, Sound, Receipted
<1> QED  BY <1>1, <1>2, <1>4, <1>5, <1>6, <1>7, <1>8, OthersKeep, Zenon DEF IdentityInv

\* Create, second step: the row, or an error after which it is there or not.
LEMMA InsertMappingKeeps ==
  ASSUME IdentityInv, NEW c \in Clients, InsertMapping(c)
  PROVE  IdentityInv'
<1>1. PICK i \in Identities : i = task[c].id /\ task[c] # NoTask /\ task[c].step = "insert"
  BY DEF IdentityInv, IdentityTypeOK, InsertMapping, TaskRow, NoTask
<1>2. Sound(i) /\ Holds(c)
  BY <1>1, Zenon DEF IdentityInv
<1>3. PICK t \in {NoTask, [step |-> "discard", id |-> i, request |-> "none"]} :
        /\ task' = [task EXCEPT ![c] = t]
        /\ mapping' \in {mapping, [mapping EXCEPT ![i] = [state |-> "ACTIVE", request |-> "none"]]}
        /\ t = NoTask => mapping' = [mapping EXCEPT ![i] = [state |-> "ACTIVE", request |-> "none"]]
        /\ known' \in {known, known \cup {i}}
        /\ t # NoTask => known' = known
  <2> DEFINE inserted == [mapping EXCEPT ![i] = [state |-> "ACTIVE", request |-> "none"]]
  <2>1. CASE mapping' = inserted /\ End(c) /\ known' = known \cup {i}
    BY <2>1 DEF End
  <2>2. CASE mapping' \in {inserted, mapping} /\ Do(c, "discard", i, "none") /\ UNCHANGED known
    <3> DEFINE new == [step |-> "discard", id |-> i, request |-> "none"]
    <3>1. new # NoTask
      BY DEF NoTask
    <3>2. task' = [task EXCEPT ![c] = new]
      BY <2>2 DEF Do
    <3> QED  BY <2>2, <3>1, <3>2, Zenon
  <2> QED  BY <1>1, <2>1, <2>2, Zenon DEF InsertMapping
<1>4. t # NoTask => t \in TaskRow /\ t.id = i /\ t.step = "discard"
  BY <1>1 DEF TaskRow
<1>5. UNCHANGED <<key, receipts, deleted, leaked>>
  BY Zenon DEF InsertMapping
<1>6. /\ key[i] = "live" /\ mapping[i] = NoMapping /\ ~Receipted(i) /\ i \notin known
      /\ \A d \in Clients \ {c} : task[d] # NoTask => task[d].id # i
  BY <1>1, <1>2, Zenon DEF Holds
<1>7. IdentityTypeOK'
  BY <1>1, <1>3, <1>4, <1>5 DEF IdentityInv, IdentityTypeOK, MappingRow
<1>8. /\ mapping'[i] \in {NoMapping, [state |-> "ACTIVE", request |-> "none"]}
      /\ t = NoTask => mapping'[i].state = "ACTIVE"
      /\ \A j \in Identities \ {i} : mapping'[j] = mapping[j]
  BY <1>1, <1>3, <1>6 DEF IdentityInv, IdentityTypeOK
<1>9. Sound(i)'
  <2>1. /\ mapping'[i].request = "none" /\ mapping'[i].state \in {"NONE", "ACTIVE"}
        /\ mapping'[i].state = "NONE" => mapping'[i] = NoMapping
    BY <1>8 DEF NoMapping
  <2>2. i \in known' => mapping'[i].state = "ACTIVE"
    BY <1>3, <1>6, <1>8, Zenon
  <2> QED  BY <1>2, <1>5, <1>6, <2>1, <2>2, Zenon DEF Sound, Receipted
<1>10. Holds(c)'
  <2>1. task'[c] = t
    BY <1>3, Zenon DEF IdentityInv, IdentityTypeOK
  <2> QED  BY <1>3, <1>4, <1>5, <1>6, <2>1, Zenon DEF Holds
<1>11. \A j \in Identities \ {i} : j \in known' <=> j \in known
  BY <1>3, Zenon
<1> QED  BY <1>1, <1>3, <1>4, <1>5, <1>6, <1>7, <1>8, <1>9, <1>10, <1>11, OthersKeep, Zenon DEF IdentityInv

\* A caller at work on an identity has it, and nobody else is about to insert it.
LEMMA AtWork ==
  ASSUME IdentityInv, NEW c \in Clients, task[c] # NoTask
  PROVE  \E i \in Identities :
           /\ i = task[c].id /\ Sound(i) /\ Holds(c) /\ key[i] # "unused"
           /\ \A d \in Clients \ {c} : task[d] # NoTask /\ task[d].id = i => Holds(d) /\ task[d].step # "insert"
<1>1. task[c].id \in Identities
  BY DEF IdentityInv, IdentityTypeOK, TaskRow
<1>2. Sound(task[c].id) /\ \A d \in Clients : Holds(d)
  BY <1>1 DEF IdentityInv
<1>3. \A d \in Clients \ {c} : task[d] # NoTask /\ task[d].id = task[c].id => task[d].step # "insert"
  BY <1>2, Zenon DEF Holds
<1> QED  BY <1>1, <1>2, <1>3 DEF Holds

\* A key that is destroyed, or left as it is, takes nothing from a caller that relies on
\* neither.
LEMMA DestroyingKeeps ==
  ASSUME IdentityInv, NEW c \in Clients, task[c] # NoTask, NEW i \in Identities, i = task[c].id,
         task[c].step \in {"discard", "destroy"},
         NEW k \in {"destroyed", key[i]}, key' = [key EXCEPT ![i] = k],
         NEW t \in {NoTask} \cup TaskRow, task' = [task EXCEPT ![c] = t],
         t # NoTask => t.id = i /\ t.step = "finish" /\ t.request = task[c].request /\ k = "destroyed"
                       /\ task[c].step = "destroy",
         UNCHANGED <<mapping, receipts, known, deleted, leaked>>
  PROVE  IdentityInv'
<1>1. /\ Sound(i) /\ Holds(c) /\ key[i] # "unused"
      /\ \A d \in Clients \ {c} : task[d] # NoTask /\ task[d].id = i => Holds(d) /\ task[d].step # "insert"
  BY AtWork, Zenon
<1>2. /\ key'[i] = k /\ \A j \in Identities \ {i} : key'[j] = key[j]
      /\ task'[c] = t /\ \A d \in Clients \ {c} : task'[d] = task[d]
  BY Zenon DEF IdentityInv, IdentityTypeOK
<1>3. IdentityTypeOK'
  BY Zenon DEF IdentityInv, IdentityTypeOK
<1>4. Sound(i)'
  <2>1. i \in known /\ ~Receipted(i) => mapping[i].state = "DELETION_PENDING"
    <3>1. CASE task[c].step = "discard"
      BY <1>1, <3>1, Zenon DEF Holds
    <3>2. CASE task[c].step = "destroy"
      <4>1. MarkedFor(i, task[c].request) \/ Gone(i)
        BY <1>1, <3>2, Zenon DEF Holds
      <4>2. Gone(i) => mapping[i].state = "NONE"
        BY DEF Gone, NoMapping
      <4> QED  BY <1>1, <4>1, <4>2, Zenon DEF Sound, MarkedFor
    <3> QED  BY <3>1, <3>2, Zenon
  <2>2. Receipted(i)' <=> Receipted(i)
    BY Zenon DEF Receipted
  <2>3. Gone(i) => Gone(i)'
    BY <1>2, Zenon DEF Gone
  <2> QED  BY <1>1, <1>2, <2>1, <2>2, <2>3, Zenon DEF Sound
<1>5. Holds(c)'
  <2>1. CASE t = NoTask
    BY <1>2, <2>1, Zenon DEF Holds
  <2>2. CASE t # NoTask
    <3>1. task[c].request \in RequestsOf[i] /\ (MarkedFor(i, task[c].request) \/ Gone(i))
      BY <1>1, <2>2, Zenon DEF Holds
    <3>2. MarkedFor(i, t.request)' \/ Gone(i)'
      BY <1>2, <2>2, <3>1, Zenon DEF MarkedFor, Gone
    <3> QED  BY <1>2, <2>2, <3>1, <3>2, Zenon DEF Holds
  <2> QED  BY <2>1, <2>2, Zenon
<1>6. \A d \in Clients \ {c} : task[d] # NoTask /\ task[d].id = i => Holds(d)'
  BY <1>1, <1>2 DEF Holds, Gone, MarkedFor
<1> QED  BY <1>2, <1>3, <1>4, <1>5, <1>6, OthersKeep, Zenon DEF IdentityInv

\* Destroying a key leaves it as it was or destroyed, and success means destroyed.
LEMMA DestroyedOutcomes ==
  ASSUME NEW k, NEW x \in Destroyed(k)
  PROVE  x[1] \in {"destroyed", k} /\ x[2] \in BOOLEAN /\ (x[2] => x[1] = "destroyed")
<1>1. CASE x = <<"destroyed", TRUE>>
  BY <1>1
<1>2. CASE x = <<"destroyed", FALSE>>
  BY <1>2
<1>3. CASE x = <<k, FALSE>>
  BY <1>3
<1> QED  BY <1>1, <1>2, <1>3, Zenon DEF Destroyed

\* Create after an error: the key of an identity that nobody was told of is destroyed.
LEMMA DiscardKeyKeeps ==
  ASSUME IdentityInv, NEW c \in Clients, DiscardKey(c)
  PROVE  IdentityInv'
<1>1. task[c] # NoTask /\ task[c].step = "discard"
  BY DEF DiscardKey, NoTask
<1>2. PICK i \in Identities : i = task[c].id
  BY <1>1, AtWork
<1>3. PICK k \in {"destroyed", key[i]} : key' = [key EXCEPT ![i] = k]
  BY <1>2, DestroyedOutcomes, ZenonT(30) DEF DiscardKey
<1> QED  BY <1>1, <1>2, <1>3, DestroyingKeeps, Zenon DEF DiscardKey, End

\* Delete, second step: the key, whose mapping is marked.
LEMMA DestroyKeyKeeps ==
  ASSUME IdentityInv, NEW c \in Clients, DestroyKey(c)
  PROVE  IdentityInv'
<1>1. task[c] # NoTask /\ task[c].step = "destroy"
  BY DEF DestroyKey, NoTask
<1>2. PICK i \in Identities : i = task[c].id
  BY <1>1, AtWork
<1> DEFINE new == [step |-> "finish", id |-> i, request |-> task[c].request]
<1>3. new \in TaskRow
  BY <1>1, <1>2, Zenon DEF IdentityInv, IdentityTypeOK, TaskRow
<1>4. PICK x \in Destroyed(key[i]) :
        /\ key' = [key EXCEPT ![i] = x[1]]
        /\ IF x[2] THEN Do(c, "finish", i, task[c].request) ELSE End(c)
  BY <1>2, Zenon DEF DestroyKey
<1>5. x[1] \in {"destroyed", key[i]} /\ x[2] \in BOOLEAN /\ (x[2] => x[1] = "destroyed")
  BY DestroyedOutcomes
<1>6. UNCHANGED <<mapping, receipts, known, deleted, leaked>>
  BY DEF DestroyKey
<1>7. CASE x[2] = TRUE
  <2>1. task' = [task EXCEPT ![c] = new] /\ new.id = i /\ new.step = "finish" /\ new.request = task[c].request
    BY <1>4, <1>7, Zenon DEF Do
  <2> HIDE DEF new
  <2> QED  BY <1>1, <1>2, <1>3, <1>4, <1>5, <1>6, <1>7, <2>1, DestroyingKeeps, Zenon
<1>8. CASE x[2] = FALSE
  <2>1. task' = [task EXCEPT ![c] = NoTask]
    BY <1>4, <1>8 DEF End
  <2> QED  BY <1>1, <1>2, <1>4, <1>5, <1>6, <2>1, DestroyingKeeps, Zenon
<1> QED  BY <1>5, <1>7, <1>8, Zenon

\* A caller that takes up a task, or ends one, without a change of what is stored.
LEMMA TurningKeeps ==
  ASSUME IdentityInv, NEW c \in Clients, NEW i \in Identities, NEW t \in {NoTask} \cup TaskRow,
         task' = [task EXCEPT ![c] = t],
         t # NoTask => t.id = i /\ t.step = "decrypt" /\ mapping[i].state = "ACTIVE",
         leaked' = {},
         UNCHANGED <<key, mapping, receipts, known, deleted>>
  PROVE  IdentityInv'
<1>1. Sound(i) /\ \A d \in Clients : Holds(d)
  BY DEF IdentityInv
<1>2. task'[c] = t /\ \A d \in Clients \ {c} : task'[d] = task[d]
  BY DEF IdentityInv, IdentityTypeOK
<1>3. IdentityTypeOK'
  BY Zenon DEF IdentityInv, IdentityTypeOK
<1>4. Sound(i)'
  BY <1>1, Zenon DEF Sound, Receipted, Gone
<1>5. Holds(c)'
  BY <1>1, <1>2, SMTT(30) DEF Holds, Sound, NoMapping
<1>6. \A d \in Clients \ {c} : task[d] # NoTask /\ task[d].id = i => Holds(d)'
  BY <1>1, <1>2 DEF Holds, Receipted, Gone, MarkedFor, NoMapping
<1> QED  BY <1>2, <1>3, <1>4, <1>5, <1>6, OthersKeep, Zenon

\* Get reads the mapping and decrypts later, which fails once the key is gone.
LEMMA GetKeeps ==
  ASSUME IdentityInv, NEW c \in Clients, (\E i \in Identities : ReadMapping(c, i)) \/ Decrypt(c) \/ GiveUp(c)
  PROVE  IdentityInv'
<1>1. ASSUME NEW i \in Identities, ReadMapping(c, i)
      PROVE  IdentityInv'
  <2> DEFINE new == [step |-> "decrypt", id |-> i, request |-> "none"]
  <2>1. new \in TaskRow /\ new.id = i /\ new.step = "decrypt"
    BY Zenon DEF TaskRow
  <2>2. task' = [task EXCEPT ![c] = new] /\ mapping[i].state = "ACTIVE" /\ UNCHANGED <<key, mapping, receipts, known, deleted, leaked>>
    BY <1>1, Zenon DEF ReadMapping, Do
  <2>3. leaked' = {}
    BY <2>2 DEF IdentityInv
  <2> HIDE DEF new
  <2> QED  BY <2>1, <2>2, <2>3, TurningKeeps, Zenon
<1>2. CASE Decrypt(c)
  <2>1. task[c] # NoTask
    BY <1>2 DEF Decrypt, NoTask
  <2>2. PICK i \in Identities : i = task[c].id /\ Sound(i)
    BY <2>1, AtWork, Zenon
  <2>3. key[i] = "live" => i \notin deleted
    BY <2>2, Zenon DEF Sound, Gone
  <2>4. leaked' = {}
    BY <1>2, <2>2, <2>3, Zenon DEF Decrypt, IdentityInv
  <2> QED  BY <1>2, <2>4, <2>2, TurningKeeps, Zenon DEF Decrypt, End
<1>3. CASE GiveUp(c)
  <2>1. PICK i \in Identities : i = task[c].id
    BY <1>3, AtWork, Zenon DEF GiveUp
  <2>2. leaked' = {}
    BY <1>3, Zenon DEF GiveUp, IdentityInv
  <2> QED  BY <1>3, <2>1, <2>2, TurningKeeps, Zenon DEF GiveUp, End
<1> QED  BY <1>1, <1>2, <1>3

\* Delete, first step: a mapping is marked for one request.
LEMMA MarkPendingKeeps ==
  ASSUME IdentityInv, NEW c \in Clients, NEW i \in Identities, NEW request \in RequestsOf[i], MarkPending(c, i, request)
  PROVE  IdentityInv'
<1>1. Sound(i) /\ \A d \in Clients : Holds(d)
  BY Zenon DEF IdentityInv
<1>2. request \in DeletionRequests /\ request # "none" /\ task[c] = NoTask /\ leaked' = {}
  BY RequestsAreRequests, OneIdentityAssumption, Zenon DEF MarkPending, IdentityInv
<1>3. CASE /\ mapping[i].state = "ACTIVE" \/ (mapping[i].state = "DELETION_PENDING" /\ mapping[i].request = request)
           /\ mapping' = [mapping EXCEPT ![i] = [state |-> "DELETION_PENDING", request |-> request]]
           /\ Do(c, "destroy", i, request)
           /\ UNCHANGED deleted
  <2> DEFINE new == [step |-> "destroy", id |-> i, request |-> request]
  <2>1. new \in TaskRow /\ new # NoTask /\ new.id = i /\ new.step = "destroy" /\ new.request = request
    BY <1>2, Zenon DEF TaskRow, NoTask
  <2>2. task' = [task EXCEPT ![c] = new] /\ UNCHANGED <<key, receipts, known, deleted>>
    BY <1>3, Zenon DEF Do, MarkPending
  <2> HIDE DEF new
  <2>3. /\ mapping'[i].state = "DELETION_PENDING" /\ mapping'[i].request = request
        /\ \A j \in Identities \ {i} : mapping'[j] = mapping[j]
        /\ task'[c] = new /\ \A d \in Clients \ {c} : task'[d] = task[d]
    BY <1>3, <2>2, Zenon DEF IdentityInv, IdentityTypeOK
  <2>4. IdentityTypeOK'
    BY <1>2, <1>3, <2>1, <2>2, Zenon DEF IdentityInv, IdentityTypeOK, MappingRow
  <2>5. mapping[i] # NoMapping
    BY <1>3 DEF NoMapping
  <2>6. key[i] # "unused" /\ ~Receipted(i)
    BY <1>1, <2>5, Zenon DEF Sound, Gone
  <2>7. Sound(i)'
    BY <1>1, <2>2, <2>3, <2>6, Zenon DEF Sound, Receipted
  <2>8. Holds(c)'
    <3>1. MarkedFor(i, request)'
      BY <2>3, Zenon DEF MarkedFor
    <3> QED  BY <2>1, <2>2, <2>3, <2>6, <3>1, Zenon DEF Holds
  <2>9. ASSUME NEW d \in Clients \ {c}, task[d] # NoTask, task[d].id = i
        PROVE  Holds(d)'
    <3>1. task[d].step # "insert"
      BY <1>1, <2>5, <2>9, Zenon DEF Holds
    <3>2. task[d].step \in {"destroy", "finish"} => MarkedFor(i, task[d].request)
      BY <1>1, <2>5, <2>9, Zenon DEF Holds, Gone
    <3>3. task[d].step \in {"destroy", "finish"} => task[d].request = request
      BY <1>3, <3>2, Zenon DEF MarkedFor
    <3>4. Holds(d) /\ task'[d] = task[d]
      BY <1>1, <2>3, Zenon
    <3>5. task[d].step \in {"destroy", "finish"} => MarkedFor(i, task[d].request)'
      BY <2>3, <3>3, Zenon DEF MarkedFor
    <3> QED  BY <2>2, <2>9, <3>1, <3>4, <3>5, SMTT(30) DEF Holds
  <2> QED  BY <1>2, <2>1, <2>2, <2>3, <2>4, <2>7, <2>8, <2>9, OthersKeep, Zenon
<1>4. CASE request \in receipts /\ deleted' = deleted \cup {i} /\ UNCHANGED <<mapping, task>>
  <2>1. UNCHANGED <<key, mapping, receipts, known, task>>
    BY <1>4, Zenon DEF MarkPending
  <2>2. task' = [task EXCEPT ![c] = NoTask]
    BY <1>2, <2>1, Zenon DEF IdentityInv, IdentityTypeOK
  <2>3. IdentityTypeOK'
    BY <1>4, <2>1, Zenon DEF IdentityInv, IdentityTypeOK
  <2>4. Sound(i)'
    BY <1>1, <1>4, <2>1, Zenon DEF Sound, Receipted, Gone
  <2>5. \A d \in Clients : Holds(d)'
    BY <1>1, <2>1, SMTT(30) DEF Holds, Receipted, Gone, MarkedFor
  <2> QED  BY <1>2, <1>4, <2>1, <2>2, <2>3, <2>4, <2>5, OthersKeep, Zenon
<1> QED  BY <1>3, <1>4, Zenon DEF MarkPending

\* The receipt is written for the mapping that is marked for it, whose key the caller
\* knows to be destroyed, so no identity has a second one.
LEMMA FinishDeletionKeeps ==
  ASSUME IdentityInv, NEW c \in Clients, FinishDeletion(c)
  PROVE  IdentityInv'
<1>1. task[c] # NoTask /\ task[c].step = "finish" /\ leaked' = {}
  BY DEF FinishDeletion, NoTask, IdentityInv
<1>2. PICK i \in Identities :
        /\ i = task[c].id /\ Sound(i) /\ Holds(c) /\ key[i] # "unused"
        /\ \A d \in Clients \ {c} : task[d] # NoTask /\ task[d].id = i => Holds(d) /\ task[d].step # "insert"
  BY <1>1, AtWork, Zenon
<1>3. PICK r \in RequestsOf[i] : r = task[c].request /\ (MarkedFor(i, r) \/ Gone(i)) /\ key[i] = "destroyed"
  BY <1>1, <1>2, Zenon DEF Holds
<1>4. r # "none" /\ r \in DeletionRequests /\ \A j \in Identities \ {i} : r \notin RequestsOf[j]
  BY <1>3, OneIdentityAssumption, RequestsAreRequests, Zenon
<1>5. task' = [task EXCEPT ![c] = NoTask] /\ UNCHANGED <<key, known>>
  BY Zenon DEF FinishDeletion, End
<1>6. task'[c] = NoTask /\ \A d \in Clients \ {c} : task'[d] = task[d]
  BY <1>5, Zenon DEF IdentityInv, IdentityTypeOK
<1>7. Holds(c)'
  BY <1>6, Zenon DEF Holds
<1>8. CASE /\ mapping[i].request = r
           /\ mapping' = [mapping EXCEPT ![i] = NoMapping]
           /\ receipts' = receipts \cup {r}
           /\ deleted' \in {deleted, deleted \cup {i}}
  <2>1. ~Receipted(i)
    <3>1. ~Gone(i)
      BY <1>4, <1>8 DEF Gone, NoMapping
    <3> QED  BY <1>2, <3>1, Zenon DEF Sound
  <2>2. mapping'[i] = NoMapping /\ \A j \in Identities \ {i} : mapping'[j] = mapping[j]
    BY <1>8, Zenon DEF IdentityInv, IdentityTypeOK
  <2>3. IdentityTypeOK'
    BY <1>4, <1>5, <1>8, Zenon DEF IdentityInv, IdentityTypeOK, MappingRow, NoMapping
  <2>4. RequestsOf[i] \cap receipts' = {r}
    BY <1>8, <2>1, Zenon DEF Receipted
  <2>5. Sound(i)'
    BY <1>3, <1>5, <2>2, <2>4, SMTT(30) DEF Sound, Receipted, Gone, NoMapping
  <2>6. \A d \in Clients \ {c} : task[d] # NoTask /\ task[d].id = i => Holds(d)'
    <3>1. Gone(i)'
      BY <1>3, <1>5, <2>2, Zenon DEF Gone
    <3> QED  BY <1>2, <1>5, <1>6, <3>1, SMTT(30) DEF Holds
  <2>7. \A j \in Identities \ {i} : RequestsOf[j] \cap receipts' = RequestsOf[j] \cap receipts
    BY <1>4, <1>8
  <2>8. \A j \in Identities \ {i} : j \in deleted' <=> j \in deleted
    BY <1>8
  <2> QED  BY <1>1, <1>5, <1>7, <2>2, <2>3, <2>5, <2>6, <2>7, <2>8, OthersKeep, ZenonT(30)
<1>9. CASE UNCHANGED <<mapping, receipts, deleted>>
  BY <1>1, <1>2, <1>5, <1>9, TurningKeeps, Zenon
<1> QED  BY <1>2, <1>3, <1>8, <1>9, Zenon DEF FinishDeletion

\* ErasedForGood, for any identities, requests and callers: what Service deletes is gone
\* and not shown again, and what it created is kept until its deletion was asked for.
THEOREM DeletionErases == IdentitySpec => []ErasedForGood
<1>1. ASSUME IdentityInv, [IdentityNext]_identityVars
      PROVE  IdentityInv'
  <2>1. CASE UNCHANGED identityVars
    <3>1. IdentityTypeOK' /\ leaked' = {}
      BY <1>1, <2>1, Zenon DEF identityVars, IdentityInv, IdentityTypeOK
    <3>2. \A i \in Identities : Sound(i)'
      BY <1>1, <2>1, Zenon DEF identityVars, IdentityInv, Sound, Receipted, Gone
    <3>3. \A c \in Clients : Holds(c)'
      BY <1>1, <2>1, SMTT(30) DEF identityVars, IdentityInv, Holds, Receipted, Gone, MarkedFor
    <3> QED  BY <3>1, <3>2, <3>3 DEF IdentityInv
  <2>2. CASE IdentityNext
    <3>1. PICK c \in Clients :
            \/ \E i \in Identities :
                 \/ Encrypt(c, i) \/ ReadMapping(c, i)
                 \/ \E r \in RequestsOf[i] : MarkPending(c, i, r)
            \/ InsertMapping(c) \/ DiscardKey(c) \/ Decrypt(c)
            \/ DestroyKey(c) \/ FinishDeletion(c) \/ GiveUp(c)
      BY <2>2 DEF IdentityNext
    <3> QED  BY <1>1, <3>1, EncryptKeeps, GetKeeps, MarkPendingKeeps, InsertMappingKeeps, SMTT(30),
                DiscardKeyKeeps, DestroyKeyKeeps, FinishDeletionKeeps
  <2> QED  BY <1>1, <2>1, <2>2
<1> QED  BY <1>1, IdentityInitial, SoundIsErased, PTL DEF IdentitySpec

-----------------------------------------------------------------------------
(* Idempotent execution.                                                   *)

\* A committed record is a completed one: the claim's insert and its completion
\* are writes of the same transaction.
RecordsComplete ==
  \A k \in Keys : idem[k] # NoRecord =>
    idem[k].state = "SUCCEEDED" /\ idem[k].hash \in Requests /\ idem[k].response \in Ids

\* An identifier is in one place: with one running call, with one undecided
\* transaction, or with one effect.
IdsInOnePlace ==
  /\ \A e \in effects : e.id \in used
  /\ \A t \in inflight : t.id \in used /\ \A e \in effects : e.id # t.id
  /\ \A t \in inflight, u \in inflight : t.id = u.id => t = u
  /\ \A c \in Callers : call[c].pc = "running" =>
       /\ call[c].id \in used
       /\ \A e \in effects : e.id # call[c].id
       /\ \A t \in inflight : t.id # call[c].id
       /\ \A d \in Callers : call[d].pc = "running" /\ call[d].id = call[c].id => d = c

ExecutionInv ==
  /\ TypeOK
  /\ RecordsComplete
  /\ RecordedExactlyOnce
  /\ AnswersAreTrue
  /\ IdsAreUnique
  /\ IdsInOnePlace

-----------------------------------------------------------------------------
\* With no call made, nothing is recorded anywhere.
LEMMA InitIInv == Init => ExecutionInv
<1> SUFFICES ASSUME Init PROVE ExecutionInv
  OBVIOUS
<1>1. TypeOK
  BY DEF Init, TypeOK, NoRecord, Record
<1>2. RecordsComplete /\ RecordedExactlyOnce /\ AnswersAreTrue
  BY Zenon DEF Init, RecordsComplete, RecordedExactlyOnce, AnswersAreTrue, NoRecord
<1>3. IdsAreUnique /\ IdsInOnePlace
  BY Zenon DEF Init, IdsAreUnique, IdsInOnePlace, Idle
<1> QED
  BY <1>1, <1>2, <1>3 DEF ExecutionInv

\* A running call is a full call record.
LEMMA RunningCall ==
  ASSUME TypeOK, NEW c \in Callers, call[c].pc = "running"
  PROVE  /\ call[c] \in CallRecord /\ call[c].key \in Keys
         /\ call[c].req \in Requests /\ call[c].id \in Ids
<1>1. Idle.pc # "running"
  BY DEF Idle
<1>2. call[c] \in CallRecord
  BY <1>1 DEF TypeOK
<1> QED
  BY <1>2, Zenon DEF CallRecord

\* A transaction that acquires its key and passes Complete found no record: the
\* only other record it could hold is a terminal one.
LEMMA AcquireMeansAbsent ==
  ASSUME TypeOK, RecordsComplete, NEW c \in Callers, call[c].pc = "running", Acquires(c)
  PROVE  idem[call[c].key] = NoRecord
<1>1. call[c].key \in Keys
  BY RunningCall
<1> DEFINE rec == idem[call[c].key]
<1> SUFFICES ASSUME rec # NoRecord PROVE FALSE
  OBVIOUS
<1>2. rec.state = "SUCCEEDED"
  BY <1>1, Zenon DEF RecordsComplete
<1>3. Held(call[c].key, call[c].req, call[c].id) = rec
  BY <1>2, Zenon DEF Held, TakenOver, Claimed
<1> QED
  BY <1>2, <1>3, Zenon DEF Acquires, CompleteAllowed

\* What Apply writes over an absent record.
LEMMA ApplyWrites ==
  ASSUME NEW k \in Keys, NEW q \in Requests, NEW id \in Ids,
         TypeOK, idem[k] = NoRecord, Apply(k, q, id)
  PROVE  /\ idem' = [idem EXCEPT ![k] = [hash |-> q, state |-> "SUCCEEDED",
                                         owner |-> id, response |-> id]]
         /\ effects' = effects \cup {Done(k, q, id)}
         /\ outbox' = outbox \cup {[event |-> id, key |-> k]}
<1> DEFINE claim == [hash |-> q, state |-> "PROCESSING", owner |-> id, response |-> "none"]
           new == [hash |-> q, state |-> "SUCCEEDED", owner |-> id, response |-> id]
<1>1. Claimed(idem[k], q, id) = claim
  BY DEF Claimed
<1>2. TakenOver(claim, id) = claim
  BY DEF TakenOver
<1>3. Completed(claim, id) = new
  BY DEF Completed
<1>4. Completed(Held(k, q, id), id) = new
  BY <1>1, <1>2, <1>3, Zenon DEF Held
<1> HIDE DEF new
<1> QED
  BY <1>4, Zenon DEF Apply, new

\* Applying a transaction with identifiers of its own over an absent record keeps
\* records, effects and events in correspondence.
LEMMA ApplyKeeps ==
  ASSUME NEW k \in Keys, NEW q \in Requests, NEW id \in Ids,
         TypeOK, RecordsComplete, RecordedExactlyOnce, AnswersAreTrue, IdsAreUnique,
         idem[k] = NoRecord, \A e \in effects : e.id # id, Apply(k, q, id)
  PROVE  /\ idem' \in [Keys -> Record] /\ effects' \subseteq DoneRecord
         /\ outbox' \subseteq [event : Ids, key : Keys]
         /\ RecordsComplete' /\ RecordedExactlyOnce' /\ IdsAreUnique'
         /\ effects' = effects \cup {Done(k, q, id)}
<1> DEFINE new == [hash |-> q, state |-> "SUCCEEDED", owner |-> id, response |-> id]
<1>1. /\ idem' = [idem EXCEPT ![k] = new]
      /\ effects' = effects \cup {Done(k, q, id)}
      /\ outbox' = outbox \cup {[event |-> id, key |-> k]}
  BY ApplyWrites, Zenon
<1>2. new \in Record /\ new # NoRecord
  BY DEF Record, NoRecord
<1>3. idem' \in [Keys -> Record]
  BY <1>1, <1>2, Zenon DEF TypeOK
<1>4. Done(k, q, id) \in DoneRecord
  BY DEF Done, DoneRecord
<1>5. effects' \subseteq DoneRecord /\ outbox' \subseteq [event : Ids, key : Keys]
  BY <1>1, <1>4 DEF TypeOK
<1>6. RecordsComplete'
  BY <1>1, <1>2, Zenon DEF TypeOK, RecordsComplete
<1>7. \A e \in effects : e.key # k
  <2>1. NoRecord.state # "SUCCEEDED"
    BY DEF NoRecord
  <2> QED
    BY <2>1, Zenon DEF RecordedExactlyOnce
<1>8. RecordedExactlyOnce'
  <2>1. \A e \in effects' : idem'[e.key].state = "SUCCEEDED"
                            /\ e = Done(e.key, idem'[e.key].hash, idem'[e.key].response)
    BY <1>1, <1>7 DEF TypeOK, RecordedExactlyOnce, Done, DoneRecord
  <2>2. \A j \in Keys : idem'[j] # NoRecord =>
                          Done(j, idem'[j].hash, idem'[j].response) \in effects'
    BY <1>1, Zenon DEF TypeOK, RecordedExactlyOnce
  <2>3. outbox' = {[event |-> e.id, key |-> e.key] : e \in effects'}
    <3>1. Done(k, q, id).id = id /\ Done(k, q, id).key = k
      BY DEF Done
    <3> QED
      BY <1>1, <3>1 DEF RecordedExactlyOnce
  <2> QED
    BY <2>1, <2>2, <2>3, Zenon DEF RecordedExactlyOnce
<1>9. IdsAreUnique'
  BY <1>1 DEF IdsAreUnique, Done
<1> QED
  BY <1>1, <1>3, <1>5, <1>6, <1>8, <1>9, Zenon

-----------------------------------------------------------------------------
\* A new call draws an identifier nobody has.
LEMMA BeginIInv ==
  ASSUME ExecutionInv, NEW c \in Callers, NEW k \in Keys, NEW q \in Requests, NEW id \in Ids,
         Begin(c, k, q, id)
  PROVE  ExecutionInv'
<1> DEFINE new == [pc |-> "running", key |-> k, req |-> q, id |-> id, attempts |-> 0]
<1>1. /\ id \notin used /\ used' = used \cup {id}
      /\ call' = [call EXCEPT ![c] = new]
      /\ UNCHANGED <<idem, effects, outbox, inflight, answers>>
  BY Zenon DEF Begin, Fresh
<1>2. new \in CallRecord
  BY MaxAttemptsAssumption DEF CallRecord
<1>3. TypeOK'
  BY <1>1, <1>2, Zenon DEF ExecutionInv, TypeOK
<1>4. RecordsComplete' /\ RecordedExactlyOnce' /\ AnswersAreTrue' /\ IdsAreUnique'
  BY <1>1, Zenon DEF ExecutionInv, RecordsComplete, RecordedExactlyOnce, AnswersAreTrue, IdsAreUnique
<1>5. IdsInOnePlace'
  BY <1>1 DEF ExecutionInv, TypeOK, IdsInOnePlace
<1> QED
  BY <1>3, <1>4, <1>5, Zenon DEF ExecutionInv

\* A call that ends without writing releases its identifiers to nobody.
LEMMA QuietIInv ==
  ASSUME ExecutionInv, NEW c \in Callers, Finish(c),
         UNCHANGED <<idem, effects, outbox, used, inflight>>,
         answers' \subseteq effects
  PROVE  ExecutionInv'
<1>1. call' = [call EXCEPT ![c] = Idle]
  BY DEF Finish
<1>2. TypeOK'
  BY <1>1, Zenon DEF ExecutionInv, TypeOK
<1>3. RecordsComplete' /\ RecordedExactlyOnce' /\ AnswersAreTrue' /\ IdsAreUnique'
  BY Zenon DEF ExecutionInv, RecordsComplete, RecordedExactlyOnce, AnswersAreTrue, IdsAreUnique
<1>4. IdsInOnePlace'
  <2>1. Idle.pc # "running"
    BY DEF Idle
  <2> QED
    BY <1>1, <2>1 DEF ExecutionInv, TypeOK, IdsInOnePlace
<1> QED
  BY <1>2, <1>3, <1>4, Zenon DEF ExecutionInv

\* A commit whose reply arrives performs the key's one effect and reports it.
LEMMA CommitIInv ==
  ASSUME ExecutionInv, NEW c \in Callers, Commit(c)
  PROVE  ExecutionInv'
<1> DEFINE k == call[c].key
           q == call[c].req
           id == call[c].id
<1>1. /\ call[c].pc = "running" /\ Acquires(c) /\ Apply(k, q, id)
      /\ answers' = answers \cup {Done(k, q, id)}
      /\ call' = [call EXCEPT ![c] = Idle]
      /\ used' = used /\ inflight' = inflight
  BY Zenon DEF Commit, Finish
<1>2. k \in Keys /\ q \in Requests /\ id \in Ids
  BY <1>1, RunningCall, Zenon DEF ExecutionInv
<1>3. idem[k] = NoRecord
  BY <1>1, AcquireMeansAbsent, Zenon DEF ExecutionInv
<1>4. \A e \in effects : e.id # id
  BY <1>1, Zenon DEF ExecutionInv, IdsInOnePlace
<1>5. /\ idem' \in [Keys -> Record] /\ effects' \subseteq DoneRecord
      /\ outbox' \subseteq [event : Ids, key : Keys]
      /\ RecordsComplete' /\ RecordedExactlyOnce' /\ IdsAreUnique'
      /\ effects' = effects \cup {Done(k, q, id)}
  <2> HIDE DEF k, q, id
  <2> QED
    BY <1>1, <1>2, <1>3, <1>4, ApplyKeeps, Zenon DEF ExecutionInv
<1>6. AnswersAreTrue'
  BY <1>1, <1>5, Zenon DEF ExecutionInv, AnswersAreTrue
<1>7. TypeOK'
  <2>1. answers' \subseteq DoneRecord
    BY <1>5, <1>6, Zenon DEF AnswersAreTrue
  <2> QED
    BY <1>1, <1>5, <2>1, Zenon DEF ExecutionInv, TypeOK
<1>8. IdsInOnePlace'
  <2>1. Idle.pc # "running" /\ Done(k, q, id).id = id
    BY Zenon DEF Idle, Done
  <2> HIDE DEF k, q
  <2> QED
    BY <1>1, <1>5, <2>1 DEF ExecutionInv, TypeOK, IdsInOnePlace
<1> QED
  BY <1>5, <1>6, <1>7, <1>8, Zenon DEF ExecutionInv

\* A lost reply leaves an undecided transaction that owns the call's identifiers.
LEMMA LoseReplyIInv ==
  ASSUME ExecutionInv, NEW c \in Callers, LoseReply(c)
  PROVE  ExecutionInv'
<1> DEFINE t == Done(call[c].key, call[c].req, call[c].id)
<1>1. /\ call[c].pc = "running"
      /\ inflight' = inflight \cup {t}
      /\ call' = [call EXCEPT ![c] = Idle]
      /\ UNCHANGED <<idem, effects, outbox, used, answers>>
  BY Zenon DEF LoseReply, Finish
<1>2. t \in DoneRecord /\ t.id = call[c].id
  BY <1>1, RunningCall, Zenon DEF ExecutionInv, Done, DoneRecord
<1> HIDE DEF t
<1>3. TypeOK'
  BY <1>1, <1>2, Zenon DEF ExecutionInv, TypeOK
<1>4. RecordsComplete' /\ RecordedExactlyOnce' /\ AnswersAreTrue' /\ IdsAreUnique'
  BY <1>1, Zenon DEF ExecutionInv, RecordsComplete, RecordedExactlyOnce, AnswersAreTrue, IdsAreUnique
<1>5. IdsInOnePlace'
  <2>1. Idle.pc # "running"
    BY DEF Idle
  <2> QED
    BY <1>1, <1>2, <2>1 DEF ExecutionInv, TypeOK, IdsInOnePlace
<1> QED
  BY <1>3, <1>4, <1>5, Zenon DEF ExecutionInv

\* An undecided transaction that lands performs the key's one effect.
LEMMA LandIInv ==
  ASSUME ExecutionInv, NEW t \in inflight, Land(t)
  PROVE  ExecutionInv'
<1>1. /\ idem[t.key] = NoRecord /\ Apply(t.key, t.req, t.id)
      /\ inflight' = inflight \ {t}
      /\ UNCHANGED <<used, call, answers>>
  BY DEF Land
<1>2. /\ t.key \in Keys /\ t.req \in Requests /\ t.id \in Ids
      /\ t = Done(t.key, t.req, t.id)
  BY Zenon DEF ExecutionInv, TypeOK, DoneRecord, Done
<1>3. \A e \in effects : e.id # t.id
  BY Zenon DEF ExecutionInv, IdsInOnePlace
<1>4. /\ idem' \in [Keys -> Record] /\ effects' \subseteq DoneRecord
      /\ outbox' \subseteq [event : Ids, key : Keys]
      /\ RecordsComplete' /\ RecordedExactlyOnce' /\ IdsAreUnique'
      /\ effects' = effects \cup {t}
  BY <1>1, <1>2, <1>3, ApplyKeeps, Zenon DEF ExecutionInv
<1>5. AnswersAreTrue'
  BY <1>1, <1>4, Zenon DEF ExecutionInv, AnswersAreTrue
<1>6. TypeOK'
  BY <1>1, <1>4, Zenon DEF ExecutionInv, TypeOK
<1>7. IdsInOnePlace'
  BY <1>1, <1>4 DEF ExecutionInv, TypeOK, IdsInOnePlace
<1> QED
  BY <1>4, <1>5, <1>6, <1>7, Zenon DEF ExecutionInv

\* One more attempt changes nothing but the attempt count.
LEMMA SerializationFailureIInv ==
  ASSUME ExecutionInv, NEW c \in Callers, SerializationFailure(c)
  PROVE  ExecutionInv'
<1>1. /\ call[c].pc = "running"
      /\ UNCHANGED <<idem, effects, outbox, used, inflight, answers>>
  BY DEF SerializationFailure
<1>2. call[c] \in CallRecord
  BY <1>1, RunningCall, Zenon DEF ExecutionInv
<1>3. CASE call[c].attempts + 1 < MaxAttempts
  <2> DEFINE new == [call[c] EXCEPT !.attempts = call[c].attempts + 1]
  <2>1. call' = [call EXCEPT ![c] = new]
    BY <1>3 DEF SerializationFailure, NextAttempt
  <2>2. new \in CallRecord /\ new.id = call[c].id /\ new.pc = "running"
    BY <1>2, <1>3, MaxAttemptsAssumption DEF CallRecord
  <2> HIDE DEF new
  <2>3. TypeOK'
    BY <1>1, <2>1, <2>2, Zenon DEF ExecutionInv, TypeOK
  <2>4. RecordsComplete' /\ RecordedExactlyOnce' /\ AnswersAreTrue' /\ IdsAreUnique'
    BY <1>1, Zenon DEF ExecutionInv, RecordsComplete, RecordedExactlyOnce, AnswersAreTrue, IdsAreUnique
  <2>5. IdsInOnePlace'
    BY <1>1, <2>1, <2>2 DEF ExecutionInv, TypeOK, IdsInOnePlace
  <2> QED
    BY <2>3, <2>4, <2>5, Zenon DEF ExecutionInv
<1>4. CASE ~(call[c].attempts + 1 < MaxAttempts)
  <2>1. Finish(c)
    BY <1>4 DEF SerializationFailure, NextAttempt, Finish
  <2> QED
    BY <1>1, <2>1, QuietIInv, Zenon DEF ExecutionInv, AnswersAreTrue
<1> QED
  BY <1>3, <1>4

\* A replayed response is the stored one, which an effect backs.
LEMMA ReplayIInv ==
  ASSUME ExecutionInv, NEW c \in Callers, Replay(c)
  PROVE  ExecutionInv'
<1> DEFINE rec == idem[call[c].key]
<1>1. /\ call[c].pc = "running" /\ Outcome(c, FALSE) = "CACHED"
      /\ rec.state = "SUCCEEDED"
      /\ answers' = answers \cup {Done(call[c].key, call[c].req, rec.response)}
      /\ Finish(c)
      /\ UNCHANGED <<idem, effects, outbox, used, inflight>>
  BY Zenon DEF Replay
<1>2. call[c].key \in Keys
  BY <1>1, RunningCall, Zenon DEF ExecutionInv
<1>3. rec # NoRecord
  BY <1>1 DEF NoRecord
<1>4. rec.hash = call[c].req
  <2>1. Claimed(rec, call[c].req, call[c].id) = rec
    BY <1>3, Zenon DEF Claimed
  <2> QED
    BY <1>1, <2>1, Zenon DEF Outcome, ClaimOutcome
<1>5. Done(call[c].key, call[c].req, rec.response) \in effects
  BY <1>2, <1>3, <1>4, Zenon DEF ExecutionInv, RecordedExactlyOnce
<1> QED
  BY <1>1, <1>5, QuietIInv, Zenon DEF ExecutionInv, AnswersAreTrue

\* Every step keeps ExecutionInv.
LEMMA NextIInv == ExecutionInv /\ [Next]_vars => ExecutionInv'
<1> SUFFICES ASSUME ExecutionInv, [Next]_vars PROVE ExecutionInv'
  OBVIOUS
<1>1. ASSUME NEW c \in Callers, NEW k \in Keys, NEW q \in Requests, NEW id \in Ids,
             Begin(c, k, q, id)
      PROVE  ExecutionInv'
  BY <1>1, BeginIInv
<1>2. ASSUME NEW c \in Callers, Handle(c)
      PROVE  ExecutionInv'
  <2>1. CASE Commit(c)
    BY <2>1, CommitIInv
  <2>2. CASE Replay(c)
    BY <2>2, ReplayIInv
  <2>3. CASE Refuse(c)
    BY <2>3, QuietIInv, Zenon DEF Refuse, ExecutionInv, AnswersAreTrue
  <2>4. CASE LoseReply(c)
    BY <2>4, LoseReplyIInv
  <2>5. CASE SerializationFailure(c)
    BY <2>5, SerializationFailureIInv
  <2> QED
    BY <1>2, <2>1, <2>2, <2>3, <2>4, <2>5, Zenon DEF Handle
<1>3. ASSUME NEW t \in inflight, Land(t) \/ Vanish(t)
      PROVE  ExecutionInv'
  <2>1. CASE Land(t)
    BY <2>1, LandIInv
  <2>2. CASE Vanish(t)
    <3>1. /\ inflight' = inflight \ {t}
          /\ UNCHANGED <<idem, effects, outbox, used, call, answers>>
      BY <2>2 DEF Vanish
    <3>2. TypeOK'
      BY <3>1, Zenon DEF ExecutionInv, TypeOK
    <3>3. RecordsComplete' /\ RecordedExactlyOnce' /\ AnswersAreTrue' /\ IdsAreUnique'
      BY <3>1, Zenon DEF ExecutionInv, RecordsComplete, RecordedExactlyOnce, AnswersAreTrue, IdsAreUnique
    <3>4. IdsInOnePlace'
      BY <3>1, Zenon DEF ExecutionInv, IdsInOnePlace
    <3> QED
      BY <3>2, <3>3, <3>4, Zenon DEF ExecutionInv
  <2> QED
    BY <1>3, <2>1, <2>2
<1>4. CASE UNCHANGED vars
  BY <1>4 DEF vars, ExecutionInv, TypeOK, RecordsComplete, RecordedExactlyOnce, AnswersAreTrue,
              IdsAreUnique, IdsInOnePlace
<1> QED
  BY <1>1, <1>2, <1>3, <1>4, Zenon DEF Next

-----------------------------------------------------------------------------
\* ExecutionInv is an invariant of the specification.
LEMMA IInvHolds == Spec => []ExecutionInv
  BY InitIInv, NextIInv, PTL DEF Spec

\* The tables and the calls always have their types; no call exceeds the attempt
\* budget of RunSerializable.
THEOREM ExecutionTypeOK == Spec => []TypeOK
<1>1. ExecutionInv => TypeOK
  BY DEF ExecutionInv
<1> QED
  BY <1>1, IInvHolds, PTL

\* However many callers repeat a key, and whichever replies are lost, effects,
\* idempotency records and outbox events stay in exact correspondence.
THEOREM ExecutionRecordedExactlyOnce == Spec => []RecordedExactlyOnce
<1>1. ExecutionInv => RecordedExactlyOnce
  BY DEF ExecutionInv
<1> QED
  BY <1>1, IInvHolds, PTL

\* Every success reported to a caller is a committed effect of its request.
THEOREM ExecutionAnswersAreTrue == Spec => []AnswersAreTrue
<1>1. ExecutionInv => AnswersAreTrue
  BY DEF ExecutionInv
<1> QED
  BY <1>1, IInvHolds, PTL

\* No two effects share an identifier.
THEOREM ExecutionIdsAreUnique == Spec => []IdsAreUnique
<1>1. ExecutionInv => IdsAreUnique
  BY DEF ExecutionInv
<1> QED
  BY <1>1, IInvHolds, PTL

-----------------------------------------------------------------------------
\* The refinement mapping of module ExactlyOnce, as a definition.
performed == [k \in Keys |-> [req |-> idem[k].hash, id |-> idem[k].response]]

\* A transaction that acquires its key performs it, in the abstract sense.
LEMMA ApplyPerforms ==
  ASSUME ExecutionInv, NEW k \in Keys, NEW q \in Requests, NEW id \in Ids,
         idem[k] = NoRecord, Apply(k, q, id), \A e \in effects : e.id # id
  PROVE  Promise!Perform(k, q, id)
<1>1. idem' = [idem EXCEPT ![k] = [hash |-> q, state |-> "SUCCEEDED", owner |-> id,
                                   response |-> id]]
  BY ApplyWrites, Zenon DEF ExecutionInv
<1>2. performed[k] = Promise!Nothing
  BY DEF performed, NoRecord, Promise!Nothing
<1>3. \A j \in Keys : performed[j].id # id
  <2> SUFFICES ASSUME NEW j \in Keys PROVE idem[j].response # id
    BY Zenon DEF performed
  <2>1. CASE idem[j] = NoRecord
    BY <2>1, NoneIsNoValue DEF NoRecord
  <2>2. CASE idem[j] # NoRecord
    BY <2>2, Zenon DEF ExecutionInv, RecordedExactlyOnce, Done
  <2> QED
    BY <2>1, <2>2, Zenon
<1>4. performed' = [performed EXCEPT ![k] = [req |-> q, id |-> id]]
  BY <1>1, Zenon DEF performed, ExecutionInv, TypeOK
<1> QED
  BY <1>2, <1>3, <1>4, Zenon DEF performed, Promise!Perform

\* Every step maps to a step of ExactlyOnce or leaves what it shows unchanged.
LEMMA NextRefines == ExecutionInv /\ [Next]_vars => [Promise!Next]_<<performed, answers>>
<1> SUFFICES ASSUME ExecutionInv, [Next]_vars, ~UNCHANGED <<performed, answers>>
             PROVE  Promise!Next
  OBVIOUS
<1>1. ASSUME UNCHANGED <<idem, answers>> PROVE FALSE
  BY <1>1 DEF performed
<1>2. ASSUME NEW c \in Callers, Handle(c)
      PROVE  Promise!Next
  <2>1. call[c].pc = "running"
    BY <1>2, Zenon DEF Handle, Commit, Replay, Refuse, LoseReply, SerializationFailure
  <2>2. PICK k \in Keys, q \in Requests, id \in Ids :
               k = call[c].key /\ q = call[c].req /\ id = call[c].id
    BY <2>1, RunningCall, Zenon DEF ExecutionInv
  <2>3. CASE Commit(c)
    <3>1. idem[k] = NoRecord
      BY <2>1, <2>2, <2>3, AcquireMeansAbsent, Zenon DEF Commit, ExecutionInv
    <3>2. \A e \in effects : e.id # id
      BY <2>1, <2>2, Zenon DEF ExecutionInv, IdsInOnePlace
    <3>3. Apply(k, q, id) /\ answers' = answers \cup {Done(k, q, id)}
      BY <2>2, <2>3, Zenon DEF Commit
    <3>4. Promise!Perform(k, q, id)
      BY <3>1, <3>2, <3>3, ApplyPerforms, Zenon
    <3>5. Promise!AndReport(k, q, id)
      BY <3>3, <3>4, Zenon DEF Promise!AndReport, Promise!Report, Done
    <3> QED
      BY <3>5 DEF Promise!Next
  <2>4. CASE Replay(c)
    <3>0. PICK r : r = idem[k].response
      OBVIOUS
    <3>1. /\ idem[k].state = "SUCCEEDED" /\ Outcome(c, FALSE) = "CACHED"
          /\ answers' = answers \cup {Done(k, q, r)}
          /\ UNCHANGED idem
      BY <2>2, <2>4, <3>0, Zenon DEF Replay
    <3>2. idem[k] # NoRecord
      BY <3>1 DEF NoRecord
    <3>3. Claimed(idem[k], q, id) = idem[k]
      BY <3>2, Zenon DEF Claimed
    <3>4. idem[k].hash = q
      BY <2>2, <3>1, <3>3, Zenon DEF Outcome, ClaimOutcome
    <3>5. r \in Ids
      BY <3>0, <3>2, Zenon DEF ExecutionInv, RecordsComplete
    <3>6. performed[k] = [req |-> q, id |-> r] /\ UNCHANGED performed
      BY <3>0, <3>1, <3>4, Zenon DEF performed
    <3>7. Promise!ReportAgain(k, q, r)
      BY <3>1, <3>6, Zenon DEF Promise!ReportAgain, Promise!Report, Done, performed
    <3> QED
      BY <3>5, <3>7, Zenon DEF Promise!Next
  <2>5. CASE Refuse(c) \/ LoseReply(c) \/ SerializationFailure(c)
    BY <1>1, <2>5, Zenon DEF Refuse, LoseReply, SerializationFailure
  <2> QED
    BY <1>2, <2>3, <2>4, <2>5, Zenon DEF Handle
<1>3. ASSUME NEW t \in inflight, Land(t)
      PROVE  Promise!Next
  <2>1. /\ idem[t.key] = NoRecord /\ Apply(t.key, t.req, t.id) /\ UNCHANGED answers
    BY <1>3 DEF Land
  <2>2. t.key \in Keys /\ t.req \in Requests /\ t.id \in Ids
    BY Zenon DEF ExecutionInv, TypeOK, DoneRecord
  <2>3. \A e \in effects : e.id # t.id
    BY Zenon DEF ExecutionInv, IdsInOnePlace
  <2>4. Promise!Perform(t.key, t.req, t.id)
    BY <2>1, <2>2, <2>3, ApplyPerforms, Zenon
  <2>5. Promise!Silently(t.key, t.req, t.id)
    BY <2>1, <2>4, Zenon DEF Promise!Silently
  <2> QED
    BY <2>2, <2>5, Zenon DEF Promise!Next
<1>4. ASSUME NEW t \in inflight, Vanish(t)
      PROVE  FALSE
  BY <1>1, <1>4 DEF Vanish
<1>5. ASSUME NEW c \in Callers, NEW k \in Keys, NEW q \in Requests, NEW id \in Ids,
             Begin(c, k, q, id)
      PROVE  FALSE
  BY <1>1, <1>5, Zenon DEF Begin, Fresh
<1>6. CASE UNCHANGED vars
  BY <1>1, <1>6, Zenon DEF vars
<1> QED
  BY <1>2, <1>3, <1>4, <1>5, <1>6, Zenon DEF Next

\* execute implements ExactlyOnce: at most one effect per key, and no success is
\* reported that is not that effect.
THEOREM ExecutionKeepsPromise == Spec => KeepsPromise
<1>1. Init => Promise!Init
  BY DEF Init, Promise!Init, Promise!Nothing, NoRecord
<1>2. ExecutionInv /\ [Next]_vars => [Promise!Next]_<<performed, answers>>
  BY NextRefines
<1> QED
  BY <1>1, <1>2, IInvHolds, PTL DEF Spec, KeepsPromise, Promise!Spec, performed

-----------------------------------------------------------------------------
(* External rails.                                                         *)

RailsSpec == InitRails /\ [][RailsNext]_railsVars

Answers == {"none", "UNKNOWN"} \cup Final

Row == [status : {"NONE", "IN_FLIGHT", "UNKNOWN"} \cup Final, payload : Payloads \cup {"none"}, token : Nat]

ProviderRow == [outcome : {"NONE"} \cup Final, payload : Payloads \cup {"none"}, ready : BOOLEAN]

CallRow == [step : {"submit", "lookup", "claim", "persist"}, op : Operations, token : Nat, answer : Answers]

RailsTypeOK ==
  /\ attempt \in [Operations -> Row]
  /\ record \in [Operations -> ProviderRow]
  /\ job \in [Workers -> {NoCall} \cup CallRow]
  /\ told \subseteq Operations \X (Payloads \cup {"none"}) \X Final

\* A worker that is at work has an intent, and has something to record only once the
\* provider was called.
WorkHasIntent ==
  \A w \in Workers :
    job[w] # NoCall =>
      /\ attempt[job[w].op].status # "NONE"
      /\ job[w].step = "persist" => job[w].answer # "none"

\* A final answer on its way to the database is what the provider has settled.
AnswersAreSettled ==
  \A w \in Workers :
    job[w] # NoCall /\ job[w].step = "persist" /\ job[w].answer \in Final =>
      record[job[w].op].ready /\ record[job[w].op].outcome = job[w].answer

\* A final row is what the provider has settled, and no record is without its intent.
RowsAreSettled ==
  \A o \in Operations :
    /\ attempt[o].status = "NONE" => attempt[o] = NoAttempt
    /\ attempt[o].status \in Final => record[o].ready /\ record[o].outcome = attempt[o].status
    /\ record[o] # NoRecordYet =>
         /\ attempt[o].status # "NONE"
         /\ record[o].payload = attempt[o].payload
         /\ record[o].outcome \in Final

ToldIsTrue == \A t \in told : attempt[t[1]].payload = t[2] /\ attempt[t[1]].status = t[3]

RailsInv == RailsTypeOK /\ WorkHasIntent /\ AnswersAreSettled /\ RowsAreSettled /\ ToldIsTrue

-----------------------------------------------------------------------------
\* What a provider that is called leaves and answers: a record that is settled stays,
\* and a final answer is the record's.
LEMMA ProviderSettles ==
  ASSUME RailsTypeOK, RowsAreSettled, NEW o \in Operations, attempt[o].status # "NONE",
         NEW x \in SubmitOutcomes(o) \cup LookupOutcomes(o)
  PROVE  /\ x.record \in ProviderRow
         /\ x.answer \in Answers \ {"none"}
         /\ x.answer \in Final => x.record.ready /\ x.record.outcome = x.answer
         /\ record[o].ready => x.record = record[o]
         /\ x.record # NoRecordYet => x.record.payload = attempt[o].payload /\ x.record.outcome \in Final
<1>1. record[o] \in ProviderRow /\ attempt[o] \in Row
  BY DEF RailsTypeOK
<1>2. /\ record[o].ready => record[o] # NoRecordYet
      /\ record[o] # NoRecordYet => record[o].payload = attempt[o].payload /\ record[o].outcome \in Final
  BY DEF RowsAreSettled, NoRecordYet
<1>3. CASE x \in SubmitOutcomes(o)
  <2>1. CASE record[o].ready
    BY <1>1, <1>2, <1>3, <2>1 DEF SubmitOutcomes, Answers, Final
  <2>2. CASE ~record[o].ready
    <3> DEFINE row(outcome, ready) == [outcome |-> outcome, payload |-> attempt[o].payload, ready |-> ready]
    <3>1. attempt[o].payload \in Payloads \cup {"none"}
      BY <1>1 DEF Row
    <3>2. \/ x = [record |-> row("SUCCEEDED", TRUE), answer |-> "SUCCEEDED"]
          \/ x = [record |-> row("SUCCEEDED", TRUE), answer |-> "UNKNOWN"]
          \/ x = [record |-> row("FAILED", TRUE), answer |-> "FAILED"]
          \/ x = [record |-> record[o], answer |-> "UNKNOWN"]
          \/ x = [record |-> row("SUCCEEDED", FALSE), answer |-> "UNKNOWN"]
      BY <1>3, <2>2 DEF SubmitOutcomes, Settled
    <3>3. ASSUME NEW outcome \in Final, NEW ready \in BOOLEAN, NEW answer \in {outcome, "UNKNOWN"},
                 answer = outcome => ready,
                 x = [record |-> row(outcome, ready), answer |-> answer]
          PROVE  /\ x.record \in ProviderRow
                 /\ x.answer \in Answers \ {"none"}
                 /\ x.answer \in Final => x.record.ready /\ x.record.outcome = x.answer
                 /\ x.record.payload = attempt[o].payload /\ x.record.outcome \in Final
      BY <3>1, <3>3, Zenon DEF ProviderRow, Final, Answers
    <3>4. "SUCCEEDED" \in Final /\ "FAILED" \in Final /\ "UNKNOWN" \in Answers \ {"none"} /\ "UNKNOWN" \notin Final
      BY DEF Final, Answers
    <3> HIDE DEF row
    <3>5. CASE x = [record |-> record[o], answer |-> "UNKNOWN"]
      BY <1>1, <1>2, <2>2, <3>4, <3>5, Zenon
    <3>6. CASE x = [record |-> row("SUCCEEDED", TRUE), answer |-> "SUCCEEDED"]
      BY <2>2, <3>3, <3>4, <3>6, Zenon
    <3>7. CASE x = [record |-> row("SUCCEEDED", TRUE), answer |-> "UNKNOWN"]
      BY <2>2, <3>3, <3>4, <3>7, Zenon
    <3>8. CASE x = [record |-> row("FAILED", TRUE), answer |-> "FAILED"]
      BY <2>2, <3>3, <3>4, <3>8, Zenon
    <3>9. CASE x = [record |-> row("SUCCEEDED", FALSE), answer |-> "UNKNOWN"]
      BY <2>2, <3>3, <3>4, <3>9, Zenon
    <3> QED  BY <3>2, <3>5, <3>6, <3>7, <3>8, <3>9, Zenon
  <2> QED  BY <2>1, <2>2, Zenon
<1>4. CASE x \in LookupOutcomes(o)
  <2>1. PICK r \in {record[o], [record[o] EXCEPT !.ready = TRUE]} :
          /\ x = [record |-> r, answer |-> IF r.ready THEN r.outcome ELSE "UNKNOWN"]
          /\ record[o] = NoRecordYet => r = record[o]
    BY <1>4, Zenon DEF LookupOutcomes
  <2>2. /\ r \in ProviderRow /\ r.payload = record[o].payload /\ r.outcome = record[o].outcome
        /\ record[o].ready => r = record[o]
    BY <1>1, Zenon DEF ProviderRow
  <2>3. x.record = r /\ x.answer = IF r.ready THEN r.outcome ELSE "UNKNOWN"
    BY <2>1
  <2>4. r # NoRecordYet => record[o] # NoRecordYet
    BY <2>1
  <2>5. r.ready => r # NoRecordYet
    BY DEF NoRecordYet
  <2> QED  BY <1>2, <2>2, <2>3, <2>4, <2>5, Zenon DEF Answers, Final
<1> QED  BY <1>3, <1>4, Zenon

\* There is no intent, no record and no call.
LEMMA RailsInitial == InitRails => RailsInv
BY DEF InitRails, RailsInv, RailsTypeOK, WorkHasIntent, AnswersAreSettled, RowsAreSettled, ToldIsTrue,
       NoAttempt, NoRecordYet, NoCall, Row, ProviderRow, Final

\* A worker that ends leaves the invariant, when the rows it leaves do and it tells no
\* more than its row says.
LEMMA EndingKeeps ==
  ASSUME RailsInv, NEW w \in Workers, NEW o \in Operations,
         job' = [job EXCEPT ![w] = NoCall],
         record' = record,
         attempt' \in [Operations -> Row],
         \A p \in Operations : attempt[p].status # "NONE" => attempt'[p].status # "NONE",
         RowsAreSettled',
         told' \subseteq told \cup {<<o, attempt'[o].payload, status>> : status \in Final \cap {attempt'[o].status}},
         \A p \in Operations : attempt[p].status \in Final => attempt'[p] = attempt[p]
  PROVE  RailsInv'
<1>1. RailsTypeOK'
  BY DEF RailsInv, RailsTypeOK, Row
<1>2. \A v \in Workers : job'[v] # NoCall => job'[v] = job[v]
  BY Zenon DEF RailsInv, RailsTypeOK
<1>3. \A v \in Workers : job[v] # NoCall => job[v].op \in Operations
  BY Zenon DEF RailsInv, RailsTypeOK, CallRow
<1>4. WorkHasIntent'
  BY <1>2, <1>3 DEF RailsInv, WorkHasIntent
<1>5. AnswersAreSettled'
  BY <1>2, <1>3 DEF RailsInv, AnswersAreSettled
<1>6. ToldIsTrue'
  <2> SUFFICES ASSUME NEW t \in told'
               PROVE  attempt'[t[1]].payload = t[2] /\ attempt'[t[1]].status = t[3]
    BY Zenon DEF ToldIsTrue
  <2>1. CASE t \in told
    <3>1. t[1] \in Operations /\ t[3] \in Final
      BY <2>1, Zenon DEF RailsInv, RailsTypeOK
    <3> QED  BY <2>1, <3>1, Zenon DEF RailsInv, ToldIsTrue
  <2>2. CASE t \notin told
    BY <2>2
  <2> QED  BY <2>1, <2>2, Zenon
<1> QED  BY <1>1, <1>4, <1>5, <1>6, Zenon DEF RailsInv

\* A worker that goes on leaves the invariant, when it changes no final row, the rows
\* and records it leaves are settled, and it has nothing untrue to record.
LEMMA GoingOnKeeps ==
  ASSUME RailsInv, NEW w \in Workers, NEW o \in Operations,
         NEW step \in {"submit", "lookup", "claim", "persist"}, NEW token \in Nat, NEW answer \in Answers,
         Step(w, o, step, token, answer),
         UNCHANGED told,
         attempt' \in [Operations -> Row],
         record' \in [Operations -> ProviderRow],
         \A p \in Operations : attempt[p].status # "NONE" => attempt'[p].status # "NONE",
         \A p \in Operations : attempt[p].status \in Final => attempt'[p] = attempt[p],
         \A p \in Operations : record[p].ready => record'[p] = record[p],
         attempt'[o].status # "NONE",
         step = "persist" => answer # "none",
         step = "persist" /\ answer \in Final => record'[o].ready /\ record'[o].outcome = answer,
         RowsAreSettled'
  PROVE  RailsInv'
<1> DEFINE new == [step |-> step, op |-> o, token |-> token, answer |-> answer]
<1>1. job' = [job EXCEPT ![w] = new] /\ new \in CallRow
  BY Zenon DEF Step, CallRow
<1> HIDE DEF new
<1>2. RailsTypeOK'
  BY <1>1, Zenon DEF RailsInv, RailsTypeOK
<1>3. new.op = o /\ new.step = step /\ new.answer = answer
  BY Zenon DEF new
<1>4. \A v \in Workers : job'[v] # NoCall => (v # w /\ job'[v] = job[v]) \/ (v = w /\ job'[v] = new)
  BY <1>1, Zenon DEF RailsInv, RailsTypeOK
<1>5. \A v \in Workers : job[v] # NoCall => job[v].op \in Operations
  BY Zenon DEF RailsInv, RailsTypeOK, CallRow
<1>6. WorkHasIntent'
  BY <1>3, <1>4, <1>5 DEF RailsInv, WorkHasIntent
<1>7. AnswersAreSettled'
  BY <1>3, <1>4, <1>5 DEF RailsInv, AnswersAreSettled
<1>8. ToldIsTrue'
  <2>1. \A t \in told : t[1] \in Operations /\ t[3] \in Final
    BY Zenon DEF RailsInv, RailsTypeOK
  <2> QED  BY <2>1 DEF RailsInv, ToldIsTrue
<1> QED  BY <1>2, <1>6, <1>7, <1>8, Zenon DEF RailsInv

\* Rows that are not changed, and records that are not, stay settled.
LEMMA SettledStay ==
  ASSUME RowsAreSettled, UNCHANGED <<attempt, record>>
  PROVE  RowsAreSettled'
BY Zenon DEF RowsAreSettled

\* Start stores the intent, or returns the row of an earlier call.
LEMMA StartKeeps ==
  ASSUME RailsInv, NEW w \in Workers, NEW o \in Operations, NEW payload \in Payloads, Start(w, o, payload)
  PROVE  RailsInv'
<1>1. attempt \in [Operations -> Row] /\ record \in [Operations -> ProviderRow]
  BY DEF RailsInv, RailsTypeOK
<1>2. CASE attempt[o] = NoAttempt /\ UNCHANGED told
  <2> DEFINE row == [status |-> "IN_FLIGHT", payload |-> payload, token |-> 1]
  <2>1. row \in Row /\ row.status = "IN_FLIGHT"
    BY DEF Row
  <2>2. attempt[o].status = "NONE"
    BY <1>2 DEF NoAttempt
  <2>3. record[o] = NoRecordYet
    BY <2>2, Zenon DEF RailsInv, RowsAreSettled
  <2>4. CASE attempt' = [attempt EXCEPT ![o] = row] /\ Step(w, o, "submit", 1, "none") /\ record' = record
    <3> HIDE DEF row
    <3>1. attempt' \in [Operations -> Row] /\ attempt'[o] = row /\ \A p \in Operations \ {o} : attempt'[p] = attempt[p]
      BY <1>1, <2>1, <2>4, Zenon
    <3>2. RowsAreSettled'
      BY <2>1, <2>3, <2>4, <3>1, Zenon DEF RailsInv, RowsAreSettled, Final
    <3>3. \A p \in Operations : attempt[p].status \in Final => attempt'[p] = attempt[p]
      BY <2>2, <3>1, Zenon DEF Final
    <3>4. "none" \in Answers /\ 1 \in Nat
      BY DEF Answers
    <3>5. \A p \in Operations : attempt[p].status # "NONE" => attempt'[p].status # "NONE"
      BY <2>1, <3>1, Zenon
    <3> QED  BY <1>1, <1>2, <2>1, <2>4, <3>1, <3>2, <3>3, <3>4, <3>5, GoingOnKeeps, Zenon
  <2>5. CASE attempt[o] # NoAttempt
    BY <1>2, <2>5
  <2> QED  BY <2>4, <2>5, Zenon DEF Start
<1>3. CASE UNCHANGED attempt /\ Return(w, o, attempt[o])
  <2>1. record' = record
    BY Zenon DEF Start
  <2>2. RowsAreSettled'
    BY <1>3, <2>1, SettledStay DEF RailsInv
  <2> QED  BY <1>1, <1>3, <2>1, <2>2, EndingKeeps, Zenon DEF Return
<1> QED  BY <1>2, <1>3, Zenon DEF Start

\* Resolve and the read of a retry end or go on without a change of row or record.
LEMMA ReadingKeeps ==
  ASSUME RailsInv, NEW w \in Workers, NEW o \in Operations, Resolve(w, o) \/ ReadForRetry(w, o)
  PROVE  RailsInv'
<1>1. attempt \in [Operations -> Row] /\ record \in [Operations -> ProviderRow] /\ attempt[o] \in Row
  BY DEF RailsInv, RailsTypeOK
<1>2. UNCHANGED <<attempt, record>>
  BY Zenon DEF Resolve, ReadForRetry
<1>3. RowsAreSettled'
  BY <1>2, SettledStay DEF RailsInv
<1>4. CASE Return(w, o, attempt[o])
  BY <1>1, <1>2, <1>3, <1>4, EndingKeeps, Zenon DEF Return
<1>5. CASE ~Return(w, o, attempt[o])
  <2>1. attempt[o].token \in Nat /\ "none" \in Answers
    BY <1>1, Zenon DEF Row, Answers
  <2>2. attempt[o].status # "NONE"
    <3>1. CASE Resolve(w, o)
      BY <3>1, Zenon DEF Resolve, RailsInv, RowsAreSettled
    <3>2. CASE ReadForRetry(w, o)
      BY <1>5, <3>2, Zenon DEF ReadForRetry
    <3> QED  BY <3>1, <3>2, Zenon
  <2>3. PICK step \in {"lookup", "claim"} : Step(w, o, step, attempt[o].token, "none") /\ UNCHANGED told
    BY <1>5, Zenon DEF Resolve, ReadForRetry
  <2> QED  BY <1>1, <1>2, <1>3, <2>1, <2>2, <2>3, GoingOnKeeps, Zenon
<1> QED  BY <1>4, <1>5

\* The provider is called outside every transaction.
LEMMA CallProviderKeeps ==
  ASSUME RailsInv, NEW w \in Workers, CallProvider(w)
  PROVE  RailsInv'
<1> DEFINE o == job[w].op
<1>1. job[w] \in CallRow /\ job[w] # NoCall
  <2>1. job[w] \in CallRow \cup {NoCall} /\ job[w].step \in {"submit", "lookup"}
    BY Zenon DEF RailsInv, RailsTypeOK, CallProvider
  <2>2. NoCall.step = "idle"
    BY Zenon DEF NoCall
  <2> QED  BY <2>1, <2>2, Zenon
<1>2. o \in Operations /\ job[w].token \in Nat /\ job[w] # NoCall
  BY <1>1, Zenon DEF CallRow
<1>3. attempt[o].status # "NONE"
  BY <1>2, Zenon DEF RailsInv, WorkHasIntent
<1>4. PICK x \in SubmitOutcomes(o) \cup LookupOutcomes(o) :
        record' = [record EXCEPT ![o] = x.record] /\ Step(w, o, "persist", job[w].token, x.answer)
  BY Zenon DEF CallProvider
<1>5. UNCHANGED <<attempt, told>>
  BY Zenon DEF CallProvider
<1> HIDE DEF o
<1>6. /\ x.record \in ProviderRow
      /\ x.answer \in Answers \ {"none"}
      /\ x.answer \in Final => x.record.ready /\ x.record.outcome = x.answer
      /\ record[o].ready => x.record = record[o]
      /\ x.record # NoRecordYet => x.record.payload = attempt[o].payload /\ x.record.outcome \in Final
  BY <1>2, <1>3, <1>4, ProviderSettles, Zenon DEF RailsInv
<1>7. attempt \in [Operations -> Row] /\ record \in [Operations -> ProviderRow]
  BY DEF RailsInv, RailsTypeOK
<1>8. record' \in [Operations -> ProviderRow] /\ record'[o] = x.record /\ \A p \in Operations \ {o} : record'[p] = record[p]
  BY <1>2, <1>4, <1>6, <1>7, Zenon
<1>9. \A p \in Operations : record[p].ready => record'[p] = record[p]
  BY <1>6, <1>8, Zenon
<1>10. RowsAreSettled'
  BY <1>3, <1>5, <1>6, <1>8, <1>9 DEF RailsInv, RowsAreSettled
<1> QED  BY <1>2, <1>3, <1>4, <1>5, <1>6, <1>7, <1>8, <1>9, <1>10, GoingOnKeeps, Zenon

\* A retry takes the next token under the same reference.
LEMMA ClaimRetryKeeps ==
  ASSUME RailsInv, NEW w \in Workers, ClaimRetry(w)
  PROVE  RailsInv'
<1> DEFINE o == job[w].op
           token == attempt[o].token + 1
<1>1. job[w] \in CallRow /\ o \in Operations /\ job[w] # NoCall
  BY DEF RailsInv, RailsTypeOK, ClaimRetry, NoCall, CallRow
<1>2. attempt \in [Operations -> Row] /\ record \in [Operations -> ProviderRow] /\ attempt[o] \in Row
  BY <1>1, Zenon DEF RailsInv, RailsTypeOK
<1>3. token \in Nat
  BY <1>2 DEF Row
<1>4. UNCHANGED <<record, told>>
  BY Zenon DEF ClaimRetry
<1>5. CASE /\ attempt[o].status = "UNKNOWN"
           /\ attempt' = [attempt EXCEPT ![o].status = "IN_FLIGHT", ![o].token = token]
           /\ Step(w, o, "submit", token, "none")
  <2> HIDE DEF o, token
  <2>1. /\ attempt' \in [Operations -> Row]
        /\ attempt'[o].status = "IN_FLIGHT" /\ attempt'[o].payload = attempt[o].payload
        /\ \A p \in Operations \ {o} : attempt'[p] = attempt[p]
    BY <1>1, <1>2, <1>3, <1>5, Zenon DEF Row
  <2>2. RowsAreSettled'
    BY <1>4, <1>5, <2>1 DEF RailsInv, RowsAreSettled, Final
  <2>3. \A p \in Operations : attempt[p].status \in Final => attempt'[p] = attempt[p]
    BY <1>5, <2>1, Zenon DEF Final
  <2>4. \A p \in Operations : attempt[p].status # "NONE" => attempt'[p].status # "NONE"
    BY <2>1, Zenon
  <2>5. "none" \in Answers
    BY DEF Answers
  <2> QED  BY <1>1, <1>2, <1>3, <1>4, <1>5, <2>1, <2>2, <2>3, <2>4, <2>5, GoingOnKeeps, Zenon
<1>6. CASE job' = [job EXCEPT ![w] = NoCall] /\ UNCHANGED attempt
  <2>1. RowsAreSettled'
    BY <1>4, <1>6, SettledStay DEF RailsInv
  <2> QED  BY <1>1, <1>2, <1>4, <1>6, <2>1, EndingKeeps, Zenon
<1> QED  BY <1>5, <1>6, Zenon DEF ClaimRetry

\* The outcome that is recorded is the provider's, and no final row is changed, because
\* the update asks for a row that is not final.
LEMMA PersistKeeps ==
  ASSUME RailsInv, NEW w \in Workers, Persist(w)
  PROVE  RailsInv'
<1> DEFINE o == job[w].op
           row == [attempt[o] EXCEPT !.status = job[w].answer]
<1>1. job[w] \in CallRow /\ o \in Operations /\ job[w] # NoCall /\ job[w].answer \in Answers
  BY DEF RailsInv, RailsTypeOK, Persist, NoCall, CallRow
<1>2. attempt \in [Operations -> Row] /\ record \in [Operations -> ProviderRow] /\ attempt[o] \in Row
  BY <1>1, Zenon DEF RailsInv, RailsTypeOK
<1>3. /\ job[w].answer # "none"
      /\ job[w].answer \in Final => record[o].ready /\ record[o].outcome = job[w].answer
  BY <1>1, Zenon DEF RailsInv, WorkHasIntent, AnswersAreSettled, Persist
<1>4. UNCHANGED record
  BY Zenon DEF Persist
<1>5. CASE MayPersist(attempt[o], job[w].token) /\ attempt' = [attempt EXCEPT ![o] = row] /\ Return(w, o, row)
  <2>1. row \in Row /\ row.status = job[w].answer /\ row.payload = attempt[o].payload
    BY <1>1, <1>2, <1>3, Zenon DEF Row, Answers
  <2>2. attempt[o].status # "NONE" /\ attempt[o].status \notin Final
    BY <1>5, Zenon DEF MayPersist, Final
  <2>3. row.status # "NONE"
    BY <1>1, <2>1, Zenon DEF Answers, Final
  <2> HIDE DEF o, row
  <2>4. attempt' \in [Operations -> Row] /\ attempt'[o] = row /\ \A p \in Operations \ {o} : attempt'[p] = attempt[p]
    BY <1>1, <1>2, <1>5, <2>1, Zenon
  <2>5. RowsAreSettled'
    BY <1>3, <1>4, <2>1, <2>3, <2>4 DEF RailsInv, RowsAreSettled
  <2>6. \A p \in Operations : attempt[p].status \in Final => attempt'[p] = attempt[p]
    BY <2>2, <2>4, Zenon
  <2>7. \A p \in Operations : attempt[p].status # "NONE" => attempt'[p].status # "NONE"
    BY <2>3, <2>4
  <2> QED  BY <1>1, <1>4, <1>5, <2>4, <2>5, <2>6, <2>7, EndingKeeps, Zenon DEF Return
<1>6. CASE UNCHANGED attempt /\ (Return(w, o, attempt[o]) \/ (job' = [job EXCEPT ![w] = NoCall] /\ UNCHANGED told))
  <2>1. RowsAreSettled'
    BY <1>4, <1>6, SettledStay, Zenon DEF RailsInv
  <2> HIDE DEF o, row
  <2> QED  BY <1>1, <1>2, <1>4, <1>6, <2>1, EndingKeeps DEF Return
<1> QED  BY <1>5, <1>6, Zenon DEF Persist

\* A worker that dies forgets its answer.
LEMMA CrashKeeps ==
  ASSUME RailsInv, NEW w \in Workers, Crash(w)
  PROVE  RailsInv'
<1>1. job[w] \in CallRow
  BY DEF RailsInv, RailsTypeOK, Crash
<1>2. PICK o \in Operations : TRUE
  BY <1>1 DEF CallRow
<1>3. RowsAreSettled'
  BY SettledStay DEF RailsInv, Crash
<1>4. attempt \in [Operations -> Row]
  BY DEF RailsInv, RailsTypeOK
<1> QED  BY <1>2, <1>3, <1>4, EndingKeeps, Zenon DEF Crash

\* OutcomeTrue, for any operations, payloads, workers and number of retries: what
\* Processor tells its callers is what the row and the provider have and keep.
THEOREM OutcomesAreTrue == RailsSpec => []OutcomeTrue
<1>1. ASSUME RailsInv, [RailsNext]_railsVars
      PROVE  RailsInv'
  <2>1. CASE UNCHANGED railsVars
    BY <1>1, <2>1, Zenon DEF railsVars, RailsInv, RailsTypeOK, WorkHasIntent, AnswersAreSettled, RowsAreSettled, ToldIsTrue
  <2>2. CASE RailsNext
    BY <1>1, <2>2, StartKeeps, ReadingKeeps, CallProviderKeeps, ClaimRetryKeeps, PersistKeeps, CrashKeeps, Zenon DEF RailsNext
  <2> QED  BY <1>1, <2>1, <2>2, Zenon
<1>2. RailsInv => OutcomeTrue
  BY DEF RailsInv, RowsAreSettled, ToldIsTrue, OutcomeTrue, NoAttempt
<1> QED  BY <1>1, <1>2, RailsInitial, PTL DEF RailsSpec

=============================================================================
