------------------------------ MODULE Identity ------------------------------
(***************************************************************************)
(* Personal data (internal/pii): one Vault key per identity, the ciphertext *)
(* in a regional table, and deletion by destroying the key.  Database and  *)
(* Vault share no transaction: every call is a step of its own, which may  *)
(* fail, or take effect and lose its answer, and a caller may give up      *)
(* between any two.  Each deletion request names one identity.             *)
(***************************************************************************)
EXTENDS Integers

CONSTANTS
  Identities,
  RequestsOf,     \* the deletion requests of an identity
  Clients         \* concurrent callers of the service

ASSUME OneIdentityAssumption ==
  \A i \in Identities :
    "none" \notin RequestsOf[i] /\ \A j \in Identities \ {i} : RequestsOf[i] \cap RequestsOf[j] = {}

VARIABLES
  key,            \* Vault: the Transit key of each identity
  mapping,        \* pii.identity_mappings
  receipts,       \* pii.deletion_receipts
  task,           \* what each caller is doing
  known,          \* history: the identities that Create returned
  deleted,        \* history: the identities whose deletion was confirmed
  leaked          \* history: the identities shown after that

identityVars == <<key, mapping, receipts, task, known, deleted, leaked>>

NoMapping == [state |-> "NONE", request |-> "none"]

NoTask == [step |-> "idle"]

InitIdentity ==
  /\ key = [i \in Identities |-> "unused"]
  /\ mapping = [i \in Identities |-> NoMapping]
  /\ receipts = {}
  /\ task = [c \in Clients |-> NoTask]
  /\ known = {} /\ deleted = {} /\ leaked = {}

Do(c, step, i, request) == task' = [task EXCEPT ![c] = [step |-> step, id |-> i, request |-> request]]

End(c) == task' = [task EXCEPT ![c] = NoTask]

-----------------------------------------------------------------------------
(* Create and Get.                                                         *)

\* Encrypt makes the key and uses it.  When the second call fails the key stays.
Encrypt(c, i) ==
  /\ task[c] = NoTask
  /\ key[i] = "unused"
  /\ key' = [key EXCEPT ![i] = "live"]
  /\ Do(c, "insert", i, "none") \/ End(c)
  /\ UNCHANGED <<mapping, receipts, known, deleted, leaked>>

\* The insert fails, or commits, or commits and looks as if it had failed.
InsertMapping(c) ==
  /\ task[c].step = "insert"
  /\ LET i == task[c].id
         inserted == [mapping EXCEPT ![i] = [state |-> "ACTIVE", request |-> "none"]]
     IN  \/ mapping' = inserted /\ End(c) /\ known' = known \cup {i}
         \/ mapping' \in {inserted, mapping} /\ Do(c, "discard", i, "none") /\ UNCHANGED known
  /\ UNCHANGED <<key, receipts, deleted, leaked>>

\* Fault: an error of Vault is taken for a key that is already deleted.
AnyErrorIsGone(k) == {<<"destroyed", TRUE>>, <<"destroyed", FALSE>>, <<k, TRUE>>}

\* DestroyKey: allow deletion, then delete.  Either call may fail or lose its answer;
\* only a delete that finds no key passes for one that worked.
Destroyed(k) == {<<"destroyed", TRUE>>, <<"destroyed", FALSE>>, <<k, FALSE>>}

\* A failed Create destroys its key, and does not look at how that went.
DiscardKey(c) ==
  /\ task[c].step = "discard"
  /\ \E x \in Destroyed(key[task[c].id]) : key' = [key EXCEPT ![task[c].id] = x[1]]
  /\ End(c)
  /\ UNCHANGED <<mapping, receipts, known, deleted, leaked>>

ReadMapping(c, i) ==
  /\ task[c] = NoTask
  /\ mapping[i].state = "ACTIVE"
  /\ Do(c, "decrypt", i, "none")
  /\ UNCHANGED <<key, mapping, receipts, known, deleted, leaked>>

\* Decrypt of the ciphertext read before, if its key is still there.
Decrypt(c) ==
  /\ task[c].step = "decrypt"
  /\ End(c)
  /\ leaked' = leaked \cup (IF key[task[c].id] = "live" THEN {task[c].id} \cap deleted ELSE {})
  /\ UNCHANGED <<key, mapping, receipts, known, deleted>>

-----------------------------------------------------------------------------
(* RequestDeletion.                                                        *)

\* The mapping is marked for this request, by the first call or by a retry.  With no
\* such mapping, a receipt of the request confirms it.
MarkPending(c, i, request) ==
  /\ task[c] = NoTask
  /\ \/ /\ \/ mapping[i].state = "ACTIVE"
           \/ mapping[i].state = "DELETION_PENDING" /\ mapping[i].request = request
        /\ mapping' = [mapping EXCEPT ![i] = [state |-> "DELETION_PENDING", request |-> request]]
        /\ Do(c, "destroy", i, request)
        /\ UNCHANGED deleted
     \/ /\ mapping[i].state # "ACTIVE" /\ mapping[i].request # request
        /\ request \in receipts
        /\ deleted' = deleted \cup {i}
        /\ UNCHANGED <<mapping, task>>
  /\ UNCHANGED <<key, receipts, known, leaked>>

DestroyKey(c) ==
  /\ task[c].step = "destroy"
  /\ \E x \in Destroyed(key[task[c].id]) :
       /\ key' = [key EXCEPT ![task[c].id] = x[1]]
       /\ IF x[2] THEN Do(c, "finish", task[c].id, task[c].request) ELSE End(c)
  /\ UNCHANGED <<mapping, receipts, known, deleted, leaked>>

\* One transaction deletes the mapping that is still marked for this request, and
\* writes the receipt.
FinishDeletion(c) ==
  /\ task[c].step = "finish"
  /\ LET i == task[c].id
     IN  IF mapping[i].request = task[c].request
         THEN /\ mapping' = [mapping EXCEPT ![i] = NoMapping]
              /\ receipts' = receipts \cup {task[c].request}
              /\ deleted' \in {deleted, deleted \cup {i}}
         ELSE UNCHANGED <<mapping, receipts, deleted>>
  /\ End(c)
  /\ UNCHANGED <<key, known, leaked>>

GiveUp(c) ==
  /\ task[c] # NoTask
  /\ End(c)
  /\ UNCHANGED <<key, mapping, receipts, known, deleted, leaked>>

IdentityNext ==
  \E c \in Clients :
    \/ \E i \in Identities :
         \/ Encrypt(c, i) \/ ReadMapping(c, i)
         \/ \E r \in RequestsOf[i] : MarkPending(c, i, r)
    \/ InsertMapping(c) \/ DiscardKey(c) \/ Decrypt(c)
    \/ DestroyKey(c) \/ FinishDeletion(c) \/ GiveUp(c)

-----------------------------------------------------------------------------
(* Properties.                                                             *)

\* Deleted means gone, and only deleted means gone.  Whatever fails or is retried
\* between database and Vault: an identity whose deletion has a receipt or was
\* confirmed has neither mapping nor key, nobody is shown it after that, not even by
\* a Get that read the mapping before, and one request has the receipt; an identity
\* that Create returned is readable until a deletion was asked for.
ErasedForGood ==
  /\ leaked = {}
  /\ \A i \in Identities :
       /\ (i \in deleted \/ RequestsOf[i] \cap receipts # {}) => mapping[i] = NoMapping /\ key[i] = "destroyed"
       /\ \A r, s \in RequestsOf[i] \cap receipts : r = s
       /\ i \in known /\ RequestsOf[i] \cap receipts = {} =>
            \/ mapping[i].state = "ACTIVE" /\ key[i] = "live"
            \/ mapping[i].state = "DELETION_PENDING"
=============================================================================
