-------------------------- MODULE RetentionEvidence --------------------------
(***************************************************************************)
(* The evidence without which no group is deleted (apps/api/src/           *)
(* group-management/application/use-cases/retention-deletion-evidence.ts). *)
(*                                                                         *)
(* Two other contexts issue deletion receipts and all three destroy their  *)
(* keys of the group's data.  Verification asks a port per receipt, then a *)
(* port per context for the keys, and judges what they answer: a port      *)
(* reports only what its context really did, but maybe for another         *)
(* attempt, another kind of key, or as the port of another context than    *)
(* the one it is wired for.  Evidence is issued for one binding; only what *)
(* this verification issued is accepted later.                             *)
(***************************************************************************)
EXTENDS Naturals, Sequences

CONSTANTS
    Bindings,       \* prepared bindings: token, operation id and version
    Unprepared,     \* a value that is not a prepared binding
    KeyWirings,     \* sequences of contexts the key ports may declare
    ReceiptWirings, \* pairs of contexts the receipt ports may declare
    Facts           \* what contexts may do

Contexts == {"GroupManagement", "ExpenseRecording", "Settlement"}
KeyNamespaces == {"GroupData", "Audit"}  \* two of the four stand for them

(* What a context does: its deletion receipt is in order, or all versions  *)
(* of its keys in a namespace are gone.                                    *)
ReceiptFact == [kind: {"Receipt"}, context: Contexts \ {"GroupManagement"},
                binding: Bindings]
KeyFact == [kind: {"Keys"}, context: Contexts, binding: Bindings,
            keyNamespace: KeyNamespaces]

ASSUME WiringAssumption ==
    /\ KeyWirings \subseteq Seq(Contexts \cup {"Other"})
    /\ ReceiptWirings \subseteq Contexts \X Contexts
    /\ Unprepared \notin Bindings
    /\ Facts \subseteq ReceiptFact \cup KeyFact

VARIABLES
    done,       \* facts: what the contexts have done
    attempt,    \* the verification under way, or its outcome
    issued      \* the bindings evidence was issued for

evidenceVars == <<done, attempt, issued>>

EvidenceInit ==
    /\ done = {}
    /\ attempt = [at |-> "none", binding |-> Unprepared, keyPorts |-> <<>>, answer |-> "none"]
    /\ issued = {}

(* A context deletes its data or destroys keys.                            *)
Do(fact) ==
    /\ fact \notin done
    /\ done' = done \cup {fact}
    /\ UNCHANGED <<attempt, issued>>

-----------------------------------------------------------------------------
(* The checks of the wiring.                                               *)

ReceiptPortsRefusal(wiring) ==
    IF wiring[1] = wiring[2] THEN "DuplicateContext"
    ELSE IF wiring # <<"ExpenseRecording", "Settlement">> THEN "MissingContext"
    ELSE "none"

Declared(ports) == {ports[i] : i \in DOMAIN ports}
NoPortTwice(ports) == \A i, j \in DOMAIN ports : ports[i] = ports[j] => i = j

KeyPortsRefusal(ports) ==
    IF ~NoPortTwice(ports) THEN "DuplicateContext"
    ELSE IF ~(Declared(ports) \subseteq Contexts) THEN "UnexpectedContext"
    ELSE IF ~(Contexts \subseteq Declared(ports)) THEN "MissingContext"
    ELSE "none"

-----------------------------------------------------------------------------
(* What a port can answer: a fact it verified, a reason to refuse, that it *)
(* is not available, a value of no known shape; or it throws.              *)
Reply(kind, reason, fact) == [kind |-> kind, reason |-> reason, fact |-> fact]
Verified(fact) == Reply("Verified", "none", fact)
NoFact == [kind |-> "none"]

Failures(reasons) ==
    {Reply("Rejected", reason, NoFact) : reason \in reasons} \cup
    {Reply(kind, "none", NoFact) : kind \in {"Unavailable", "Malformed", "Threw"}}

ReceiptReplies ==
    {Verified(f) : f \in {d \in done : d.kind = "Receipt"}} \cup
    Failures({"BindingMismatch", "StaleEvidence", "InvalidReceipt"})
KeyReplies ==
    {Verified(f) : f \in {d \in done : d.kind = "Keys"}} \cup
    Failures({"BindingMismatch", "StaleEvidence", "MissingEvidence",
              "IncompleteEvidence"})

MapRejection(reason) ==
    CASE reason = "InvalidReceipt" -> "InvalidEvidence"
      [] reason = "MissingEvidence" -> "MissingContext"
      [] OTHER -> reason

(* The answer to the first reply that is not in order; "none" if all are.  *)
FirstRefusal(n, Refusal(_)) ==
    IF \A i \in 1 .. n : Refusal(i) = "none" THEN "none"
    ELSE Refusal(CHOOSE i \in 1 .. n :
                    Refusal(i) # "none" /\ \A j \in 1 .. i - 1 : Refusal(j) = "none")

Threw(rs) == \E i \in DOMAIN rs : rs[i].kind = "Threw"

FailureOf(reply, malformed) ==
    CASE reply.kind = "Malformed" -> malformed
      [] reply.kind = "Unavailable" -> "Unavailable"
      [] reply.kind = "Rejected" -> MapRejection(reply.reason)
      [] OTHER -> "none"

(* Both receipts are judged in order, then the contexts that answered.     *)
ReceiptRefusal(rs, binding) ==
    LET judged == FirstRefusal(2, LAMBDA i :
                    IF FailureOf(rs[i], "InvalidEvidence") # "none"
                    THEN FailureOf(rs[i], "InvalidEvidence")
                    ELSE IF rs[i].fact.binding # binding THEN "BindingMismatch"
                    ELSE "none")
    IN  IF judged # "none" THEN judged
        ELSE FirstRefusal(2, LAMBDA i :
                IF rs[i].fact.context = <<"ExpenseRecording", "Settlement">>[i]
                THEN "none" ELSE "UnexpectedContext")

\* Mutant: the namespace does not matter.
MutKeyRefusal(rs, ports, binding) ==
    FirstRefusal(Len(ports), LAMBDA i :
        IF FailureOf(rs[i], "IncompleteEvidence") # "none"
        THEN FailureOf(rs[i], "IncompleteEvidence")
        ELSE IF rs[i].fact.context # ports[i] THEN "UnexpectedContext"
        ELSE IF rs[i].fact.binding # binding THEN "BindingMismatch"
        ELSE "none")
KeyRefusal(rs, ports, binding) ==
    FirstRefusal(Len(ports), LAMBDA i :
        IF FailureOf(rs[i], "IncompleteEvidence") # "none"
        THEN FailureOf(rs[i], "IncompleteEvidence")
        ELSE IF rs[i].fact.keyNamespace # "GroupData" THEN "KeyNamespaceMismatch"
        ELSE IF rs[i].fact.context # ports[i] THEN "UnexpectedContext"
        ELSE IF rs[i].fact.binding # binding THEN "BindingMismatch"
        ELSE "none")

-----------------------------------------------------------------------------
(* The call: the binding and the wiring are checked before any port.       *)
Verify(binding, receiptPorts, keyPorts) ==
    LET refusal == IF binding = Unprepared THEN "BindingMismatch"
                   ELSE IF ReceiptPortsRefusal(receiptPorts) # "none"
                   THEN ReceiptPortsRefusal(receiptPorts)
                   ELSE KeyPortsRefusal(keyPorts)
    IN  /\ attempt.at \in {"none", "answered"}
        /\ attempt' = [at |-> IF refusal = "none" THEN "receipts" ELSE "answered",
                       binding |-> binding, keyPorts |-> keyPorts, answer |-> refusal]
        /\ UNCHANGED <<done, issued>>

(* Both receipt ports answer; a refusal ends the call.                     *)
AnswerReceipts ==
    /\ attempt.at = "receipts"
    /\ \E first, second \in ReceiptReplies :
          LET rs == <<first, second>>
              refusal == IF Threw(rs) THEN "Unavailable"
                         ELSE ReceiptRefusal(rs, attempt.binding)
          IN  attempt' = [attempt EXCEPT
                    !.at = IF refusal = "none" THEN "keys" ELSE "answered",
                    !.answer = refusal]
    /\ UNCHANGED <<done, issued>>

(* All the key ports answer: evidence is issued, or the call refused.      *)
AnswerKeys ==
    /\ attempt.at = "keys"
    /\ \E rs \in [1 .. Len(attempt.keyPorts) -> KeyReplies] :
          LET refusal == IF Threw(rs) THEN "Unavailable"
                         ELSE KeyRefusal(rs, attempt.keyPorts, attempt.binding)
          IN  /\ attempt' = [attempt EXCEPT
                    !.at = "answered",
                    !.answer = IF refusal = "none" THEN "Verified" ELSE refusal]
              /\ issued' = IF refusal = "none" THEN issued \cup {attempt.binding} ELSE issued
    /\ UNCHANGED done

IsVerifiedEvidence(binding) == binding \in issued

EvidenceNext ==
    \/ \E fact \in Facts : Do(fact)
    \/ \E b \in Bindings \cup {Unprepared}, r \in ReceiptWirings, k \in KeyWirings :
          Verify(b, r, k)
    \/ AnswerReceipts
    \/ AnswerKeys

EvidenceSpec == EvidenceInit /\ [][EvidenceNext]_evidenceVars

-----------------------------------------------------------------------------
Answers ==
    {"none", "Verified", "Unavailable", "MissingContext", "DuplicateContext",
     "UnexpectedContext", "BindingMismatch", "StaleEvidence", "InvalidEvidence",
     "IncompleteEvidence", "KeyNamespaceMismatch"}

(* Every variable has its type, and every answer is one of the declared    *)
(* ones: no reason of a port reaches the caller untranslated.              *)
EvidenceTypeOK ==
    /\ done \subseteq Facts
    /\ issued \subseteq Bindings
    /\ attempt.at \in {"none", "receipts", "keys", "answered"}
    /\ attempt.binding \in Bindings \cup {Unprepared}
    /\ attempt.answer \in Answers

(* Evidence stands for the whole: when it is accepted for a binding, both  *)
(* other contexts issued their receipt for that very binding, and all      *)
(* three destroyed their keys of the group's data for it, whatever the     *)
(* wiring and however the ports confuse attempts, contexts and kinds of    *)
(* key.                                                                    *)
IssuedIsWhole ==
    \A b \in Bindings : IsVerifiedEvidence(b) =>
        /\ \A c \in Contexts \ {"GroupManagement"} :
              [kind |-> "Receipt", context |-> c, binding |-> b] \in done
        /\ \A c \in Contexts :
              [kind |-> "Keys", context |-> c, binding |-> b,
               keyNamespace |-> "GroupData"] \in done

(* What the caller is told and given of a verification is in order.        *)
EvidenceIsWhole == EvidenceTypeOK /\ IssuedIsWhole
=============================================================================
