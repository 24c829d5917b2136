--------------------------- MODULE ItemSendingProps ---------------------------
(***************************************************************************)
(* What the sending of changes must guarantee.                             *)
(***************************************************************************)
EXTENDS ItemSending

(***************************************************************************)
(* A command is sent for each change, once and in order, but for those     *)
(* that are left: a large item goes over several messages, and the lists   *)
(* of changes and of items to fetch are taken down apart from each other.  *)
(***************************************************************************)
SentOnce ==
    Keys(Changes) = [i \in DOMAIN sent |-> sent[i].key] \o Keys(left)

(***************************************************************************)
(* An item that the plug-in has is sent with its data: the prefetcher      *)
(* never comes back without it, however large the batch is it was told to  *)
(* read, which may be 0 or less.                                           *)
(***************************************************************************)
SentWhole ==
    ~cfg.omits => \A i \in DOMAIN sent :
        sent[i].data = "NULL" => sent[i].key \notin there

(***************************************************************************)
(* A session that is not broken off sends all changes, and a client comes  *)
(* to count each of them, once, as what was done with it, whatever order   *)
(* the statuses come in and if one comes twice.                            *)
(***************************************************************************)
Counted(type) ==
    cfg.role = "client" =>
        results[type] = Len(SelectSeq(Changes, LAMBDA c : c.cmd = type))

EverythingSent ==
    <>[](\/ session = "ended"
         \/ left = <<>> /\ \A type \in Types : Counted(type))

=============================================================================
