-------------------------- MODULE ItemExchangeProps --------------------------
(***************************************************************************)
(* What makes an exchange of items correct, and what the documentation     *)
(* says of it.                                                             *)
(***************************************************************************)
EXTENDS ItemExchange

(***************************************************************************)
(* Nothing is forgotten.  Between two sessions, whatever the two sides do  *)
(* not agree on is going to be reported as changed: by the side of an item *)
(* that has no mapping, or by one side at least of two that are mapped and *)
(* have different contents.  Aborts, conflicts, deletions by both sides    *)
(* and a client that did not save are all in its way.                      *)
(*                                                                         *)
(* It does not speak of unmatched anchors, for then everything is sent     *)
(* again, nor of what Forgetful names: there the code does forget.         *)
(***************************************************************************)
\* The sender of an item that was refused does not send it again; the mapping
\* of an item one user deleted and the other modified stays and hides the new
\* one; a duplicate gets no mapping; the time saved may be too early; and the
\* sender's key is taken for a key of the receiver
Forgetful ==
    \/ refused
    \/ cfg.clashes
    \/ cfg.detects
    \/ cfg.quick
    \/ cfg.shared /\ cfg.large # {}

Mapped(c, s) ==
    /\ MapToLocalUID(savedMaps[Server], c) = s
    /\ MapToRemoteUID(savedMaps[Server], s) = c

ClientHolds(c) ==
    \/ c \in dirty[Client].added
    \/ \E s \in DOMAIN store[Server] :
          /\ Mapped(c, s)
          /\ \/ store[Client][c] = store[Server][s]
             \/ c \in dirty[Client].modified
             \/ s \in dirty[Server].modified
    \/ MapToLocalUID(savedMaps[Server], c) \in dirty[Server].removed

ServerHolds(s) ==
    \/ s \in dirty[Server].added
    \/ \E c \in DOMAIN store[Client] : Mapped(c, s)
    \/ MapToRemoteUID(savedMaps[Server], s) \in dirty[Client].removed

NothingForgotten ==
    phase = "idle" /\ anchored /\ ~Forgetful =>
        /\ \A c \in DOMAIN store[Client] : ClientHolds(c)
        /\ \A s \in DOMAIN store[Server] : ServerHolds(s)

(***************************************************************************)
(* Conflicts are resolved as the policy says.  When a session is saved, an *)
(* item that both users had modified has the server's content on both      *)
(* sides if the server prefers its own changes, and the client's if not.   *)
(***************************************************************************)
PolicyRespected ==
    [][SaveClient /\ ~refused =>
        \A c \in contested :
            LET wins == IF LocalSideWins THEN c.server ELSE c.client IN
            /\ store[Server][c.key] = wins
            /\ store[Client][MapToRemoteUID(maps[Server], c.key)] = wins]_vars

(***************************************************************************)
(* A status tells what happened: an item that was said to be added or      *)
(* replaced is stored with the data that was sent, which for a large one   *)
(* is the end of what is stored, and one that was said to be deleted is    *)
(* not there.                                                              *)
(***************************************************************************)
LastMapped(p, rkey) ==
    maps[p][SelectLastInSeq(maps[p], LAMBDA m : m.remote = rkey)].local

Holds(p, key, data) == key \in DOMAIN store[p] /\ IsSuffix(data, store[p][key])

StatusTruthful ==
    \A i \in DOMAIN answer :
        LET a   == answer[i]
            key == LocalKey(a.by, a.item) IN
        /\ a.code = "ITEM_ADDED" => Holds(a.by, LastMapped(a.by, a.item.source), a.item.data)
        /\ a.code = "SUCCESS" /\ a.item.cmd = "Replace" => Holds(a.by, key, a.item.data)
        /\ a.code = "SUCCESS" /\ a.item.cmd = "Delete"  => key \notin DOMAIN store[a.by]

(***************************************************************************)
(* Items are stored whole: what a storage holds is the whole of something  *)
(* that a user wrote, never a part of it or parts of two.                  *)
(***************************************************************************)
StoredWhole ==
    \A p \in Party : \A k \in DOMAIN store[p] :
        store[p][k] # <<>> /\ store[p][k] = Whole(store[p][k][1].of)

-----------------------------------------------------------------------------
(***************************************************************************)
(* What the documentation says.                                            *)
(***************************************************************************)
\* SessionHandler.cpp:1107: "Store last sync time with accuracy of 1 second,
\* ceiling it to the next full second", so that what a session writes is older
\* than the time it saves.  Then what a storage reports after sessions that
\* were not broken off is what its own user did, and nothing is sent back to
\* where it came from.  The code drops the result of addSecs (SessionHandler.cpp:
\* 1111), and what a quick session wrote is reported as the user's
EchoFree ==
    phase = "idle" /\ ~cfg.aborts =>
        \A p \in Party : \A k \in dirty[p].added \cup dirty[p].modified :
            store[p][k][1].of.by = p

=============================================================================
