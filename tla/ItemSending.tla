----------------------------- MODULE ItemSending -----------------------------
(***************************************************************************)
(* How a party sends the changes of one database and learns what became of *)
(* them: LocalChangesPackage writes commands into one message after the    *)
(* other, with items that SyncItemPrefetcher reads ahead in idle time;     *)
(* SessionHandler keeps a reference to each, which CommandHandler's        *)
(* statuses are held against; SyncResults counts.                          *)
(*                                                                         *)
(* The bytes left in a message are abstracted: it may be full after any    *)
(* command.  A large item that does not fit is sent in chunks.  The other  *)
(* party answers each command, in its own time.                            *)
(***************************************************************************)
EXTENDS Integers, SequencesExt, FiniteSetsExt, Functions

-----------------------------------------------------------------------------
(***************************************************************************)
(* SyncItemPrefetcher: the items that a package of changes will need, read *)
(* from the storage plug-in in batches.  A prefetcher is a record of the   *)
(* keys still to fetch, the items fetched (NULL for one that could not be  *)
(* had) and the size of the next batch, which may well be 0 or less.       *)
(***************************************************************************)
Fetched == {"item", "NULL"}

NewPrefetcher(keys, size) == [ids |-> keys, fetched |-> << >>, hint |-> size]

SetBatchSizeHint(pf, size) == [pf EXCEPT !.hint = size]

(***************************************************************************)
(* prefetch(): the plug-in has the items there.  If it gives fewer than it *)
(* was asked for (omits), none of them can be trusted.                     *)
(***************************************************************************)
Trusted(keys, there, omits) == ~omits \/ keys \subseteq there

Prefetch(pf, there, omits) ==
    LET size == Min({pf.hint, Len(pf.ids)})
        keys == ToSet(SubSeq(pf.ids, 1, size))
        got  == IF Trusted(keys, there, omits) THEN keys \cap there ELSE {}
    IN IF Cardinality(DOMAIN pf.fetched) < pf.hint
       THEN [pf EXCEPT !.fetched = [k \in DOMAIN @ \cup keys |->
                                        IF k \notin keys THEN @[k]
                                        ELSE IF k \in got THEN "item" ELSE "NULL"],
                       !.ids = SubSeq(@, size + 1, Len(@))]
       ELSE pf

\* Mutant: a batch of no items stays one
FilledUnhinted(pf, key, size, there, omits) ==
    IF key \in DOMAIN pf.fetched THEN pf ELSE Prefetch(pf, there, omits)

\* getItem(): fetches if it has to; what is taken is no longer there
Filled(pf, key, size, there, omits) ==
    LET hinted == IF pf.hint = 0
                  THEN [pf EXCEPT !.hint = size - Cardinality(DOMAIN pf.fetched)] ELSE pf
    IN IF key \in DOMAIN pf.fetched THEN hinted ELSE Prefetch(hinted, there, omits)

ItemIn(pf, key) == IF key \in DOMAIN pf.fetched THEN pf.fetched[key] ELSE "NULL"

Take(pf, key) == [pf EXCEPT !.fetched = Restrict(@, DOMAIN @ \ {key})]

-----------------------------------------------------------------------------
CONSTANT Configs

(***************************************************************************)
(* cfg: the items to send and then the removals, in order, and how many of *)
(* them go into a message; the role of the party, how its plug-in answers  *)
(* for items that are gone; and bounds, on what the user removes, messages *)
(* without a command, chunks, statuses that come twice, and on the         *)
(* statuses and the calls of prefetch() that may be late when the next     *)
(* message is written.                                                     *)
(***************************************************************************)
Types == {"Add", "Replace", "Delete"}
Change(types) == [cmd : types, key : STRING, large : BOOLEAN]
Cfg == [items : Seq(Change({"Add", "Replace"})), removed : Seq(Change({"Delete"})),
        max : Nat \ {0}, role : {"client", "server"}, omits : BOOLEAN,
        removes : Nat, dry : Nat, chunks : Nat, repeats : Nat, late : Nat]

\* A plug-in lists an item once, as new or as replaced (getModifications)
ListsOnce(items) == \A i, j \in DOMAIN items : items[i].key = items[j].key => i = j

ASSUME ConfigsAssumption == Configs \subseteq Cfg /\ \A c \in Configs : ListsOnce(c.items)

VARIABLES
    cfg,
    there,      \* the keys the plug-in has an item for
    left,       \* LocalChangesPackage::iLocalChanges, one list after the other
    prefetcher,
    timers,     \* the calls of prefetch() that wait for the event loop
    large,      \* the chunks sent of the large item at the head of left
    message,    \* [id, cmd, room, state] of the message being written
    session,    \* "open", then "ended"
    refs,       \* SessionHandler::iItemReferences
    statuses,   \* what the other party has still to say of the commands it got
    results,    \* SyncResults: of the remote database
    sent,       \* history: the commands, and whether they had data
    answered,   \* history: the commands that were acknowledged
    spent       \* history: what the bounds are about

package == <<left, prefetcher, timers, large>>
history == <<sent, answered, spent>>
vars == <<cfg, there, package, message, session, refs, statuses, results, history>>

Keys(changes) == [i \in DOMAIN changes |-> changes[i].key]
Changes == cfg.items \o cfg.removed
Spend(what) == spent[what] < cfg[what] /\ spent' = [spent EXCEPT ![what] = @ + 1]

-----------------------------------------------------------------------------
(***************************************************************************)
(* LocalChangesPackage::write                                              *)
(***************************************************************************)
BeginMessage ==
    /\ session = "open" /\ message.state = "sent" /\ left # <<>>
    /\ Len(statuses) <= cfg.late /\ timers <= cfg.late
    /\ message' = [id |-> message.id + 1, cmd |-> 0, room |-> cfg.max, state |-> "written"]
    /\ UNCHANGED <<cfg, there, package, session, refs, statuses, results, history>>

\* Without room for another command, or with the first chunk of an item, it is full
EndMessage ==
    /\ message.state # "sent" /\ message' = [message EXCEPT !.state = "sent"]
    /\ IF message.cmd = 0 THEN Spend("dry") ELSE UNCHANGED spent
    /\ IF left = <<>> THEN UNCHANGED <<prefetcher, timers>>
       ELSE /\ prefetcher' = SetBatchSizeHint(prefetcher, cfg.max - message.room)
            /\ timers' = timers + 1
    /\ UNCHANGED <<cfg, there, left, large, session, refs, statuses, results, sent, answered>>

\* Mutant: a client names its own key in an Add only, too
SourceOfAdd(change) == IF change.cmd = "Add" THEN change.key ELSE "none"

\* The source a command names: a server names its own key in an Add only
Source(change) == IF cfg.role = "client" \/ change.cmd = "Add" THEN change.key ELSE "none"

\* The other party is told: its status will name what the command did
Tell(change) == statuses' = Append(statuses,
    [msg |-> message.id, cmd |-> message.cmd + 1, source |-> Source(change)])

NewItemReference(change) == refs' = refs \cup
    {[msg |-> message.id, cmd |-> message.cmd + 1, key |-> change.key, type |-> change.cmd]}

\* processItem() has written all of the item: on to the next change
Processed(change, data) ==
    /\ NewItemReference(change) /\ Tell(change)
    /\ left' = Tail(left) /\ large' = 0
    /\ sent' = Append(sent, [msg |-> message.id, cmd |-> message.cmd + 1,
                             key |-> change.key, type |-> change.cmd, data |-> data])
    /\ message' = [message EXCEPT !.cmd = @ + 1, !.room = @ - 1]

WriteDelete ==
    /\ Head(left).cmd = "Delete" /\ Processed(Head(left), "none")
    /\ UNCHANGED prefetcher

\* Mutant: an item that cannot be read is passed over
WriteItemIfThere ==
    LET change == Head(left)
        pf     == Filled(prefetcher, change.key, cfg.max, there, cfg.omits)
    IN /\ change.cmd # "Delete" /\ large = 0
       /\ IF ItemIn(pf, change.key) = "item" THEN Processed(change, "item")
          ELSE left' = Tail(left) /\ UNCHANGED <<refs, statuses, large, sent, message>>
       /\ prefetcher' = Take(pf, change.key)

\* One that cannot be read is written without data
WriteItem ==
    LET change == Head(left)
        pf     == Filled(prefetcher, change.key, cfg.max, there, cfg.omits)
    IN /\ change.cmd # "Delete" /\ large = 0
       /\ Processed(change, ItemIn(pf, change.key))
       /\ prefetcher' = Take(pf, change.key)

\* A chunk that is not the last one: the item is kept, and the message is full
WriteChunk ==
    LET change == Head(left)
        pf     == Filled(prefetcher, change.key, cfg.max, there, cfg.omits)
    IN /\ change.cmd # "Delete" /\ change.large /\ large < cfg.chunks
       /\ IF large = 0 THEN /\ ItemIn(pf, change.key) = "item"
                            /\ prefetcher' = Take(pf, change.key)
          ELSE UNCHANGED prefetcher
       /\ Tell(change) /\ large' = large + 1
       /\ message' = [message EXCEPT !.cmd = @ + 1, !.state = "full"]
       /\ UNCHANGED <<left, refs, sent>>

WriteLastChunk ==
    /\ large > 0 /\ Processed(Head(left), "item")
    /\ UNCHANGED prefetcher

WriteCommand ==
    /\ message.state = "written" /\ message.room > 0 /\ left # <<>>
    /\ WriteDelete \/ WriteItem \/ WriteChunk \/ WriteLastChunk
    /\ UNCHANGED <<cfg, there, timers, session, results, answered, spent>>

\* The event loop has nothing else to do
IdlePrefetch ==
    /\ timers > 0 /\ message.state = "sent" /\ timers' = timers - 1
    /\ prefetcher' = Prefetch(prefetcher, there, cfg.omits)
    /\ UNCHANGED <<cfg, there, left, large, message, session, refs, statuses, results, history>>

-----------------------------------------------------------------------------
\* processItemStatus(): the reference that a status is about
Refers(status) ==
    {r \in refs : r.msg = status.msg /\ r.cmd = status.cmd /\ r.key = status.source}

\* ... is counted, whatever the status says became of the item, and dropped
ProcessItemStatus(status) ==
    IF Refers(status) = {} THEN UNCHANGED <<refs, results>>
    ELSE \E r \in Refers(status) :
             results' = [results EXCEPT ![r.type] = @ + 1] /\ refs' = refs \ {r}

HandleStatus ==
    /\ session = "open" /\ message.state = "sent" /\ statuses # <<>>
    /\ ProcessItemStatus(Head(statuses))
    /\ answered' = answered \cup {<<Head(statuses).msg, Head(statuses).cmd>>}
    /\ \/ statuses' = Tail(statuses) /\ UNCHANGED spent
       \/ statuses' = Append(Tail(statuses), Head(statuses)) /\ Spend("repeats")
    /\ UNCHANGED <<cfg, there, package, message, session, sent>>

(***************************************************************************)
(* exitSync(): the packages are deleted, and what waits for them with      *)
(* them, before the plug-in is given back.                                 *)
(***************************************************************************)
ExitSync ==
    /\ session = "open" /\ message.state = "sent" /\ session' = "ended"
    /\ timers' = 0 /\ prefetcher' = NewPrefetcher(<<>>, 0)
    /\ UNCHANGED <<cfg, there, left, large, message, refs, statuses, results, history>>

UserRemoves ==
    /\ \E key \in there : there' = there \ {key}
    /\ session = "open" /\ Spend("removes")
    /\ UNCHANGED <<cfg, package, message, session, refs, statuses, results, sent, answered>>

-----------------------------------------------------------------------------
Init ==
    /\ cfg \in Configs /\ session = "open" /\ left = Changes
    /\ there = ToSet(Keys(cfg.items))
    /\ prefetcher = NewPrefetcher(Keys(cfg.items), cfg.max)
    /\ timers = 0 /\ large = 0 /\ refs = {} /\ statuses = <<>>
    /\ message = [id |-> 0, cmd |-> 0, room |-> 0, state |-> "sent"]
    /\ results = [type \in Types |-> 0]
    /\ sent = <<>> /\ answered = {}
    /\ spent = [what \in {"removes", "dry", "repeats"} |-> 0]

Next == BeginMessage \/ WriteCommand \/ EndMessage \/ IdlePrefetch
        \/ HandleStatus \/ ExitSync \/ UserRemoves

Spec == Init /\ [][Next]_vars

(***************************************************************************)
(* A message that is begun is written, the event loop calls prefetch() in  *)
(* time, the other party answers, and the session goes on.                 *)
(***************************************************************************)
FairSpec == Spec /\ WF_vars(BeginMessage) /\ WF_vars(WriteCommand) /\ WF_vars(EndMessage)
                 /\ WF_vars(IdlePrefetch) /\ WF_vars(HandleStatus)

=============================================================================
