------------------------------ MODULE Requests ------------------------------
(***************************************************************************)
(* How requests are made: ping, call, eval and auth of the Connector       *)
(* (tarantool_connector.hpp), select, insert, replace and remove of Box    *)
(* and its SelectBuilder (box/tntpp_box.h).  A message is begun on the     *)
(* thread of the user; a Box then resolves the space, for which it enters  *)
(* the strand when it is a name, and completes the message.                *)
(*                                                                         *)
(*   m_request_id  the Connector's counter of requests                     *)
(*   op            what each operation has come to: where it is (st), the  *)
(*                 arguments of the call and its message                   *)
(*   posted        the operations that have something queued on the strand *)
(*   m_requests    Internal::m_requests: who waits for the reply to a sync *)
(*   sent          the messages given to send_data                         *)
(*                                                                         *)
(* op[o].st is "none", "builder" (a SelectBuilder), "space" (about to be   *)
(* resolved), "entering" (suspended in enter_executor), "pack", "send"     *)
(* (send_request is posted), "sent" or "failed".  Connector.tla models     *)
(* what happens after send_request: Call there is the posting of "send"    *)
(* here.                                                                   *)
(*                                                                         *)
(* The remove that takes an index, and get_index_id, which nothing else    *)
(* calls, are left out: the one gives its index, a Space, to the other,    *)
(* which takes an Index, so that neither can be instantiated.              *)
(***************************************************************************)
EXTENDS RequestPacker, Iproto

CONSTANTS Ops,             \* operations
          SpaceVariants,   \* the spaces and indexes users give
          BuilderFields    \* the fields that users of a SelectBuilder set

VARIABLES m_request_id, op, posted, m_requests, sent

vars == <<m_request_id, op, posted, m_requests, sent>>

\* SpaceVariant: Space and Index hold nothing, an identifier or a name.  Here a name comes
\* with the identifier that it stands for on the server, which the client cannot see.
Unset == [alt |-> "monostate", id |-> 0]

ById(n) == [alt |-> "MpUint", id |-> n]

ByName(n) == [alt |-> "string_view", id |-> n]

ASSUME VariantsAssumption ==
    \A v \in SpaceVariants : v = Unset \/ (v.id \in Nat /\ v \in {ById(v.id), ByName(v.id)})

\* A SelectBuilder has a method for each of these.
ASSUME BuilderAssumption ==
    BuilderFields \subseteq {FieldType.Limit, FieldType.Offset, FieldType.Iterator,
                            FieldType.Key, FieldType.AfterPosition, FieldType.AfterTuple,
                            FieldType.FetchPosition}

\* The requests that a Box makes.
BoxKinds == {"select", "insert", "replace", "remove"}

Idle == [st |-> "none", kind |-> "none", sync |-> 0, space |-> Unset, index |-> Unset,
         space_index |-> 0, packer |-> NewPacker, onStrand |-> FALSE, eager |-> FALSE,
         dangling |-> FALSE]

Init ==
    /\ m_request_id = 0
    /\ op = [o \in Ops |-> Idle]
    /\ posted = <<>>
    /\ m_requests = <<>>
    /\ sent = <<>>
-----------------------------------------------------------------------------
(* The messages. *)

\* Mutant: an identifier is used twice.
generate_id_reuse == UNCHANGED m_request_id

\* The identifier is m_request_id; fetch_add makes this atomic.
generate_id == m_request_id' = m_request_id + 1

\* The packer after its header has been packed.
Opened(type, sync) ==
    pack(NewPacker, Item("header",
        pack_header([NewHeader EXCEPT !.sync = sync, !.request_type = type])))

ping(sync) == finalize(begin_map(Opened(RequestType.Ping, sync), 0))

call(sync) ==
    finalize(pack_map_entry(pack_map_entry(begin_map(Opened(RequestType.Call, sync), 2),
                FieldType.FunctionName, 0), FieldType.Tuple, 0))

eval(sync) ==
    finalize(pack_map_entry(pack_map_entry(begin_map(Opened(RequestType.Eval, sync), 2),
                FieldType.Expr, 0), FieldType.Tuple, 0))

auth(sync) ==
    finalize(pack_map_entry(pack_map_entry(begin_map(Opened(RequestType.Auth, sync), 2),
                FieldType.Username, 0), FieldType.Tuple, 0))

\* The messages of a Box, begun.
insert(sync)  == pack_map_entry(begin_map(Opened(RequestType.Insert, sync), 2),
                                FieldType.Tuple, 0)

replace(sync) == pack_map_entry(begin_map(Opened(RequestType.Replace, sync), 2),
                                FieldType.Tuple, 0)

remove(sync)  == pack_map_entry(begin_map(Opened(RequestType.Delete, sync), 2),
                                FieldType.Key, 0)

SelectBuilder(sync) == begin_open_map(Opened(RequestType.Select, sync))

\* Mutant: the count of a select's map is not filled in.
Completed_open(r) ==
    finalize(pack_map_entry(r.packer, FieldType.SpaceId, r.space_index))

\* The message of a Box, completed.  select does not use its index.
Completed(r) ==
    LET p == pack_map_entry(r.packer, FieldType.SpaceId, r.space_index)
    IN  finalize(IF r.kind = "select" THEN finalize_map(p) ELSE p)
-----------------------------------------------------------------------------
(* Users. *)

Begin(o, r) ==
    /\ op[o].st = "none"
    /\ generate_id
    /\ op' = [op EXCEPT ![o] = r]
    /\ UNCHANGED <<posted, m_requests, sent>>

\* A request of the Connector: its message is complete.
Request(o, kind, p, onStrand) ==
    Begin(o, [Idle EXCEPT !.st = "pack", !.kind = kind, !.sync = m_request_id,
                          !.packer = p, !.onStrand = onStrand])

Ping(o, s) == Request(o, "ping", ping(m_request_id), s)

Call(o, s) == Request(o, "call", call(m_request_id), s)

Eval(o, s) == Request(o, "eval", eval(m_request_id), s)

Auth(o, s) == Request(o, "auth", auth(m_request_id), s)

\* A request of a Box.  An eager completion token starts it before the call returns, any
\* other one later, and then holds the packer.  Only a remove is not indifferent to this:
\* the coroutines of the others own their packer.
BoxRequest(o, kind, p, space, s, eager) ==
    Begin(o, [Idle EXCEPT !.st = "space", !.kind = kind, !.sync = m_request_id,
                          !.packer = p, !.space = space, !.onStrand = s, !.eager = eager])

Insert(o, space, s) == BoxRequest(o, "insert", insert(m_request_id), space, s, FALSE)

Replace(o, space, s) == BoxRequest(o, "replace", replace(m_request_id), space, s, FALSE)

Remove(o, space, s, eager) == BoxRequest(o, "remove", remove(m_request_id), space, s, eager)

GetSelectBuilder(o, space, index) ==
    Begin(o, [Idle EXCEPT !.st = "builder", !.kind = "select", !.sync = m_request_id,
                          !.packer = SelectBuilder(m_request_id),
                          !.space = space, !.index = index])

\* SelectBuilder::index.
SetIndex(o, index) ==
    /\ op[o].st = "builder"
    /\ op[o].index = Unset
    /\ op' = [op EXCEPT ![o].index = index]
    /\ UNCHANGED <<m_request_id, posted, m_requests, sent>>

\* limit, offset, iterator, key, after_position, after_tuple and fetch_position: "each
\* method MUST NOT be called more than once".
SetField(o, field) ==
    /\ op[o].st = "builder"
    /\ Item("key", field) \notin {op[o].packer.m_stream[i] : i \in 4 .. Len(op[o].packer.m_stream)}
    /\ op' = [op EXCEPT ![o].packer = pack_map_entry(@, field, 0)]
    /\ UNCHANGED <<m_request_id, posted, m_requests, sent>>

\* build() and Box::select.
Select(o, s) ==
    /\ op[o].st = "builder"
    /\ op' = [op EXCEPT ![o].st = "space", ![o].onStrand = s]
    /\ UNCHANGED <<m_request_id, posted, m_requests, sent>>
-----------------------------------------------------------------------------
(* The coroutines. *)

\* The space is resolved, and the coroutine of the request goes on.
Resolved(o, id, onStrand) ==
    op' = [op EXCEPT ![o].st = "pack", ![o].space_index = id, ![o].onStrand = onStrand]

\* What the client takes every name for: it has no schema yet.
IdOfName == 0

\* enter_executor: the coroutine is suspended, and a call whose token was eager returns.
\* The packer of a remove dies with that call.
Park(o) ==
    /\ op' = [op EXCEPT ![o].st = "entering",
                        ![o].dangling = op[o].eager /\ op[o].kind = "remove"]
    /\ posted' = Append(posted, o)

get_space_index(o) ==
    LET alt == op[o].space.alt
    IN  /\ op[o].st = "space"
        /\ \/ /\ alt = "monostate"
              /\ op' = [op EXCEPT ![o].st = "failed"]
              /\ UNCHANGED posted
           \/ /\ alt = "MpUint"
              /\ Resolved(o, op[o].space.id, op[o].onStrand)
              /\ UNCHANGED posted
           \/ /\ alt = "string_view"
              /\ op[o].onStrand
              /\ Resolved(o, IdOfName, TRUE)
              /\ UNCHANGED posted
           \/ /\ alt = "string_view"
              /\ ~op[o].onStrand
              /\ Park(o)
        /\ UNCHANGED <<m_request_id, m_requests, sent>>

\* The lambda of send_request, on the strand.  insert() does nothing if the key is there.
Dispatched(o, message) ==
    /\ m_requests' = [s \in DOMAIN m_requests \cup {op[o].sync} |->
                          IF s \in DOMAIN m_requests THEN m_requests[s] ELSE o]
    /\ sent' = Append(sent, [op |-> o, message |-> message])

\* A message whose packer was destroyed: the bytes are whatever is there now.
Messages(r) ==
    LET p == IF r.kind \in BoxKinds THEN Completed(r) ELSE r.packer
    IN  {p.m_stream} \cup IF r.dangling THEN {<<>>} ELSE {}

\* The message is completed and given to send_request, which dispatches to the strand.
Send(o) ==
    /\ op[o].st = "pack"
    /\ \E m \in Messages(op[o]) :
          \/ /\ op[o].onStrand
             /\ op' = [op EXCEPT ![o].st = "sent"]
             /\ Dispatched(o, m)
             /\ UNCHANGED posted
          \/ /\ ~op[o].onStrand
             /\ op' = [op EXCEPT ![o].st = "send", ![o].packer.m_stream = m]
             /\ posted' = Append(posted, o)
             /\ UNCHANGED <<m_requests, sent>>
    /\ UNCHANGED m_request_id

\* The strand runs the next thing posted: send_request, or enter_executor.  Where the
\* coroutine that waits for the latter goes on is up to asio, on the strand or on the
\* executor of the caller's handler: it does not look again.
RunPosted ==
    LET o == Head(posted)
    IN  /\ posted # <<>>
        /\ posted' = Tail(posted)
        /\ \/ /\ op[o].st = "entering"
              /\ \E s \in BOOLEAN : Resolved(o, IdOfName, s)
              /\ UNCHANGED <<m_requests, sent>>
           \/ /\ op[o].st = "send"
              /\ op' = [op EXCEPT ![o].st = "sent"]
              /\ Dispatched(o, op[o].packer.m_stream)
        /\ UNCHANGED m_request_id

User(o) ==
    \/ \E s \in BOOLEAN :
          \/ Ping(o, s) \/ Call(o, s) \/ Eval(o, s) \/ Auth(o, s) \/ Select(o, s)
          \/ \E space \in SpaceVariants : Insert(o, space, s) \/ Replace(o, space, s)
          \/ \E eager \in BOOLEAN : \E space \in SpaceVariants : Remove(o, space, s, eager)
    \/ \E space, index \in SpaceVariants : GetSelectBuilder(o, space, index)
    \/ \E index \in SpaceVariants : SetIndex(o, index)
    \/ \E field \in BuilderFields : SetField(o, field)

Coroutine(o) == get_space_index(o) \/ Send(o)

Terminated == /\ \A o \in Ops : op[o].st \in {"sent", "failed"}
              /\ UNCHANGED vars

Next == (\E o \in Ops : User(o) \/ Coroutine(o)) \/ RunPosted \/ Terminated

Spec == Init /\ [][Next]_vars
-----------------------------------------------------------------------------
(* Properties. *)

\* The entries of a message's body.
Body(m) == SubSeq(m, 4, Len(m))

\* A message that the server can parse, as a request with this sync.
Parses(m, sync) ==
    /\ Len(m) >= 3
    /\ m[1] = Item("size", Len(m) - 1)
    /\ m[2].item = "header" /\ convert(m[2].val).sync = sync
    /\ m[3] = Item("map", Len(Body(m)) \div 2) /\ Len(Body(m)) % 2 = 0
    /\ \A i \in DOMAIN Body(m) : Body(m)[i].item = IF i % 2 = 1 THEN "key" ELSE "value"
    /\ \A i, j \in DOMAIN Body(m) :
          i # j /\ Body(m)[i].item = "key" => Body(m)[i] # Body(m)[j]

\* Every message sent can be parsed and carries the sync under which its operation waits
\* for the reply, whatever the order in which operations took their identifiers, were
\* resolved and reached the strand.  The exception is a remove whose packer was destroyed
\* while its coroutine waited for the strand.
SentParses ==
    \A i \in DOMAIN sent :
        LET r == op[sent[i].op] IN Parses(sent[i].message, r.sync) \/ r.dangling

\* The reply to every message sent reaches the operation that sent it.
ReplyReachesOperation ==
    \A i \in DOMAIN sent : m_requests[op[sent[i].op].sync] = sent[i].op
=============================================================================
