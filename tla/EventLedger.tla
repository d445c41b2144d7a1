---------------------------- MODULE EventLedger ----------------------------
(***************************************************************************)
(* How a ledger (memory.py) is read: an append-only sequence of events,    *)
(* whose index is the event id, through windows of the newest events.      *)
(***************************************************************************)
EXTENDS Naturals, Sequences, FiniteSets

\* The `limit' largest of a set of ids: ORDER BY id DESC LIMIT.
Newest(ids, limit) == {i \in ids : Cardinality({j \in ids : j > i}) < limit}

IdsOfKind(log, kind) == {i \in DOMAIN log : log[i].kind = kind}

\* events_of_kind: the newest events of a kind, not all of them.
EventsOfKind(log, kind, limit) == Newest(IdsOfKind(log, kind), limit)
=============================================================================
