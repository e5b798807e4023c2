---------------------------- MODULE UpdateStream ----------------------------
(***************************************************************************)
(* A bot's persistent update queue: one Redis stream per bot               *)
(* (internal/storage/redis.go).  A stream is the finite set of the stream  *)
(* IDs it holds; Redis generates them in increasing order, so the number   *)
(* of an entry is its place in the order of the XADDs and the order of the *)
(* stream is the order of the numbers.  Key names, payload encoding and    *)
(* the connection pool are left out.                                       *)
(***************************************************************************)
EXTENDS Integers, FiniteSets

(* XRANGE key (cursor + COUNT n: the first n entries after the cursor.     *)
XRangeN(stream, cursor, n) ==
  {e \in stream : /\ e > cursor
                  /\ Cardinality({f \in stream : cursor < f /\ f < e}) < n}

(* ReadUpdatesAfter: a limit outside 1..page means a full page.  The model *)
(* keeps the page size (100 in the code) as a parameter.                   *)
ReadUpdatesAfter(stream, cursor, limit, page) ==
  XRangeN(stream, cursor, IF limit <= 0 \/ limit > page THEN page ELSE limit)

(* AppendUpdate: XADD with MAXLEN ~ maxLen.  Redis evicts only a prefix,   *)
(* and an approximate cap lets it keep more than maxLen entries but never  *)
(* fewer: the set of the streams that may result.                          *)
AppendUpdate(stream, entry, maxLen) ==
  LET grown == stream \cup {entry}
      from(oldest) == {e \in grown : e >= oldest}
  IN  {grown} \cup {from(oldest) : oldest \in {o \in grown :
                                       Cardinality(from(o)) >= maxLen}}

(* AckUpdate: XDEL of one entry.                                           *)
AckUpdate(stream, entry) == stream \ {entry}

(* DropPendingUpdates: the stream is deleted, the update_id counter stays. *)
DropPendingUpdates == {}
=============================================================================
