----------------------------- MODULE IbcListings -----------------------------
(***************************************************************************)
(* The listings of the gRPC services (QueryContext for IbcContext, in      *)
(* modules/src/ibc/impls.rs) while the chain goes on.  A service has a     *)
(* clone of the context on the same shared store and runs on a thread of   *)
(* its own: it takes the lock once for the keys and again for each entry,  *)
(* and reads what is pending, in the middle of transactions, too.          *)
(***************************************************************************)
EXTENDS IbcContext

VARIABLE listing    \* the listing under way

lvars == <<vars, listing>>

\* What parses under the prefix of each listing: "clients" is the prefix of
\* all that a client has, and update meta is next to the consensus states.
Under == [clientState |-> {"clientState", "consensusStates", "processedTime",
                           "processedHeight", "clientConnections"},
          consensusStates |-> {"consensusStates", "processedTime", "processedHeight"},
          connections |-> {"connections"},
          channelEnds |-> {"channelEnds"}]

\* get_keys of the prefix; that of consensus states names the client c.
GetKeys(s, kind, c) ==
  {p \in Paths : /\ p[1] \in Under[kind]
                 /\ kind = "consensusStates" => p[2] = c
                 /\ Get(s, p) # None}

\* Keys of another kind are filtered out.
Listed(s, kind, c) == {p \in GetKeys(s, kind, c) : p[1] = kind}

\* Entries are read in the order of their keys.
FirstPath(paths) ==
  CHOOSE p \in paths : \A q \in paths :
    p[2] < q[2] \/ (p[2] = q[2] /\ LexRank(p[3]) <= LexRank(q[3]))

\* The running transaction is neither applied nor reset.
Unsettled == {"tx", "failed", "panicked"}

NoListing == [kind |-> "none", keys |-> {}, left |-> {}, missing |-> FALSE,
              saw |-> "applied"]

ListingInit == Init /\ listing = NoListing

\* client_states, consensus_states, connection_ends, channel_ends: the keys.
StartListing(kind, c) ==
  LET keys == Listed(ibc, kind, c) IN
  /\ listing = NoListing
  /\ listing' = [kind |-> kind, keys |-> keys, left |-> keys, missing |-> FALSE,
                 saw |-> IF pc \in Unsettled THEN "running" ELSE "applied"]
  /\ UNCHANGED vars

\* One entry; the listing fails with the first that is gone.
ReadEntry ==
  LET p == FirstPath(listing.left) IN
  /\ listing.left # {}
  /\ ~listing.missing
  /\ listing' = IF Get(ibc, p) = None THEN [listing EXCEPT !.missing = TRUE]
                ELSE [listing EXCEPT !.left = @ \ {p}]
  /\ UNCHANGED vars

EndListing ==
  /\ listing # NoListing
  /\ listing.left = {} \/ listing.missing
  /\ listing' = NoListing
  /\ UNCHANGED vars

\* The chain goes on; what a listing has seen of a running transaction is
\* applied with it or undone with it.
ChainStep ==
  /\ Next
  /\ listing' = [listing EXCEPT !.saw =
                   IF @ # "running" \/ pc' # "block" THEN @
                   ELSE IF pc = "tx" THEN "applied" ELSE "undone"]

ListingNext ==
  \/ ChainStep
  \/ \E kind \in DOMAIN Under : \E c \in Clients : StartListing(kind, c)
  \/ ReadEntry
  \/ EndListing

ListingSpec == ListingInit /\ [][ListingNext]_lvars

-----------------------------------------------------------------------------
\* A listing whose keys were all applied in the end holds, although the chain
\* goes on and transactions come and go: clients, connections and channels are
\* all there are, numbered without a gap, and none is gone by the time its
\* entry is read.  A consensus state may be, since states are pruned, but never that
\* of the client's latest height.
ListingsHold ==
  listing.kind # "none" /\ listing.saw = "applied" =>
    /\ \A p \in listing.keys :
         Get(ibc, p) = None =>
           listing.kind = "consensusStates" /\ p[3] < ClientState(ibc, p[2]).latest
    /\ listing.missing => listing.kind = "consensusStates"
    /\ listing.kind # "consensusStates" =>
         {p[2] : p \in listing.keys} = 0 .. Cardinality(listing.keys) - 1
=============================================================================
