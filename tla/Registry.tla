----------------------------- MODULE Registry ------------------------------
(***************************************************************************)
(* The registry of MCP servers (workers/mcp-registry-worker): what is      *)
(* listed is the curated list, one value of Workers KV, and what an        *)
(* upstream registry answers.  A post reads the whole list, appends to it  *)
(* and puts it back: of two posts that overlap one may be lost.            *)
(***************************************************************************)
EXTENDS FiniteSets, Sequences, SequencesExt

CONSTANTS Posts,     \* the servers posted, each by a call of its own
          Upstream   \* the servers the upstream lists

VARIABLES curated,  \* KV: the curated list
          post,     \* the posts: where each is, the list it read, and (history) the
                    \* servers whose posts were acknowledged when it read the list
          crossed,  \* history: <<p, q>>: p was put between q's read and q's put
          listed    \* the last list answered

vars == <<curated, post, crossed, listed>>

Post == [pc : {"new", "read", "push", "ok", "error"}, list : Seq(Posts),
         known : SUBSET Posts]

Acknowledged == {p \in Posts : post[p].pc = "ok"}

InFlight == {p \in Posts : post[p].pc \in {"read", "push"}}

Init == /\ curated = << >>
        /\ post = [p \in Posts |-> [pc |-> "new", list |-> << >>, known |-> {}]]
        /\ crossed = {} /\ listed = {}
-----------------------------------------------------------------------------
\* An upstream that fails, or answers something else, lists nothing.
fetchUpstream == {Upstream, {}}

getServers == /\ \E up \in fetchUpstream : listed' = ToSet(curated) \cup up
              /\ UNCHANGED <<curated, post, crossed>>

postServer(p) ==
    /\ post[p].pc = "new"
    /\ post' = [post EXCEPT ![p].pc = "read"]
    /\ UNCHANGED <<curated, crossed, listed>>

readCurated(p) ==
    /\ post[p].pc = "read"
    /\ post' = [post EXCEPT ![p].pc = "push", ![p].list = curated,
                                    ![p].known = Acknowledged]
    /\ UNCHANGED <<curated, crossed, listed>>

\* The whole list is put, as it was read.
putCurated(p) ==
    /\ post[p].pc = "push"
    /\ curated' = Append(post[p].list, p)
    /\ post' = [post EXCEPT ![p].pc = "ok", ![p].list = << >>, ![p].known = {}]
    /\ crossed' = crossed \cup (Acknowledged \ post[p].known) \X {p}
    /\ UNCHANGED listed

\* KV throws on the get or the put: the post is answered with an error.
fail(p) == /\ p \in InFlight
           /\ post' = [post EXCEPT ![p].pc = "error", ![p].list = << >>, ![p].known = {}]
           /\ UNCHANGED <<curated, crossed, listed>>

Next == \/ getServers
        \/ \E p \in Posts : \/ postServer(p) \/ readCurated(p) \/ putCurated(p)
                            \/ fail(p)

Spec == Init /\ [][Next]_vars
-----------------------------------------------------------------------------
(* Properties                                                              *)

TypeOK == /\ curated \in Seq(Posts) /\ post \in [Posts -> Post]
          /\ crossed \subseteq Posts \X Posts /\ listed \subseteq Posts \cup Upstream

\* Whatever posts overlap, fail and write the list back: a server whose post was
\* acknowledged is listed, or some other post had read the list before it was
\* put and was put after it; none is listed twice, and none whose post was not
\* acknowledged.  (One that such a post dropped may be back with a third.)
AcknowledgedStays ==
    /\ \A p \in Acknowledged : p \in ToSet(curated) \/ \E q \in Posts : <<p, q>> \in crossed
    /\ IsInjective(curated)
    /\ ToSet(curated) \subseteq Acknowledged
=============================================================================
