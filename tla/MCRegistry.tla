------------------------------ MODULE MCRegistry ------------------------------
(***************************************************************************)
(* Registry for TLC: two protocols that share an option, a match in two    *)
(* revisions with an alias of it in the same file, a target of its own and *)
(* the standard target.                                                    *)
(***************************************************************************)
EXTENDS Registry

CONSTANTS tcp, udp, conntrack1, state0, state1, state2, LOG, standard

D(kind, name, alias, revision, specific, options) ==
    [kind |-> kind, name |-> name, alias |-> alias, revision |-> revision,
     specific |-> specific, options |-> options]
StructsValue == {tcp, udp, conntrack1, state0, state1, state2, LOG, standard}
DescValue == [s \in StructsValue |->
    CASE s = tcp        -> D("match", "tcp", FALSE, 0, FALSE, {"sport", "syn"})
      [] s = udp        -> D("match", "udp", FALSE, 0, FALSE, {"sport"})
      [] s = conntrack1 -> D("match", "conntrack", FALSE, 1, TRUE, {"ctstate"})
      [] s = state1     -> D("match", "state", TRUE, 1, FALSE, {"state"})
      [] s = state2     -> D("match", "state", TRUE, 2, FALSE, {"state"})
      [] s = state0     -> D("match", "state", FALSE, 0, FALSE, {"state"})
      [] s = LOG        -> D("target", "LOG", FALSE, 0, TRUE, {"prefix"})
      [] s = standard   -> D("target", "standard", FALSE, 0, FALSE, {})]

FilesValue == [tcp |-> <<tcp>>, udp |-> <<udp>>, LOG |-> <<LOG>>, standard |-> <<standard>>,
               conntrack |-> <<conntrack1, state1, state2, state0>>]
FileOfValue == [tcp |-> "tcp", udp |-> "udp", LOG |-> "LOG", standard |-> "standard",
                conntrack |-> "conntrack", state |-> "conntrack"]
Always == {tcp, udp, LOG, standard}
KernelsValue == {Always \cup {conntrack1, state1}, Always \cup {state0}}
=============================================================================
