------------------------------ MODULE MCLibrary ------------------------------
(***************************************************************************)
(* The parts of the library that sessions share, for TLC.  They share no   *)
(* state with each other, except that CertStore is built on PtrCache, so a *)
(* behaviour moves one of them, chosen at the start, and leaves the others *)
(* as they are.                                                            *)
(***************************************************************************)
EXTENDS CertStatus, UdpConnect, CertStore, Poller, AppFlow, MemPool, ProxyContexts

CONSTANT Parts      \* the parts checked

VARIABLE part

libVars == <<part, certVars, udp, pcache, store, ep, app, mem, px>>

\* A part that does not move starts in one fixed state.
LibraryInit ==
    /\ part \in Parts
    /\ CertInit /\ UdpInit /\ StoreInit /\ EpInit /\ MemInit
    /\ PcInit /\ (part # "cache" => pcache.mode = "LRU")
    /\ PxInit /\ (part # "proxy" => px.locked)
    /\ AppInit /\ (part # "app" => app.mode = "PRE")

LibraryNext ==
    \/ part = "cert" /\ CertNext /\ UNCHANGED <<part, udp, pcache, store, ep, app, mem, px>>
    \/ part = "udp" /\ UdpNext /\ UNCHANGED <<part, certVars, pcache, store, ep, app, mem, px>>
    \/ part = "cache" /\ PcNext /\ UNCHANGED <<part, certVars, udp, store, ep, app, mem, px>>
    \/ part = "store" /\ StoreNext /\ UNCHANGED <<part, certVars, udp, pcache, ep, app, mem, px>>
    \/ part = "poller" /\ EpNext /\ UNCHANGED <<part, certVars, udp, pcache, store, app, mem, px>>
    \/ part = "app" /\ AppNext /\ UNCHANGED <<part, certVars, udp, pcache, store, ep, mem, px>>
    \/ part = "mem" /\ MemNext /\ UNCHANGED <<part, certVars, udp, pcache, store, ep, app, px>>
    \/ part = "proxy" /\ PxNext /\ UNCHANGED <<part, certVars, udp, pcache, store, ep, app, mem>>

LibrarySpec == LibraryInit /\ [][LibraryNext]_libVars

\* The part that moves has its type.
LibraryTypeOK ==
    /\ part = "cert" => CertTypeOK
    /\ part = "udp" => UdpTypeOK
    /\ part = "cache" => PcTypeOK
    /\ part = "store" => PcTypeOK /\ StoreTypeOK
    /\ part = "poller" => EpTypeOK
    /\ part = "app" => AppTypeOK
    /\ part = "mem" => MemTypeOK
    /\ part = "proxy" => PxTypeOK

-----------------------------------------------------------------------------
(* Constants.                                                              *)

\* Stapling and transparency required, without replacement page; then the status
\* checked and enforced, with one; then no trust store.
Strict == [allow |-> {"INVALID"}, repl |-> FALSE, staple |-> TRUE, mode |-> 2,
           enforce |-> FALSE, ct |-> TRUE, client |-> 1, tickets |-> TRUE, store |-> TRUE]
Lenient == [Strict EXCEPT !.allow = {}, !.repl = TRUE, !.mode = 1, !.enforce = TRUE,
                          !.ct = FALSE]
Storeless == [Strict EXCEPT !.store = FALSE, !.client = 0, !.ct = FALSE]
MCPolicies == {Strict, Lenient, Storeless}
MCUrls == <<"u1">>

\* Two Coms speak for the same client, one is a plain one.
MCKeyOf == [c \in {"n1", "n2", "p1"} |-> IF c = "p1" THEN "" ELSE "k"]

\* What sessions ask for: a copy, a self-signed certificate, a copy with a name
\* added.
Plain == [subj |-> "o1", sans |-> {}, self |-> FALSE, more |-> {}]
MCAsks == {Plain, [Plain EXCEPT !.self = TRUE], [Plain EXCEPT !.more = {"n"}]}

\* Two signatures that alternate between the sides.
El(side, byte) == [side |-> side, byte |-> byte]
MCSignatures == {<<El("r", 1), El("w", 2)>>, <<El("r", 1), El("w", 1), El("r", 4)>>}
=============================================================================
