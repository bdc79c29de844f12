------------------------------ MODULE CertStore ------------------------------
(***************************************************************************)
(* SSLFactory (sslcertstore.cpp) and the certificates it lends to MITM     *)
(* sessions (sslmitmcom.tpp, init_server of sslcom.tpp).  Spoofed          *)
(* certificates are all signed for the default server key, and live in     *)
(* cert_mitm_cache_; an entry that is displaced releases its references.   *)
(*                                                                         *)
(* A certificate is an object with a reference count and its content:      *)
(* subject, whether it is self-signed, and subject alternative names.  A   *)
(* freed object is not allocated again.                                    *)
(***************************************************************************)
EXTENDS PtrCache

CONSTANTS
    Asks,           \* what sessions ask for: [subj, sans, self, more] of a server's
                    \* certificate and its SpoofOptions
    TlsSessions,    \* left sides of MITM sessions
    StoreMax,       \* CERTSTORE_CACHE_SIZE
    MaxSpoofs       \* bound: certificates made

ASSUME StoreMaxAssumption == StoreMax \in Nat \ {0}
ASSUME MaxSpoofsAssumption == MaxSpoofs \in Nat

VARIABLE store

NoCert == 0
CustomCert == -1

\* make_store_key: the subject, "+self_signed", and the names of the
\* certificate and of the options.
MakeStoreKey(a) == [subj |-> a.subj, self |-> a.self, sans |-> a.sans \cup a.more]

\* spoof with create_csr_from and sign_csr: the content of the certificate made.
\* Originals are version 3 certificates; one without extensions would get no
\* names at all.
Spoofed(a) == [subj |-> a.subj, self |-> a.self, sans |-> a.sans \cup a.more]

StoreKeys == {MakeStoreKey(a) : a \in Asks}

StoreInit ==
    store = [phase |-> "cold", custom |-> FALSE,
             mitm |-> EmptyCache("FIFO", StoreMax, StoreKeys),
             certOf |-> [k \in StoreKeys |-> NoCert],
             made |-> <<>>,             \* content of the certificates made so far
             refs |-> <<>>,             \* and their reference counts
             keyRefs |-> 0,             \* references to def_sr_key
             sess |-> [s \in TlsSessions |-> [st |-> "new", ask |-> {}, cert |-> NoCert]]]

-----------------------------------------------------------------------------
(* Loading.                                                                *)

\* What a process may find: the files of the three default pairs, one that the
\* server's key fits its certificate, a custom pair, and the trusted issuers as
\* a bundle or a directory.
CertFiles == {"ca-cert", "ca-key", "cl-cert", "cl-key", "srv-cert", "srv-key",
              "srv-fits", "cert", "key", "bundle", "cadir"}

\* Both files of a pair open and parse.
LoadCaCert(files) == {"ca-cert", "ca-key"} \subseteq files
LoadDefClCert(files) == {"cl-cert", "cl-key"} \subseteq files
LoadDefSrCert(files) == {"srv-cert", "srv-key"} \subseteq files

\* load_from_files; the portal's pair is kept as text and may be missing.
LoadFromFiles(files) ==
    LoadCaCert(files) /\ LoadDefClCert(files) /\ LoadDefSrCert(files)

\* load_cert_pair of a directory named after an SNI or an address.
LoadCertPair(files) == {"cert", "key"} \subseteq files

\* load_certs_from: a pair gets a context and a place in cert_custom_cache_;
\* what is wrong with others is logged.
LoadCertsFrom(f, files) == [f EXCEPT !.custom = LoadCertPair(files)]

\* load_trust_store: the bundle, or else the directory.
LoadTrustStore(files) == "bundle" \in files \/ "cadir" \in files

\* set_verify_locations does the same for a context, and client_ctx_setup and
\* client_dtls_ctx_setup exit when it fails.
ClientCtxSetup(files) == LoadTrustStore(files)

\* server_ctx_setup and server_dtls_ctx_setup: a context refers to the default
\* key.
ServerCtxSetup(f) == [f EXCEPT !.keyRefs = @ + 1]

\* init(): the process exits when the defaults or the trust store are missing,
\* or when the key of a server context does not fit.
FactoryInit(files) ==
    /\ store.phase = "cold"
    /\ store' = IF LoadFromFiles(files) /\ LoadTrustStore(files) /\ ClientCtxSetup(files)
                   /\ "srv-fits" \in files
                THEN ServerCtxSetup(ServerCtxSetup(LoadCertsFrom(
                         [store EXCEPT !.phase = "ready", !.keyRefs = 1], files)))
                ELSE [store EXCEPT !.phase = "exited"]

-----------------------------------------------------------------------------
(* The cache of spoofed certificates.                                      *)

\* ~CertCacheEntry for the keys in K: certificate and key lose a reference.
ReleaseEntries(f, K) ==
    [f EXCEPT !.refs = [i \in DOMAIN @ |->
                            IF \E k \in K : f.certOf[k] = i THEN @[i] - 1 ELSE @[i]],
              !.keyRefs = @ - Cardinality(K),
              !.certOf = [k \in StoreKeys |-> IF k \in K THEN NoCert ELSE @[k]]]

\* add_mitm: the caller has found no entry for the key.
AddToCache(f, k, cert) ==
    LET c == CacheSet(f.mitm, k)
        out == CachedKeys(f.mitm) \ CachedKeys(c)
    IN  [ReleaseEntries(f, out) EXCEPT !.mitm = c, !.certOf[k] = cert]

\* Mutant: the new entry does not take a reference to the default key.
SpoofAndAddNoRef(f, a) ==
    AddToCache([f EXCEPT !.made = Append(@, Spoofed(a)), !.refs = Append(@, 1)],
               MakeStoreKey(a), Len(f.made) + 1)

\* spoof, then up_ref and add_mitm of use_cert_mitm.
SpoofAndAdd(f, a) ==
    AddToCache([f EXCEPT !.made = Append(@, Spoofed(a)), !.refs = Append(@, 1),
                         !.keyRefs = @ + 1],
               MakeStoreKey(a), Len(f.made) + 1)

Lend(f, s, a, cert) == [f EXCEPT !.sess[s] = [st |-> "lent", ask |-> {a}, cert |-> cert]]

\* find_mitm
FindMitm(f, k) == IF k \in CachedKeys(f.mitm) THEN f.certOf[k] ELSE NoCert

\* use_cert_mitm: the cached certificate or a new one; spoofing may fail, and
\* check_cert then leaves the session without a server object.
UseCertMitm(f, s, a) ==
    LET cert == FindMitm(f, MakeStoreKey(a))
    IN  IF cert # NoCert THEN {Lend(f, s, a, cert)}
        ELSE {[f EXCEPT !.sess[s].st = "failed"]} \cup
             IF Len(f.made) < MaxSpoofs
             THEN {Lend(SpoofAndAdd(f, a), s, a, Len(f.made) + 1)} ELSE {}

\* use_cert_sni and use_cert_ip.
UseCertCustom(f, s, a) == IF f.custom THEN {Lend(f, s, a, CustomCert)} ELSE {}

\* spoof_cert under the factory's lock; search stands for the options
\* mitm_cert_sni_search and mitm_cert_ip_search with a name that matches.
SpoofCert(s, a, search) ==
    /\ store.phase = "ready" /\ store.sess[s].st = "new"
    /\ store' \in IF search /\ UseCertCustom(store, s, a) # {}
                   THEN UseCertCustom(store, s, a) ELSE UseCertMitm(store, s, a)

\* init_server.  With a custom context the SSL object takes what it has;
\* otherwise SSL_use_certificate and SSL_use_PrivateKey take references, and
\* the Com takes one of each.  A certificate that was displaced since
\* spoof_cert returned is gone.
InitServer(s) ==
    LET i == store.sess[s].cert
    IN  /\ store.sess[s].st = "lent"
        /\ store' = IF i = CustomCert THEN [store EXCEPT !.sess[s].st = "serving"]
                    ELSE IF store.refs[i] = 0 THEN [store EXCEPT !.sess[s].st = "stale"]
                    ELSE [store EXCEPT !.sess[s].st = "serving", !.refs[i] = @ + 2,
                                       !.keyRefs = @ + 2]

\* ~baseSSLCom, and a new session in its place.
EndSession(s) ==
    LET i == store.sess[s].cert
        new == [st |-> "new", ask |-> {}, cert |-> NoCert]
    IN  /\ store.sess[s].st \in {"serving", "failed"}
        /\ store' = IF store.sess[s].st = "serving" /\ i # CustomCert
                    THEN [store EXCEPT !.sess[s] = new, !.refs[i] = @ - 2, !.keyRefs = @ - 2]
                    ELSE [store EXCEPT !.sess[s] = new]

\* erase_mitm
EraseMitm(k) ==
    /\ k \in CachedKeys(store.mitm)
    /\ store' = [ReleaseEntries(store, {k}) EXCEPT !.mitm = CacheErase(@, k)]

StoreNext ==
    \/ \E files \in SUBSET CertFiles : FactoryInit(files)
    \/ \E s \in TlsSessions :
          \/ \E a \in Asks, search \in BOOLEAN : SpoofCert(s, a, search)
          \/ InitServer(s) \/ EndSession(s)
    \/ \E k \in StoreKeys : EraseMitm(k)

StoreSpec == StoreInit /\ [][StoreNext]_store

-----------------------------------------------------------------------------
(* Properties.                                                             *)

StoreSession == [st : {"new", "lent", "serving", "failed", "stale"}, ask : SUBSET Asks,
                 cert : 0..MaxSpoofs \cup {CustomCert}]

StoreType ==
    [phase : {"cold", "ready", "exited"}, custom : BOOLEAN,
     mitm : CacheType(StoreKeys, StoreMax), certOf : [StoreKeys -> 0..MaxSpoofs],
     made : Seq({Spoofed(a) : a \in Asks}), refs : Seq(Nat), keyRefs : Nat,
     sess : [TlsSessions -> StoreSession]]

\* The store has its type.
StoreTypeOK == store \in StoreType /\ Len(store.refs) = Len(store.made)

\* References of the factory itself: its own, def_sr_ctx and def_dtls_sr_ctx.
DefaultKeyRefs == 3

Serving(i) == {s \in TlsSessions : store.sess[s].st = "serving" /\ store.sess[s].cert = i}

\* Through spoofing, displacement, erasing and the end of sessions the
\* reference counts stay exact: a certificate lives as long as the cache or a
\* session uses it, and the default key as long as the factory, its contexts,
\* cached certificates or sessions do.
RefsAreExact ==
    /\ \A i \in DOMAIN store.refs :
          store.refs[i] = Cardinality({k \in StoreKeys : store.certOf[k] = i})
                          + 2 * Cardinality(Serving(i))
    /\ store.phase = "ready" =>
          store.keyRefs = DefaultKeyRefs + Cardinality(CachedKeys(store.mitm))
              + 2 * Cardinality(UNION {Serving(i) : i \in DOMAIN store.refs})

\* A client is shown the certificate its session asked for, whichever session
\* had it made and whatever was displaced meanwhile.
ServedAsAsked ==
    \A i \in DOMAIN store.refs : \A s \in Serving(i) :
        \A a \in store.sess[s].ask : store.made[i] = Spoofed(a)

\* A session with a server object shows a live certificate, and the one it asked
\* for: reference counts are exact (RefsAreExact) and the key of the cache tells everything
\* apart that makes certificates differ (ServedAsAsked).
StoreSound == RefsAreExact /\ ServedAsAsked

-----------------------------------------------------------------------------
(* The inductive invariant behind StoreSound.                              *)

\* cert_mitm_cache_ is a FIFO cache in good order (QueueCoversCache), and has an
\* entry for a key just when there is a certificate for it, made for that key:
\* no two entries share one, so each entry is one reference.
EntriesMatch ==
    /\ store.mitm.mode = "FIFO" /\ Len(store.mitm.items) <= StoreMax
    /\ CachedKeys(store.mitm) \subseteq Range(store.mitm.items)
    /\ \A k \in StoreKeys : store.mitm.count[k] <= store.mitm.total
    /\ IsFiniteSet(CachedKeys(store.mitm))
    /\ \A k \in StoreKeys :
          /\ store.certOf[k] \in 0..Len(store.made)
          /\ (store.certOf[k] = NoCert) = (k \notin CachedKeys(store.mitm))
          /\ store.certOf[k] # NoCert => store.made[store.certOf[k]] = k

\* A certificate was lent for what its session asked, from the moment it was.
LentAsAsked ==
    /\ \A s \in TlsSessions :
          store.sess[s].st \in {"lent", "serving"} /\ store.sess[s].cert # CustomCert =>
              /\ store.sess[s].cert \in 1..Len(store.made)
              /\ \A a \in store.sess[s].ask : store.made[store.sess[s].cert] = Spoofed(a)
    /\ IsFiniteSet({s \in TlsSessions : store.sess[s].st = "serving"})

\* Nothing is lent before the factory is ready.
ColdIsEmpty ==
    store.phase # "ready" => /\ CachedKeys(store.mitm) = {} /\ store.made = <<>>
                             /\ \A s \in TlsSessions : store.sess[s].st = "new"

StoreInv == StoreTypeOK /\ StoreSound /\ EntriesMatch /\ LentAsAsked /\ ColdIsEmpty
=============================================================================
