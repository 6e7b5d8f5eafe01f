----------------------------- MODULE WifiKeystore -----------------------------
(***************************************************************************)
(* The wifi keystore HAL of keystore.cpp: getBlob, getPublicKey and sign.  *)
(* The HAL keeps no state; a call is a sequence of binder calls to         *)
(* Keystore 2.0 and to the legacy keystore, between which the services may *)
(* stop or start and other clients may change what they hold.  Calls share *)
(* nothing, so one at a time is enough.                                    *)
(*                                                                         *)
(* A key string is its prefix and its name.  A blob is the sequence of the *)
(* certificates it consists of, each in some form and for some key pair:   *)
(* der, pem, unencodable (DER that PEM_write_bio_X509 refuses) or other    *)
(* bytes that are no certificate.                                          *)
(***************************************************************************)
EXTENDS Integers, Sequences, FiniteSets

CONSTANTS
  Names,       \* names of credentials
  Grants,      \* names that begin with keystore2_grant_id_prefix
  GrantId,     \* what parsing each of them gives, well-formed or not
  KeyStrings,  \* the arguments of calls and the keys of the legacy keystore
  KeyPairs,
  Algorithm,   \* of each key pair
  Entries,     \* what Keystore 2.0 may hold: certificate, chain and key pair
  Blobs,       \* what the legacy keystore may hold
  None,
  MaxChanges   \* bound on the changes in the two services

(* A part of a blob, and what there is for a certificate that is missing.  *)
Parts == [form : {"der", "pem", "unencodable", "other"},
          key : KeyPairs \cup {None}]
Certificates == Seq(Parts) \cup {None}

ASSUME KeystoreAssumption ==
  /\ Names \cap Grants = {}
  /\ GrantId \in [Grants -> Nat]
  /\ DOMAIN Algorithm = KeyPairs
  /\ KeyStrings \subseteq [prefix : STRING, name : Names \cup Grants]
  /\ Entries \subseteq [certificate : Certificates,
                        certificateChain : Certificates,
                        key : KeyPairs \cup {None}]
  /\ Blobs \subseteq Seq(Parts)
  /\ None \notin Entries /\ None \notin Seq(Parts) /\ None \notin KeyPairs
  /\ MaxChanges \in Nat

VARIABLES
  entries,   \* Keystore 2.0: the entry of each descriptor, or None
  legacy,    \* legacy keystore: the blob of each key string, or None
  services,  \* the services that are registered
  changes,   \* number of changes so far
  call,      \* the call that is served: method, key, point reached, locals
  proxy,     \* the service the call talks to; "dead" once that has stopped
  answer,    \* the last answer: status and value
  seen       \* for the properties only: what the services held for the
             \*   credential, and which would answer, at each moment of it

vars == <<entries, legacy, services, changes, call, proxy, answer, seen>>
stores == <<entries, legacy, services, changes>>

Keystore2 == "android.system.keystore2.IKeystoreService/default"
LegacyKeystore == "android.security.legacykeystore"
Methods == {"getBlob", "getPublicKey", "sign"}

NotAnswered == [status |-> "none", value |-> None]
NoCall == [method |-> "none", at |-> "none"]

------------------------------------------------------------------------------
(* Names.                                                                  *)

(* The alias left when a prefix that the method knows is removed.          *)
Stripped(key, prefixes) ==
  IF key.prefix \in prefixes THEN [key EXCEPT !.prefix = ""] ELSE key

(* mkKeyDescriptor.  A grant id that cannot be parsed is logged, and what  *)
(* the parser left is used as the id.                                      *)
MkKeyDescriptor(alias) ==
  IF alias.prefix = "" /\ alias.name \in Grants
  THEN [domain |-> "GRANT", id |-> GrantId[alias.name]]
  ELSE [domain |-> "SELINUX", id |-> alias]

(* Mutant: only the methods for certificates remove a prefix.              *)
PrefixesOfCertificates(method) ==
  IF method = "getBlob" THEN {"CACERT_", "USRCERT_"} ELSE {}

PrefixesOf(method) ==
  IF method = "getBlob" THEN {"CACERT_", "USRCERT_"} ELSE {"USRPKEY_"}

DescriptorOf(method, key) ==
  MkKeyDescriptor(Stripped(key, PrefixesOf(method)))

Descriptors == {DescriptorOf(m, k) : m \in Methods, k \in KeyStrings}

------------------------------------------------------------------------------
(* Certificates.                                                           *)

InForm(blob, form) == [i \in DOMAIN blob |-> [blob[i] EXCEPT !.form = form]]

(* The first position at which one of the forms is found, or 0.            *)
FirstIn(blob, forms) ==
  LET found == {i \in DOMAIN blob : blob[i].form \in forms}
  IN  IF found = {} THEN 0
      ELSE CHOOSE i \in found : \A j \in found : i <= j

(* Mutant: certificates are converted one by one, whatever the others are. *)
ConvertEach(blob) ==
  [i \in DOMAIN blob |-> IF blob[i].form = "der"
                         THEN [blob[i] EXCEPT !.form = "pem"] ELSE blob[i]]

(* convertDerCertToPemOrPassthrough: the loop ends at the first part that  *)
(* is no DER certificate, or that cannot be written as PEM.                *)
ConvertDerCertToPemOrPassthrough(blob) ==
  LET stop == FirstIn(blob, {"pem", "other", "unencodable"})
  IN  CASE stop = 0 -> InForm(blob, "pem")
        [] stop # 0 /\ blob[stop].form = "unencodable" -> None
        [] OTHER -> blob

(* Mutant: the last certificate is used.                                   *)
ExtractLastPubKey(blob) ==
  IF blob = <<>> \/ blob[Len(blob)].key = None THEN <<>>
  ELSE <<blob[Len(blob)].key>>

(* extractPubKey: of the certificate the blob begins with, or else of the  *)
(* first that is in PEM form.  An empty sequence of bytes on any failure.  *)
ExtractPubKey(blob) ==
  LET der == blob # <<>> /\ blob[1].form \in {"der", "unencodable"}
      at == IF der THEN 1 ELSE FirstIn(blob, {"pem"})
  IN  IF at = 0 \/ blob[at].key = None THEN <<>> ELSE <<blob[at].key>>

(* The field of the entry keyStore2GetCert asks for; None if it has none.  *)
CertificateField(entry, key) ==
  IF key.prefix = "CACERT_" THEN entry.certificateChain ELSE entry.certificate

------------------------------------------------------------------------------
(* The services, external to the repository.                               *)

(* For the properties only: the descriptor of the credential a key string  *)
(* stands for.  CACERT_, USRCERT_ and USRPKEY_ say what of the credential  *)
(* a method is asked for; any other prefix is part of a name.              *)
Credential(method, key) ==
  LET uses == IF method = "getBlob" THEN {"", "CACERT_", "USRCERT_"}
              ELSE {"", "USRPKEY_"}
  IN  CASE key.prefix \in uses /\ key.name \in Grants ->
             [domain |-> "GRANT", id |-> GrantId[key.name]]
        [] key.prefix \in uses /\ key.name \in Names ->
             [domain |-> "SELINUX", id |-> [prefix |-> "", name |-> key.name]]
        [] OTHER -> [domain |-> "SELINUX", id |-> key]

Snapshot(method, key) ==
  [entry |-> entries[Credential(method, key)], blob |-> legacy[key],
   up |-> services]

Observe ==
  seen' = IF call = NoCall THEN seen
          ELSE seen \cup {Snapshot(call.method, call.key)'}

(* A service fails the call it serves, whatever it holds: at that moment   *)
(* it did not answer.                                                      *)
Errs(s) ==
  seen' = seen \cup {[Snapshot(call.method, call.key) EXCEPT !.up = @ \ {s}]}

PutEntry(d, e) ==
  /\ entries[d] # e
  /\ entries' = [entries EXCEPT ![d] = e]
  /\ UNCHANGED <<legacy, services, proxy>>

PutBlob(key, blob) ==
  /\ legacy[key] # blob
  /\ legacy' = [legacy EXCEPT ![key] = blob]
  /\ UNCHANGED <<entries, services, proxy>>

ServiceStarts(s) ==
  /\ s \notin services
  /\ services' = services \cup {s}
  /\ UNCHANGED <<entries, legacy, proxy>>

ServiceStops(s) ==
  /\ s \in services
  /\ services' = services \ {s}
  /\ proxy' = IF proxy = s THEN "dead" ELSE proxy
  /\ UNCHANGED <<entries, legacy>>

Change ==
  /\ changes < MaxChanges /\ call.at # "answered"
  /\ changes' = changes + 1
  /\ \/ \E d \in Descriptors, e \in Entries \cup {None} : PutEntry(d, e)
     \/ \E k \in KeyStrings, b \in Blobs \cup {None} : PutBlob(k, b)
     \/ \E s \in {Keystore2, LegacyKeystore} : ServiceStarts(s)
     \/ \E s \in {Keystore2, LegacyKeystore} : ServiceStops(s)
  /\ UNCHANGED <<call, answer>>
  /\ Observe

(* createOperation with the algorithm the caller names.                    *)
CanCreateOperation(entry, algorithm) ==
  entry # None /\ entry.key # None /\ Algorithm[entry.key] = algorithm

------------------------------------------------------------------------------
(* The steps of a call.                                                    *)

Init ==
  /\ entries = [d \in Descriptors |-> None]
  /\ legacy = [k \in KeyStrings |-> None]
  /\ services = {Keystore2, LegacyKeystore}
  /\ changes = 0
  /\ call = NoCall
  /\ proxy = "none"
  /\ answer = NotAnswered
  /\ seen = {}

Begin(method, key) ==
  /\ call = NoCall
  /\ call' = [method |-> method, key |-> key, at |-> "connect"]
  /\ seen' = {Snapshot(method, key)}
  /\ UNCHANGED <<stores, proxy, answer>>

Goto(at) ==
  /\ call' = [call EXCEPT !.at = at]
  /\ UNCHANGED answer

Answer(status, value) ==
  /\ call' = [call EXCEPT !.at = "answered"]
  /\ answer' = [status |-> status, value |-> value]

Failure == Answer("ERROR_UNKNOWN", None)

(* The end of getBlob.                                                     *)
ReturnBlob(blob) ==
  LET converted == ConvertDerCertToPemOrPassthrough(blob)
  IN  IF converted = None THEN Failure ELSE Answer("SUCCESS", converted)

(* Mutant: whatever Keystore 2.0 does not give is an error.                *)
NoFallback == Failure

(* keyStore2GetCert, keyStore2GetPubKey or keyStore2Sign has returned no   *)
(* value: getBlob tries the legacy keystore.                               *)
NothingInKeystore2 ==
  IF call.method = "getBlob" THEN Goto("connectLegacy") ELSE Failure

(* AServiceManager_checkService, which does not wait for the service.      *)
CheckKeystore2 ==
  /\ call.at = "connect"
  /\ IF Keystore2 \in services
     THEN proxy' = Keystore2 /\ Goto("getKeyEntry")
     ELSE proxy' = "none" /\ NothingInKeystore2
  /\ UNCHANGED <<stores, seen>>

(* Mutant: sign takes every key for an RSA key.                            *)
AssumeRsa(entry) == "RSA"

(* The ALGORITHM among the authorizations of the entry's key.              *)
SigningAlgorithm(entry) == Algorithm[entry.key]

(* getKeyEntry and what each method does with the entry it returns; one    *)
(* that is only a certificate has no algorithm.                            *)
GetKeyEntry ==
  LET entry == entries[DescriptorOf(call.method, call.key)]
      ok == proxy = Keystore2 /\ entry # None
  IN  /\ call.at = "getKeyEntry"
      /\ \/ ~ok /\ NothingInKeystore2
         \/ /\ ok /\ call.method = "getBlob"
            /\ LET cert == CertificateField(entry, call.key)
               IN  IF cert = None THEN NothingInKeystore2 ELSE ReturnBlob(cert)
         \/ /\ ok /\ call.method = "getPublicKey"
            /\ IF entry.certificate = None THEN Failure
               ELSE Answer("SUCCESS", ExtractPubKey(entry.certificate))
         \/ /\ ok /\ call.method = "sign"
            /\ IF entry.key = None THEN Failure
               ELSE /\ call' = [method |-> "sign", key |-> call.key,
                                at |-> "createOperation",
                                algorithm |-> SigningAlgorithm(entry)]
                    /\ UNCHANGED answer
      /\ UNCHANGED <<stores, proxy, seen>>

(* createOperation names the key by its descriptor, not by what            *)
(* getKeyEntry returned.                                                   *)
CreateOperation ==
  LET entry == entries[DescriptorOf(call.method, call.key)]
  IN  /\ call.at = "createOperation"
      /\ IF proxy = Keystore2 /\ CanCreateOperation(entry, call.algorithm)
         THEN /\ call' = [method |-> "sign", key |-> call.key,
                          at |-> "finish", signer |-> entry.key]
              /\ UNCHANGED answer
         ELSE Failure
      /\ UNCHANGED <<stores, proxy, seen>>

(* finish: the operation has its own copy of the key.                      *)
Finish ==
  /\ call.at = "finish"
  /\ IF proxy = Keystore2 THEN Answer("SUCCESS", <<call.signer>>) ELSE Failure
  /\ UNCHANGED <<stores, proxy, seen>>

(* Keystore 2.0 reports an error for what it holds: it refuses the key, is *)
(* locked or out of operations, has dropped the operation, or gives no     *)
(* output.                                                                 *)
Keystore2Errs ==
  /\ call.at \in {"getKeyEntry", "createOperation", "finish"}
  /\ proxy = Keystore2
  /\ NothingInKeystore2
  /\ Errs(Keystore2)
  /\ UNCHANGED <<stores, proxy>>

CheckLegacyKeystore ==
  /\ call.at = "connectLegacy"
  /\ IF LegacyKeystore \in services
     THEN proxy' = LegacyKeystore /\ Goto("getLegacy")
     ELSE proxy' = "none" /\ Failure
  /\ UNCHANGED <<stores, seen>>

(* getLegacyKeystoreBlob asks for the key with its prefix.                 *)
GetLegacyKeystoreBlob ==
  /\ call.at = "getLegacy"
  /\ IF proxy = LegacyKeystore /\ legacy[call.key] # None
     THEN ReturnBlob(legacy[call.key])
     ELSE Failure
  /\ UNCHANGED <<stores, proxy, seen>>

(* The legacy keystore reports an error for what it holds.                 *)
LegacyKeystoreErrs ==
  /\ call.at = "getLegacy" /\ proxy = LegacyKeystore
  /\ Failure
  /\ Errs(LegacyKeystore)
  /\ UNCHANGED <<stores, proxy>>

(* The caller has the answer, and the HAL drops what it used.              *)
Return ==
  /\ call.at = "answered"
  /\ call' = NoCall
  /\ proxy' = "none"
  /\ answer' = NotAnswered
  /\ seen' = {}
  /\ UNCHANGED stores

Next ==
  \/ \E m \in Methods, k \in KeyStrings : Begin(m, k)
  \/ CheckKeystore2
  \/ GetKeyEntry
  \/ CreateOperation
  \/ Finish
  \/ Keystore2Errs
  \/ CheckLegacyKeystore
  \/ GetLegacyKeystoreBlob
  \/ LegacyKeystoreErrs
  \/ Return
  \/ Change

Spec == Init /\ [][Next]_vars

------------------------------------------------------------------------------
(* Properties.                                                             *)

Answered(method, status) ==
  call.at = "answered" /\ call.method = method /\ answer.status = status

(* The form in which wpa_supplicant is to see a blob: PEM if all of it is  *)
(* DER, unchanged otherwise.                                               *)
AsRead(blob) ==
  IF \A i \in DOMAIN blob : blob[i].form = "der" THEN InForm(blob, "pem")
  ELSE blob

(* The certificate Keystore 2.0 could give at a moment of the call.        *)
Offered(s) ==
  CASE Keystore2 \notin s.up \/ s.entry = None -> None
    [] OTHER -> IF call.key.prefix = "CACERT_" THEN s.entry.certificateChain
                ELSE s.entry.certificate

(* What getBlob returns is, as wpa_supplicant is to see it, a certificate  *)
(* that Keystore 2.0 offered for the key during the call, or a blob that   *)
(* the legacy keystore held during the call; the latter only if Keystore   *)
(* 2.0 did not offer one throughout, so that an old blob never hides a     *)
(* certificate (keyStore2GetCert and the fallback of getBlob).             *)
BlobHeldDuringCall ==
  Answered("getBlob", "SUCCESS") =>
    \/ \E s \in seen : Offered(s) # None /\ answer.value = AsRead(Offered(s))
    \/ /\ \E s \in seen : s.blob # None /\ LegacyKeystore \in s.up
                          /\ answer.value = AsRead(s.blob)
       /\ \E s \in seen : Offered(s) = None

(* getBlob fails only if neither Keystore 2.0 offers a certificate         *)
(* throughout the call nor the legacy keystore a blob, or if one of them   *)
(* cannot be encoded: a service that stops, starts or fails, and an entry  *)
(* without the certificate, send the call to the other keystore.           *)
HeldBlobIsFound ==
  Answered("getBlob", "ERROR_UNKNOWN") =>
    \/ /\ \E s \in seen : Offered(s) = None
       /\ \E s \in seen : s.blob = None \/ LegacyKeystore \notin s.up
    \/ \E s \in seen : \E blob \in {Offered(s), s.blob} \ {None} :
         \E i \in DOMAIN blob : blob[i].form = "unencodable"

(* A signature is by a key pair that the credential had during the call,   *)
(* even if keys are replaced between getKeyEntry, createOperation and      *)
(* finish (keyStore2Sign).                                                 *)
SignedByHeldKey ==
  Answered("sign", "SUCCESS") =>
    \E s \in seen : s.entry # None /\ answer.value = <<s.entry.key>>

(* Keystore 2.0 could give no key at a moment of the call.                 *)
OffersNoKey(s) ==
  \/ Keystore2 \notin s.up
  \/ s.entry = None
  \/ s.entry # None /\ s.entry.key = None

(* sign fails only if Keystore 2.0 did not offer a key for the credential  *)
(* throughout the call, or if a key was replaced by one of another         *)
(* algorithm: one that is replaced by a key of the same algorithm after    *)
(* getKeyEntry has told the algorithm still signs (keyStore2Sign).         *)
HeldKeySigns ==
  Answered("sign", "ERROR_UNKNOWN") =>
    \/ \E s \in seen : OffersNoKey(s)
    \/ \E s, t \in seen : Algorithm[s.entry.key] # Algorithm[t.entry.key]

(* A public key that getPublicKey returns is that of the certificate which *)
(* getBlob would give for the same credential at some moment of the call:  *)
(* of its first certificate if it begins with one (extractPubKey).         *)
PublicKeyOfCertificate ==
  Answered("getPublicKey", "SUCCESS") /\ answer.value # <<>> =>
    \E s \in seen :
      /\ s.entry # None /\ s.entry.certificate # None
      /\ \E i \in DOMAIN s.entry.certificate :
           /\ answer.value = <<s.entry.certificate[i].key>>
           /\ s.entry.certificate[1].form # "other" => i = 1

(* A successful getPublicKey answers with "the public key associated with  *)
(* the credential" (IKeystore.hal:56), not with an empty one.              *)
PublicKeyIsReturned ==
  Answered("getPublicKey", "SUCCESS") => answer.value # <<>>
==============================================================================
