-------------------------- MODULE WifiKeystoreProofs --------------------------
(***************************************************************************)
(* Proofs about WifiKeystore, for any number of credentials, any blobs and *)
(* any number of changes in the two keystores.  KeystoreInv is inductive:  *)
(* besides the five properties it says what a call that is under way has   *)
(* already seen, which is what its next step relies on.                    *)
(***************************************************************************)
EXTENDS WifiKeystore, SequenceLemmas

Services == {Keystore2, LegacyKeystore}

(* The values of call: sign carries the algorithm from getKeyEntry to      *)
(* createOperation, and the key of the operation from there to finish.     *)
Calls ==
  {NoCall}
    \cup [method : Methods, key : KeyStrings,
          at : {"connect", "getKeyEntry", "connectLegacy", "getLegacy",
                "answered"}]
    \cup [method : {"sign"}, key : KeyStrings,
          at : {"createOperation", "answered"},
          algorithm : {Algorithm[k] : k \in KeyPairs}]
    \cup [method : {"sign"}, key : KeyStrings, at : {"finish", "answered"},
          signer : KeyPairs]

KeystoreTypes ==
  /\ entries \in [Descriptors -> Entries \cup {None}]
  /\ legacy \in [KeyStrings -> Blobs \cup {None}]
  /\ services \subseteq Services
  /\ changes \in Nat
  /\ call \in Calls

(* A proxy that is not dead is that of a service which is registered, and  *)
(* what the services hold now is part of what the call has seen.           *)
ProxyAlive == proxy \in Services => proxy \in services
SeesPresent ==
  call # NoCall => Snapshot(call.method, call.key) \in seen

(* What a call has seen when it is past a step.                            *)
SeenOnTheWay ==
  /\ call.at \in {"getKeyEntry", "createOperation", "finish"}
       /\ proxy # Keystore2 => \E s \in seen : Keystore2 \notin s.up
  /\ call.at \in {"connectLegacy", "getLegacy"} =>
       call.method = "getBlob" /\ \E s \in seen : Offered(s) = None
  /\ call.at = "getLegacy" /\ proxy # LegacyKeystore =>
       \E s \in seen : LegacyKeystore \notin s.up
  /\ call.at = "createOperation" =>
       \E s \in seen : call.algorithm = Algorithm[s.entry.key]
  /\ call.at = "finish" =>
       \E s \in seen : s.entry # None /\ s.entry.key = call.signer

(* What HeldKeySigns asks of a call that fails.                            *)
KeyNotHeld ==
  \/ \E s \in seen : OffersNoKey(s)
  \/ \E s, t \in seen : Algorithm[s.entry.key] # Algorithm[t.entry.key]

Answers ==
  BlobHeldDuringCall /\ HeldBlobIsFound /\ SignedByHeldKey
    /\ HeldKeySigns /\ PublicKeyOfCertificate

KeystoreInv ==
  KeystoreTypes /\ ProxyAlive /\ SeesPresent /\ SeenOnTheWay /\ Answers

------------------------------------------------------------------------------
(* The pure operators.                                                     *)

(* mkKeyDescriptor after the removal of a prefix names the credential that *)
(* the key string stands for: prefixes that say what is asked for go, and  *)
(* every other prefix stays part of the name.                              *)
LEMMA DescriptorIsCredential ==
  ASSUME NEW m \in Methods, NEW k \in KeyStrings
  PROVE  DescriptorOf(m, k) = Credential(m, k)
<1>1. k \in [prefix : STRING, name : Names \cup Grants]
  BY KeystoreAssumption
<1>2. k = [prefix |-> k.prefix, name |-> k.name] /\ k.name \in Names \cup Grants
  BY <1>1
<1> DEFINE alias == Stripped(k, PrefixesOf(m))
<1>3. alias = [prefix |-> IF k.prefix \in PrefixesOf(m) THEN "" ELSE k.prefix,
               name |-> k.name]
  BY <1>2 DEF Stripped
<1> HIDE DEF alias
<1> DEFINE uses == IF m = "getBlob" THEN {"", "CACERT_", "USRCERT_"}
                   ELSE {"", "USRPKEY_"}
<1>4. alias.prefix = "" <=> k.prefix \in uses
  BY <1>3 DEF PrefixesOf
<1>5. k.prefix \notin uses => alias = k
  BY <1>2, <1>3 DEF PrefixesOf
<1>6. alias.prefix = "" => alias = [prefix |-> "", name |-> k.name]
  BY <1>3
<1>7. alias.name = k.name
  BY <1>3
<1>8. DescriptorOf(m, k) =
        IF k.prefix \in uses /\ k.name \in Grants
        THEN [domain |-> "GRANT", id |-> GrantId[k.name]]
        ELSE [domain |-> "SELINUX", id |-> alias]
  BY <1>4, <1>7 DEF DescriptorOf, MkKeyDescriptor, alias
<1>9. Credential(m, k) =
        CASE k.prefix \in uses /\ k.name \in Grants ->
               [domain |-> "GRANT", id |-> GrantId[k.name]]
          [] k.prefix \in uses /\ k.name \in Names ->
               [domain |-> "SELINUX", id |-> [prefix |-> "", name |-> k.name]]
          [] OTHER -> [domain |-> "SELINUX", id |-> k]
  BY DEF Credential
<1> HIDE DEF uses
<1>10. CASE k.prefix \in uses /\ k.name \in Grants
  BY <1>2, <1>8, <1>9, <1>10, KeystoreAssumption
<1>11. CASE k.prefix \in uses /\ k.name \notin Grants
  BY <1>2, <1>4, <1>6, <1>8, <1>9, <1>11
<1>12. CASE k.prefix \notin uses
  BY <1>5, <1>8, <1>9, <1>12
<1>13. QED
  BY <1>10, <1>11, <1>12

(* What the parts of a blob are.                                           *)
LEMMA PartsOfBlob ==
  ASSUME NEW blob \in Seq(Parts)
  PROVE  \A i \in DOMAIN blob :
           /\ blob[i] \in [form : {"der", "pem", "unencodable", "other"},
                            key : KeyPairs \cup {None}]
           /\ blob[i].form \in {"der", "pem", "unencodable", "other"}
<1>1. \A i \in DOMAIN blob : blob[i] \in Parts
  OBVIOUS
<1>2. QED
  BY <1>1 DEF Parts

(* FirstIn is the least position at which one of the forms is found.       *)
LEMMA FirstInProperties ==
  ASSUME NEW blob \in Seq(Parts), NEW forms
  PROVE  /\ FirstIn(blob, forms) = 0 =>
              \A i \in DOMAIN blob : blob[i].form \notin forms
         /\ FirstIn(blob, forms) # 0 =>
              /\ FirstIn(blob, forms) \in DOMAIN blob
              /\ blob[FirstIn(blob, forms)].form \in forms
              /\ \A i \in DOMAIN blob :
                   blob[i].form \in forms => FirstIn(blob, forms) <= i
<1> DEFINE found == {i \in DOMAIN blob : blob[i].form \in forms}
<1>1. found \in SUBSET Nat /\ 0 \notin found
  BY DOMAIN blob = 1 .. Len(blob), Len(blob) \in Nat
<1>2. found # {} =>
        (CHOOSE i \in found : \A j \in found : i <= j) \in found
        /\ \A j \in found : (CHOOSE i \in found : \A l \in found : i <= l) <= j
  BY <1>1, LeastNatural
<1>3. FirstIn(blob, forms) =
        IF found = {} THEN 0 ELSE CHOOSE i \in found : \A j \in found : i <= j
  BY DEF FirstIn
<1>4. QED
  BY <1>1, <1>2, <1>3

(* convertDerCertToPemOrPassthrough refuses only a blob with a certificate *)
(* that cannot be encoded, and otherwise returns the form that             *)
(* wpa_supplicant is to see.                                               *)
LEMMA ConversionIsAsRead ==
  ASSUME NEW blob \in Seq(Parts)
  PROVE  LET converted == ConvertDerCertToPemOrPassthrough(blob)
         IN  IF converted = None
             THEN \E i \in DOMAIN blob : blob[i].form = "unencodable"
             ELSE converted = AsRead(blob)
<1> DEFINE stop == FirstIn(blob, {"pem", "other", "unencodable"})
<1>1. \A i \in DOMAIN blob :
        blob[i] \in [form : {"der", "pem", "unencodable", "other"},
                     key : KeyPairs \cup {None}]
  BY PartsOfBlob
<1>2. ConvertDerCertToPemOrPassthrough(blob) =
        CASE stop = 0 -> InForm(blob, "pem")
          [] stop # 0 /\ blob[stop].form = "unencodable" -> None
          [] OTHER -> blob
  BY DEF ConvertDerCertToPemOrPassthrough
<1>3. CASE stop = 0
  <2>1. \A i \in DOMAIN blob : blob[i].form = "der"
    BY <1>1, <1>3, FirstInProperties
  <2>2. InForm(blob, "pem") \in Seq(Parts)
    <3>1. \A i \in DOMAIN blob : [blob[i] EXCEPT !.form = "pem"] \in Parts
      BY <1>1 DEF Parts
    <3>2. DOMAIN blob = 1 .. Len(blob) /\ Len(blob) \in Nat
      OBVIOUS
    <3>3. QED
      BY <3>1, <3>2 DEF InForm
  <2>3. ConvertDerCertToPemOrPassthrough(blob) = InForm(blob, "pem")
    BY <1>2, <1>3
  <2>4. AsRead(blob) = InForm(blob, "pem")
    BY <2>1 DEF AsRead
  <2>5. QED
    BY <2>2, <2>3, <2>4, KeystoreAssumption
<1>4. CASE stop # 0
  <2>1. stop \in DOMAIN blob /\ blob[stop].form \in {"pem", "other", "unencodable"}
    BY <1>4, FirstInProperties
  <2>2. AsRead(blob) = blob
    BY <2>1 DEF AsRead
  <2> HIDE DEF stop
  <2>3. CASE blob[stop].form = "unencodable"
    BY <1>2, <1>4, <2>1, <2>3
  <2>4. CASE blob[stop].form # "unencodable"
    <3>1. ConvertDerCertToPemOrPassthrough(blob) = blob
      BY <1>2, <1>4, <2>4
    <3>2. QED
      BY <3>1, <2>2, KeystoreAssumption
  <2>5. QED
    BY <2>3, <2>4
<1>5. QED
  BY <1>3, <1>4

(* extractPubKey gives the key of one of the certificates, of the first    *)
(* one unless the blob begins with bytes that are no certificate.          *)
LEMMA PubKeyIsOfCertificate ==
  ASSUME NEW blob \in Seq(Parts), ExtractPubKey(blob) # <<>>
  PROVE  \E i \in DOMAIN blob :
           /\ ExtractPubKey(blob) = <<blob[i].key>>
           /\ blob[1].form # "other" => i = 1
<1> DEFINE der == blob # <<>> /\ blob[1].form \in {"der", "unencodable"}
           pem == FirstIn(blob, {"pem"})
           at == IF der THEN 1 ELSE pem
<1>1. \A i \in DOMAIN blob :
        blob[i].form \in {"der", "pem", "unencodable", "other"}
  BY PartsOfBlob
<1> HIDE DEF at
<1>2. at # 0 /\ ExtractPubKey(blob) = <<blob[at].key>>
  <2>1. ExtractPubKey(blob) =
          IF at = 0 \/ blob[at].key = None THEN <<>> ELSE <<blob[at].key>>
    BY DEF ExtractPubKey, at
  <2>2. QED
    BY <2>1
<1> USE DEF at
<1>3. DOMAIN blob = 1 .. Len(blob) /\ Len(blob) \in Nat
      /\ (blob # <<>> <=> 1 \in DOMAIN blob)
  OBVIOUS
<1>4. CASE der
  BY <1>2, <1>3, <1>4
<1>5. CASE ~der
  <2>1. pem # 0 /\ at = pem
    BY <1>2, <1>5
  <2>2. pem \in DOMAIN blob /\ \A i \in DOMAIN blob :
          blob[i].form = "pem" => pem <= i
    BY <2>1, FirstInProperties
  <2>3. 1 \in DOMAIN blob /\ blob # <<>>
    BY <2>2, <1>3
  <2>4. blob[1].form # "other" => blob[1].form = "pem"
    BY <1>1, <1>5, <2>3
  <2>5. blob[1].form # "other" => pem = 1
    BY <2>2, <2>3, <2>4, <1>3
  <2>6. QED
    BY <1>2, <2>1, <2>2, <2>5
<1>6. QED
  BY <1>4, <1>5
------------------------------------------------------------------------------
(* The steps of a call.                                                    *)

(* What the values of call have in common, and what an assignment to at    *)
(* leaves of them.                                                         *)
LEMMA CallProperties ==
  ASSUME NEW c \in Calls
  PROVE  /\ c.at = "none" <=> c = NoCall
         /\ c # NoCall => /\ c.method \in Methods /\ c.key \in KeyStrings
                          /\ [c EXCEPT !.at = "answered"] \in Calls
         /\ \A a : c # NoCall => /\ [c EXCEPT !.at = a].at = a
                                 /\ [c EXCEPT !.at = a].method = c.method
                                 /\ [c EXCEPT !.at = a].key = c.key
         /\ c.at \in {"connect", "getKeyEntry", "connectLegacy"} =>
              \A a \in {"getKeyEntry", "connectLegacy", "getLegacy"} :
                [c EXCEPT !.at = a] \in Calls
         /\ c.at \in {"createOperation", "finish"} => c.method = "sign"
         /\ c.at = "finish" => c.signer \in KeyPairs
  BY DEF Calls, NoCall, Methods

(* A blob that one of the keystores may hold.                              *)
LEMMA HeldTypes ==
  ASSUME KeystoreTypes, NEW m \in Methods, NEW k \in KeyStrings
  PROVE  /\ entries[DescriptorOf(m, k)] = Snapshot(m, k).entry
         /\ legacy[k] = Snapshot(m, k).blob
         /\ services = Snapshot(m, k).up
         /\ legacy[k] # None => legacy[k] \in Seq(Parts)
         /\ entries[DescriptorOf(m, k)] # None =>
              LET entry == entries[DescriptorOf(m, k)]
              IN  /\ entry.certificate \in Seq(Parts) \cup {None}
                  /\ entry.certificateChain \in Seq(Parts) \cup {None}
                  /\ entry.key \in KeyPairs \cup {None}
<1>1. /\ entries[DescriptorOf(m, k)] = Snapshot(m, k).entry
      /\ legacy[k] = Snapshot(m, k).blob
      /\ services = Snapshot(m, k).up
  BY DescriptorIsCredential DEF Snapshot
<1>2. DescriptorOf(m, k) \in Descriptors
  BY DEF Descriptors
<1>3. legacy[k] \in Blobs \cup {None}
      /\ entries[DescriptorOf(m, k)] \in Entries \cup {None}
  BY <1>2 DEF KeystoreTypes
<1>4. Entries \subseteq [certificate : Certificates,
                         certificateChain : Certificates,
                         key : KeyPairs \cup {None}]
      /\ Blobs \subseteq Seq(Parts)
  BY KeystoreAssumption
<1>5. QED
  BY <1>1, <1>3, <1>4 DEF Certificates

(* A step of the call itself leaves the services as they are.              *)
LEMMA CallStep ==
  ASSUME KeystoreInv, UNCHANGED stores, seen \subseteq seen', call # NoCall,
         call' \in Calls, call' # NoCall,
         call'.method = call.method, call'.key = call.key
  PROVE  /\ KeystoreTypes' /\ SeesPresent'
         /\ \A s : Offered(s)' = Offered(s)
<1>1. KeystoreTypes'
  BY DEF KeystoreInv, KeystoreTypes, stores
<1>2. \A s : Offered(s)' = Offered(s)
  BY DEF Offered
<1>3. Snapshot(call.method, call.key) \in seen
  BY DEF KeystoreInv, SeesPresent
<1>4. Snapshot(call.method, call.key)' = Snapshot(call.method, call.key)
  BY DEF Snapshot, stores
<1>5. QED
  BY <1>1, <1>2, <1>3, <1>4 DEF SeesPresent

(* Failing is right in getPublicKey, and in sign if no key was held        *)
(* throughout.                                                             *)
LEMMA FailureOfOthers ==
  ASSUME KeystoreInv, call # NoCall, Failure, UNCHANGED stores,
         seen \subseteq seen', call.method # "getBlob",
         call.method = "sign" => KeyNotHeld'
  PROVE  KeystoreTypes' /\ SeesPresent' /\ SeenOnTheWay' /\ Answers'
<1>1. call' = [call EXCEPT !.at = "answered"] /\ answer'.status = "ERROR_UNKNOWN"
  BY DEF Failure, Answer
<1>2. call' \in Calls /\ call'.at = "answered" /\ call' # NoCall
      /\ call'.method = call.method /\ call'.key = call.key
  BY <1>1, CallProperties DEF KeystoreInv, KeystoreTypes, NoCall
<1>3. KeystoreTypes' /\ SeesPresent'
  BY <1>2, CallStep
<1>4. SeenOnTheWay'
  BY <1>2 DEF SeenOnTheWay
<1>5. HeldKeySigns'
  BY <1>2 DEF HeldKeySigns, KeyNotHeld, Answered
<1>6. /\ BlobHeldDuringCall' /\ HeldBlobIsFound' /\ SignedByHeldKey'
      /\ PublicKeyOfCertificate'
  BY <1>1, <1>2
  DEF BlobHeldDuringCall, HeldBlobIsFound, SignedByHeldKey,
      PublicKeyOfCertificate, Answered
<1>7. QED
  BY <1>3, <1>4, <1>5, <1>6 DEF Answers

(* Failing in getBlob is right if neither keystore had a blob throughout.  *)
LEMMA FailureOfGetBlob ==
  ASSUME KeystoreInv, call # NoCall, Failure, UNCHANGED stores,
         seen \subseteq seen', call.method = "getBlob",
         \E s \in seen' : Offered(s) = None,
         \E s \in seen' : s.blob = None \/ LegacyKeystore \notin s.up
  PROVE  KeystoreTypes' /\ SeesPresent' /\ SeenOnTheWay' /\ Answers'
<1>1. call' = [call EXCEPT !.at = "answered"] /\ answer'.status = "ERROR_UNKNOWN"
  BY DEF Failure, Answer
<1>2. call' \in Calls /\ call'.at = "answered" /\ call' # NoCall
      /\ call'.method = call.method /\ call'.key = call.key
  BY <1>1, CallProperties DEF KeystoreInv, KeystoreTypes, NoCall
<1>3. KeystoreTypes' /\ SeesPresent' /\ \A s : Offered(s)' = Offered(s)
  BY <1>2, CallStep
<1>4. SeenOnTheWay'
  BY <1>2 DEF SeenOnTheWay
<1>5. HeldBlobIsFound'
  <2>1. /\ \E s \in seen' : Offered(s)' = None
        /\ \E s \in seen' : s.blob = None \/ LegacyKeystore \notin s.up
    BY <1>3
  <2>2. QED
    BY <2>1 DEF HeldBlobIsFound
<1>6. /\ BlobHeldDuringCall' /\ SignedByHeldKey' /\ HeldKeySigns'
      /\ PublicKeyOfCertificate'
  BY <1>1, <1>2
  DEF BlobHeldDuringCall, SignedByHeldKey, HeldKeySigns,
      PublicKeyOfCertificate, Answered
<1>7. QED
  BY <1>3, <1>4, <1>5, <1>6 DEF Answers

(* The end of getBlob, with a certificate of Keystore 2.0 or with a blob   *)
(* of the legacy keystore that hides none.                                 *)
LEMMA ReturnBlobIsRight ==
  ASSUME KeystoreInv, call # NoCall, UNCHANGED <<stores, seen>>,
         call.method = "getBlob",
         NEW blob \in Seq(Parts), ReturnBlob(blob),
         NEW s \in seen,
         \/ Offered(s) = blob
         \/ /\ s.blob = blob /\ LegacyKeystore \in s.up
            /\ \E t \in seen : Offered(t) = None
  PROVE  KeystoreTypes' /\ SeesPresent' /\ SeenOnTheWay' /\ Answers'
<1> DEFINE converted == ConvertDerCertToPemOrPassthrough(blob)
<1>1. /\ call' = [call EXCEPT !.at = "answered"]
      /\ IF converted = None
         THEN /\ answer' = [status |-> "ERROR_UNKNOWN", value |-> None]
              /\ \E i \in DOMAIN blob : blob[i].form = "unencodable"
         ELSE answer' = [status |-> "SUCCESS", value |-> AsRead(blob)]
  BY ConversionIsAsRead DEF ReturnBlob, Failure, Answer
<1> HIDE DEF converted
<1>2. call' \in Calls /\ call'.at = "answered" /\ call' # NoCall
      /\ call'.method = "getBlob" /\ call'.key = call.key
  BY <1>1, CallProperties DEF KeystoreInv, KeystoreTypes, NoCall
<1>3. KeystoreTypes' /\ SeesPresent' /\ \A t : Offered(t)' = Offered(t)
  BY <1>2, CallStep
<1>4. SeenOnTheWay'
  BY <1>2 DEF SeenOnTheWay
<1>5. SignedByHeldKey' /\ HeldKeySigns' /\ PublicKeyOfCertificate'
  BY <1>2 DEF SignedByHeldKey, HeldKeySigns, PublicKeyOfCertificate, Answered
<1>6. blob # None
  BY KeystoreAssumption
<1>7. BlobHeldDuringCall'
  <2>1. SUFFICES ASSUME answer'.status = "SUCCESS"
                 PROVE  BlobHeldDuringCall'
    BY DEF BlobHeldDuringCall, Answered
  <2>2. answer'.value = AsRead(blob)
    BY <1>1, <2>1
  <2>3. CASE Offered(s) = blob
    <3>1. Offered(s)' # None /\ answer'.value = AsRead(Offered(s)')
      BY <1>3, <1>6, <2>2, <2>3
    <3>2. QED
      BY <3>1 DEF BlobHeldDuringCall, AsRead, InForm
  <2>4. CASE /\ s.blob = blob /\ LegacyKeystore \in s.up
             /\ \E t \in seen : Offered(t) = None
    <3>1. \E t \in seen' : Offered(t)' = None
      BY <1>3, <2>4
    <3>2. s \in seen' /\ s.blob # None /\ LegacyKeystore \in s.up
          /\ answer'.value = AsRead(s.blob)
      BY <1>6, <2>2, <2>4
    <3>3. QED
      BY <3>1, <3>2 DEF BlobHeldDuringCall, AsRead, InForm
  <2>5. QED
    BY <2>3, <2>4
<1>8. HeldBlobIsFound'
  <2>1. SUFFICES ASSUME answer'.status = "ERROR_UNKNOWN"
                 PROVE  HeldBlobIsFound'
    BY DEF HeldBlobIsFound, Answered
  <2>2. \E i \in DOMAIN blob : blob[i].form = "unencodable"
    BY <1>1, <2>1
  <2>3. blob \in {Offered(s)', s.blob} \ {None} /\ s \in seen'
    BY <1>3, <1>6
  <2>4. QED
    BY <2>2, <2>3 DEF HeldBlobIsFound
<1>9. QED
  BY <1>3, <1>4, <1>5, <1>7, <1>8 DEF Answers
(* Nothing in Keystore 2.0, at a moment that the call has seen.            *)
LEMMA NothingInKeystore2IsRight ==
  ASSUME KeystoreInv, UNCHANGED stores, seen \subseteq seen',
         NothingInKeystore2, call # NoCall,
         call.method = "getBlob" => call.at \in {"connect", "getKeyEntry"},
         NEW s \in seen', Offered(s) = None,
         call.method = "sign" => OffersNoKey(s)
  PROVE  KeystoreTypes' /\ SeesPresent' /\ SeenOnTheWay' /\ Answers'
<1>1. call.method = "sign" => KeyNotHeld'
  BY DEF KeyNotHeld, OffersNoKey
<1>2. CASE call.method # "getBlob"
  BY <1>1, <1>2, FailureOfOthers DEF NothingInKeystore2
<1>3. CASE call.method = "getBlob"
  <2>1. call' = [call EXCEPT !.at = "connectLegacy"]
    BY <1>3 DEF NothingInKeystore2, Goto
  <2>2. call' \in Calls /\ call'.at = "connectLegacy" /\ call' # NoCall
        /\ call'.method = "getBlob" /\ call'.key = call.key
    BY <1>3, <2>1, CallProperties DEF KeystoreInv, KeystoreTypes, NoCall
  <2>3. KeystoreTypes' /\ SeesPresent' /\ \A t : Offered(t)' = Offered(t)
    BY <1>3, <2>2, CallStep
  <2>4. SeenOnTheWay'
    BY <2>2, <2>3 DEF SeenOnTheWay
  <2>5. Answers'
    BY <2>2 DEF Answers, BlobHeldDuringCall, HeldBlobIsFound, SignedByHeldKey,
                HeldKeySigns, PublicKeyOfCertificate, Answered
  <2>6. QED
    BY <2>3, <2>4, <2>5
<1>4. QED
  BY <1>2, <1>3

(* A call begins.                                                          *)
LEMMA BeginStep ==
  ASSUME KeystoreInv, NEW m \in Methods, NEW k \in KeyStrings, Begin(m, k)
  PROVE  KeystoreInv'
<1>1. call' \in Calls /\ call'.at = "connect" /\ call'.method = m /\ call'.key = k
  BY DEF Begin, Calls
<1>2. KeystoreTypes' /\ ProxyAlive'
  BY <1>1 DEF KeystoreInv, KeystoreTypes, ProxyAlive, Begin, stores
<1>3. SeesPresent'
  <2>1. Snapshot(m, k)' = Snapshot(m, k)
    BY DEF Begin, Snapshot, stores
  <2>2. QED
    BY <1>1, <2>1 DEF Begin, SeesPresent
<1>4. SeenOnTheWay' /\ Answers'
  BY <1>1 DEF SeenOnTheWay, Answers, BlobHeldDuringCall, HeldBlobIsFound,
              SignedByHeldKey, HeldKeySigns, PublicKeyOfCertificate, Answered
<1>5. QED
  BY <1>2, <1>3, <1>4 DEF KeystoreInv

(* Keystore 2.0 is looked up.                                              *)
LEMMA CheckKeystore2Step ==
  ASSUME KeystoreInv, CheckKeystore2
  PROVE  KeystoreInv'
<1>1. call # NoCall /\ call \in Calls /\ UNCHANGED <<stores, seen>>
  BY DEF KeystoreInv, KeystoreTypes, CheckKeystore2, NoCall
<1>2. CASE Keystore2 \in services
  <2>1. call' = [call EXCEPT !.at = "getKeyEntry"] /\ proxy' = Keystore2
    BY <1>2 DEF CheckKeystore2, Goto
  <2>2. call' \in Calls /\ call'.at = "getKeyEntry" /\ call' # NoCall
        /\ call'.method = call.method /\ call'.key = call.key
    BY <1>1, <2>1, CallProperties DEF CheckKeystore2, NoCall
  <2>3. KeystoreTypes' /\ SeesPresent'
    BY <1>1, <2>2, CallStep
  <2>4. ProxyAlive' /\ SeenOnTheWay' /\ Answers'
    BY <1>1, <1>2, <2>1, <2>2
    DEF ProxyAlive, SeenOnTheWay, Answers, BlobHeldDuringCall, HeldBlobIsFound,
        SignedByHeldKey, HeldKeySigns, PublicKeyOfCertificate, Answered, stores
  <2>5. QED
    BY <2>3, <2>4 DEF KeystoreInv
<1>3. CASE Keystore2 \notin services
  <2> DEFINE s == Snapshot(call.method, call.key)
  <2>1. s \in seen /\ s.up = services
    BY <1>1 DEF KeystoreInv, SeesPresent, Snapshot
  <2>2. Offered(s) = None /\ OffersNoKey(s)
    BY <1>3, <2>1 DEF Offered, OffersNoKey
  <2> HIDE DEF s
  <2>3. NothingInKeystore2 /\ call.at = "connect" /\ proxy' = "none"
    BY <1>3 DEF CheckKeystore2
  <2>4. KeystoreTypes' /\ SeesPresent' /\ SeenOnTheWay' /\ Answers'
    BY <1>1, <2>1, <2>2, <2>3, NothingInKeystore2IsRight
  <2>5. ProxyAlive'
    BY <2>3 DEF ProxyAlive, Services, Keystore2, LegacyKeystore
  <2>6. QED
    BY <2>4, <2>5 DEF KeystoreInv
<1>4. QED
  BY <1>2, <1>3

(* The entry is read, or the service turns out to be dead.                 *)
LEMMA GetKeyEntryStep ==
  ASSUME KeystoreInv, GetKeyEntry
  PROVE  KeystoreInv'
<1> DEFINE entry == entries[DescriptorOf(call.method, call.key)]
           ok == proxy = Keystore2 /\ entry # None
           s == Snapshot(call.method, call.key)
<1>1. /\ call # NoCall /\ call \in Calls /\ UNCHANGED <<stores, seen, proxy>>
      /\ call.at = "getKeyEntry"
      /\ call.method \in Methods /\ call.key \in KeyStrings
  BY CallProperties DEF KeystoreInv, KeystoreTypes, GetKeyEntry, NoCall
<1>2. ProxyAlive'
  BY <1>1 DEF KeystoreInv, ProxyAlive, stores
<1>3. s \in seen
  BY <1>1 DEF KeystoreInv, SeesPresent
<1>4. /\ s.entry = entry /\ s.up = services
      /\ entry # None => /\ entry.certificate \in Seq(Parts) \cup {None}
                         /\ entry.certificateChain \in Seq(Parts) \cup {None}
                         /\ entry.key \in KeyPairs \cup {None}
  BY <1>1, HeldTypes DEF KeystoreInv
<1>5. \/ ~ok /\ NothingInKeystore2
      \/ /\ ok /\ call.method = "getBlob"
         /\ LET cert == CertificateField(entry, call.key)
            IN  IF cert = None THEN NothingInKeystore2 ELSE ReturnBlob(cert)
      \/ /\ ok /\ call.method = "getPublicKey"
         /\ IF entry.certificate = None THEN Failure
            ELSE Answer("SUCCESS", ExtractPubKey(entry.certificate))
      \/ /\ ok /\ call.method = "sign"
         /\ IF entry.key = None THEN Failure
            ELSE call' = [method |-> "sign", key |-> call.key,
                          at |-> "createOperation",
                          algorithm |-> Algorithm[entry.key]]
  BY DEF GetKeyEntry, SigningAlgorithm
<1> HIDE DEF entry, s
<1> SUFFICES KeystoreTypes' /\ SeesPresent' /\ SeenOnTheWay' /\ Answers'
  BY <1>2 DEF KeystoreInv
<1>6. CASE ~ok /\ NothingInKeystore2
  <2>1. \E t \in seen : Offered(t) = None /\ OffersNoKey(t)
    <3>1. CASE entry = None
      BY <1>3, <1>4, <3>1 DEF Offered, OffersNoKey
    <3>2. CASE proxy # Keystore2
      <4>1. PICK t \in seen : Keystore2 \notin t.up
        BY <1>1, <3>2 DEF KeystoreInv, SeenOnTheWay
      <4>2. QED
        BY <4>1 DEF Offered, OffersNoKey
    <3>3. QED
      BY <1>6, <3>1, <3>2
  <2>2. QED
    BY <1>1, <1>6, <2>1, NothingInKeystore2IsRight
<1>7. CASE ok /\ call.method = "getBlob"
  <2> DEFINE cert == CertificateField(entry, call.key)
  <2>1. Keystore2 \in services
    BY <1>7 DEF KeystoreInv, ProxyAlive, Services
  <2>2. Offered(s) = cert
    BY <1>4, <1>7, <2>1 DEF Offered, CertificateField
  <2>3. cert \in Seq(Parts) \cup {None}
    BY <1>4, <1>7 DEF CertificateField
  <2>4. IF cert = None THEN NothingInKeystore2 ELSE ReturnBlob(cert)
    BY <1>5, <1>7
  <2> HIDE DEF cert
  <2>5. CASE cert = None
    BY <1>1, <1>3, <1>7, <2>2, <2>4, <2>5, NothingInKeystore2IsRight
  <2>6. CASE cert # None
    BY <1>1, <1>3, <1>7, <2>2, <2>3, <2>4, <2>6, ReturnBlobIsRight
  <2>7. QED
    BY <2>5, <2>6
<1>8. CASE ok /\ call.method = "getPublicKey"
  <2>1. CASE entry.certificate = None
    BY <1>1, <1>5, <1>8, <2>1, FailureOfOthers
  <2>2. CASE entry.certificate # None
    <3>1. /\ call' = [call EXCEPT !.at = "answered"]
          /\ answer' = [status |-> "SUCCESS",
                        value |-> ExtractPubKey(entry.certificate)]
      BY <1>5, <1>8, <2>2 DEF Answer
    <3>2. call' \in Calls /\ call'.at = "answered" /\ call' # NoCall
          /\ call'.method = "getPublicKey" /\ call'.key = call.key
      BY <1>1, <1>8, <3>1, CallProperties DEF NoCall
    <3>3. KeystoreTypes' /\ SeesPresent'
      BY <1>1, <1>8, <3>2, CallStep
    <3>4. SeenOnTheWay'
      BY <3>2 DEF SeenOnTheWay
    <3>5. /\ BlobHeldDuringCall' /\ HeldBlobIsFound' /\ SignedByHeldKey'
          /\ HeldKeySigns'
      BY <3>2 DEF BlobHeldDuringCall, HeldBlobIsFound, SignedByHeldKey,
                  HeldKeySigns, Answered
    <3>6. PublicKeyOfCertificate'
      <4>1. entry.certificate \in Seq(Parts)
        BY <1>4, <1>8, <2>2
      <4>2. SUFFICES ASSUME ExtractPubKey(entry.certificate) # <<>>
                     PROVE  PublicKeyOfCertificate'
        BY <3>1 DEF PublicKeyOfCertificate
      <4>3. \E i \in DOMAIN entry.certificate :
              /\ ExtractPubKey(entry.certificate) = <<entry.certificate[i].key>>
              /\ entry.certificate[1].form # "other" => i = 1
        BY <4>1, <4>2, PubKeyIsOfCertificate
      <4>4. s \in seen' /\ s.entry # None /\ s.entry.certificate # None
            /\ answer'.value = ExtractPubKey(s.entry.certificate)
        BY <1>1, <1>3, <1>4, <1>8, <2>2, <3>1
      <4>5. QED
        BY <1>4, <4>3, <4>4 DEF PublicKeyOfCertificate
    <3>7. QED
      BY <3>3, <3>4, <3>5, <3>6 DEF Answers
  <2>3. QED
    BY <2>1, <2>2
<1>9. CASE ok /\ call.method = "sign"
  <2>1. CASE entry.key = None
    <3>1. KeyNotHeld'
      BY <1>1, <1>3, <1>4, <1>9, <2>1 DEF KeyNotHeld, OffersNoKey
    <3>2. QED
      BY <1>1, <1>5, <1>9, <2>1, <3>1, FailureOfOthers
  <2>2. CASE entry.key # None
    <3>1. call' = [method |-> "sign", key |-> call.key,
                   at |-> "createOperation", algorithm |-> Algorithm[entry.key]]
      BY <1>5, <1>9, <2>2
    <3>2. entry.key \in KeyPairs
      BY <1>4, <1>9, <2>2
    <3>3. call' \in Calls /\ call'.at = "createOperation" /\ call' # NoCall
          /\ call'.method = "sign" /\ call'.key = call.key
      BY <1>1, <3>1, <3>2 DEF Calls, NoCall
    <3>4. KeystoreTypes' /\ SeesPresent'
      BY <1>1, <1>9, <3>3, CallStep
    <3>5. Answers'
      BY <3>3 DEF Answers, BlobHeldDuringCall, HeldBlobIsFound,
                  SignedByHeldKey, HeldKeySigns, PublicKeyOfCertificate, Answered
    <3>6. s \in seen' /\ call'.algorithm = Algorithm[s.entry.key]
      BY <1>1, <1>3, <1>4, <3>1
    <3>7. SeenOnTheWay'
      BY <1>1, <1>9, <3>3, <3>6 DEF SeenOnTheWay
    <3>8. QED
      BY <3>4, <3>5, <3>7
  <2>3. QED
    BY <2>1, <2>2
<1>10. QED
  BY <1>5, <1>6, <1>7, <1>8, <1>9
(* The operation gets the key that the credential has at that moment.      *)
LEMMA CreateOperationStep ==
  ASSUME KeystoreInv, CreateOperation
  PROVE  KeystoreInv'
<1> DEFINE entry == entries[DescriptorOf(call.method, call.key)]
           s == Snapshot(call.method, call.key)
<1>1. /\ call # NoCall /\ call \in Calls /\ UNCHANGED <<stores, seen, proxy>>
      /\ call.at = "createOperation" /\ call.method = "sign"
      /\ call.method \in Methods /\ call.key \in KeyStrings
  BY CallProperties DEF KeystoreInv, KeystoreTypes, CreateOperation, NoCall
<1>2. ProxyAlive'
  BY <1>1 DEF KeystoreInv, ProxyAlive, stores
<1>3. s \in seen
  BY <1>1 DEF KeystoreInv, SeesPresent
<1>4. s.entry = entry /\ (entry # None => entry.key \in KeyPairs \cup {None})
  BY <1>1, HeldTypes DEF KeystoreInv
<1>5. IF proxy = Keystore2 /\ CanCreateOperation(entry, call.algorithm)
      THEN call' = [method |-> "sign", key |-> call.key,
                    at |-> "finish", signer |-> entry.key]
      ELSE Failure
  BY DEF CreateOperation
<1> HIDE DEF entry, s
<1>6. CASE ~(proxy = Keystore2 /\ CanCreateOperation(entry, call.algorithm))
  <2>1. KeyNotHeld'
    <3>1. CASE proxy # Keystore2
      BY <1>1, <3>1 DEF KeystoreInv, SeenOnTheWay, KeyNotHeld, OffersNoKey
    <3>2. CASE entry = None \/ (entry # None /\ entry.key = None)
      BY <1>1, <1>3, <1>4, <3>2 DEF KeyNotHeld, OffersNoKey
    <3>3. CASE entry # None /\ Algorithm[entry.key] # call.algorithm
      <4>1. PICK t \in seen : call.algorithm = Algorithm[t.entry.key]
        BY <1>1 DEF KeystoreInv, SeenOnTheWay
      <4>2. s \in seen' /\ t \in seen'
            /\ Algorithm[s.entry.key] # Algorithm[t.entry.key]
        BY <1>1, <1>3, <1>4, <3>3, <4>1
      <4>3. QED
        BY <4>2 DEF KeyNotHeld
    <3>4. QED
      BY <1>6, <3>1, <3>2, <3>3 DEF CanCreateOperation
  <2>2. QED
    BY <1>1, <1>2, <1>5, <1>6, <2>1, FailureOfOthers DEF KeystoreInv
<1>7. CASE proxy = Keystore2 /\ CanCreateOperation(entry, call.algorithm)
  <2>1. call' = [method |-> "sign", key |-> call.key,
                 at |-> "finish", signer |-> entry.key]
    BY <1>5, <1>7
  <2>2. entry # None /\ entry.key \in KeyPairs
    BY <1>4, <1>7 DEF CanCreateOperation
  <2>3. call' \in Calls /\ call'.at = "finish" /\ call' # NoCall
        /\ call'.method = "sign" /\ call'.key = call.key
        /\ call'.signer = entry.key
    BY <1>1, <2>1, <2>2 DEF Calls, NoCall
  <2>4. KeystoreTypes' /\ SeesPresent'
    BY <1>1, <2>3, CallStep
  <2>5. s \in seen' /\ s.entry # None /\ s.entry.key = call'.signer
    BY <1>1, <1>3, <1>4, <2>2, <2>3
  <2>6. SeenOnTheWay'
    BY <1>1, <1>7, <2>3, <2>5 DEF SeenOnTheWay
  <2>7. Answers'
    BY <2>3 DEF Answers, BlobHeldDuringCall, HeldBlobIsFound, SignedByHeldKey,
                HeldKeySigns, PublicKeyOfCertificate, Answered
  <2>8. QED
    BY <1>2, <2>4, <2>6, <2>7 DEF KeystoreInv
<1>8. QED
  BY <1>6, <1>7

(* The operation signs, or has been lost.                                  *)
LEMMA FinishStep ==
  ASSUME KeystoreInv, Finish
  PROVE  KeystoreInv'
<1>1. /\ call # NoCall /\ call \in Calls /\ UNCHANGED <<stores, seen, proxy>>
      /\ call.at = "finish" /\ call.method = "sign"
  BY CallProperties DEF KeystoreInv, KeystoreTypes, Finish, NoCall
<1>2. ProxyAlive'
  BY <1>1 DEF KeystoreInv, ProxyAlive, stores
<1>3. CASE proxy # Keystore2
  <2>1. Failure
    BY <1>3 DEF Finish
  <2>2. KeyNotHeld'
    BY <1>1, <1>3 DEF KeystoreInv, SeenOnTheWay, KeyNotHeld, OffersNoKey
  <2>3. QED
    BY <1>1, <1>2, <2>1, <2>2, FailureOfOthers DEF KeystoreInv
<1>4. CASE proxy = Keystore2
  <2>1. /\ call' = [call EXCEPT !.at = "answered"]
        /\ answer' = [status |-> "SUCCESS", value |-> <<call.signer>>]
    BY <1>4 DEF Finish, Answer
  <2>2. call' \in Calls /\ call'.at = "answered" /\ call' # NoCall
        /\ call'.method = "sign" /\ call'.key = call.key
    BY <1>1, <2>1, CallProperties DEF NoCall
  <2>3. KeystoreTypes' /\ SeesPresent'
    BY <1>1, <2>2, CallStep
  <2>4. PICK s \in seen : s.entry # None /\ s.entry.key = call.signer
    BY <1>1 DEF KeystoreInv, SeenOnTheWay
  <2>5. s \in seen' /\ answer'.value = <<s.entry.key>>
    BY <1>1, <2>1, <2>4
  <2>6. SignedByHeldKey'
    BY <2>4, <2>5 DEF SignedByHeldKey
  <2>7. /\ SeenOnTheWay' /\ BlobHeldDuringCall' /\ HeldBlobIsFound'
        /\ HeldKeySigns' /\ PublicKeyOfCertificate'
    BY <2>1, <2>2 DEF SeenOnTheWay, BlobHeldDuringCall, HeldBlobIsFound,
                      HeldKeySigns, PublicKeyOfCertificate, Answered
  <2>8. QED
    BY <1>2, <2>3, <2>6, <2>7 DEF KeystoreInv, Answers
<1>5. QED
  BY <1>3, <1>4

(* A service that errs has not answered at that moment.                    *)
LEMMA ErrsIsSeen ==
  ASSUME KeystoreInv, call # NoCall, NEW v \in Services, Errs(v)
  PROVE  seen \subseteq seen' /\ \E s \in seen' : v \notin s.up
<1> DEFINE s == [Snapshot(call.method, call.key) EXCEPT !.up = @ \ {v}]
<1>1. seen' = seen \cup {s}
  BY DEF Errs
<1>2. v \notin s.up
  BY DEF Snapshot
<1>3. QED
  BY <1>1, <1>2

(* Keystore 2.0 reports an error.                                          *)
LEMMA Keystore2ErrsStep ==
  ASSUME KeystoreInv, Keystore2Errs
  PROVE  KeystoreInv'
<1>1. /\ call # NoCall /\ call \in Calls /\ UNCHANGED <<stores, proxy>>
      /\ call.method = "getBlob" => call.at = "getKeyEntry"
      /\ NothingInKeystore2
  BY CallProperties DEF KeystoreInv, KeystoreTypes, Keystore2Errs, NoCall
<1>2. ProxyAlive'
  BY <1>1 DEF KeystoreInv, ProxyAlive, stores
<1>3. seen \subseteq seen' /\ \E s \in seen' : Keystore2 \notin s.up
  BY <1>1, ErrsIsSeen DEF Keystore2Errs, Services
<1>4. PICK s \in seen' : Keystore2 \notin s.up
  BY <1>3
<1>5. Offered(s) = None /\ OffersNoKey(s)
  BY <1>4 DEF Offered, OffersNoKey
<1>6. QED
  BY <1>1, <1>2, <1>3, <1>5, NothingInKeystore2IsRight DEF KeystoreInv

(* The legacy keystore is looked up.                                       *)
LEMMA CheckLegacyKeystoreStep ==
  ASSUME KeystoreInv, CheckLegacyKeystore
  PROVE  KeystoreInv'
<1>1. /\ call # NoCall /\ call \in Calls /\ UNCHANGED <<stores, seen>>
      /\ call.at = "connectLegacy"
      /\ call.method = "getBlob" /\ \E s \in seen : Offered(s) = None
  BY DEF KeystoreInv, KeystoreTypes, SeenOnTheWay, CheckLegacyKeystore, NoCall
<1>2. CASE LegacyKeystore \in services
  <2>1. call' = [call EXCEPT !.at = "getLegacy"] /\ proxy' = LegacyKeystore
    BY <1>2 DEF CheckLegacyKeystore, Goto
  <2>2. call' \in Calls /\ call'.at = "getLegacy" /\ call' # NoCall
        /\ call'.method = call.method /\ call'.key = call.key
    BY <1>1, <2>1, CallProperties DEF NoCall
  <2>3. KeystoreTypes' /\ SeesPresent' /\ \A s : Offered(s)' = Offered(s)
    BY <1>1, <2>2, CallStep
  <2>4. ProxyAlive'
    BY <1>1, <1>2, <2>1 DEF ProxyAlive, stores
  <2>5. SeenOnTheWay'
    BY <1>1, <2>1, <2>2, <2>3 DEF SeenOnTheWay
  <2>6. Answers'
    BY <2>2 DEF Answers, BlobHeldDuringCall, HeldBlobIsFound, SignedByHeldKey,
                HeldKeySigns, PublicKeyOfCertificate, Answered
  <2>7. QED
    BY <2>3, <2>4, <2>5, <2>6 DEF KeystoreInv
<1>3. CASE LegacyKeystore \notin services
  <2>1. Failure /\ proxy' = "none"
    BY <1>3 DEF CheckLegacyKeystore
  <2>2. \E s \in seen : s.blob = None \/ LegacyKeystore \notin s.up
    BY <1>1, <1>3 DEF KeystoreInv, SeesPresent, Snapshot
  <2>3. ProxyAlive'
    BY <2>1 DEF ProxyAlive, Services, Keystore2, LegacyKeystore
  <2>4. QED
    BY <1>1, <2>1, <2>2, <2>3, FailureOfGetBlob DEF KeystoreInv
<1>4. QED
  BY <1>2, <1>3

(* The blob is read from the legacy keystore.                              *)
LEMMA GetLegacyKeystoreBlobStep ==
  ASSUME KeystoreInv, GetLegacyKeystoreBlob
  PROVE  KeystoreInv'
<1> DEFINE s == Snapshot(call.method, call.key)
<1>1. /\ call # NoCall /\ call \in Calls /\ UNCHANGED <<stores, seen, proxy>>
      /\ call.at = "getLegacy"
      /\ call.method = "getBlob" /\ \E t \in seen : Offered(t) = None
      /\ call.method \in Methods /\ call.key \in KeyStrings
  BY CallProperties
  DEF KeystoreInv, KeystoreTypes, SeenOnTheWay, GetLegacyKeystoreBlob, NoCall
<1>2. ProxyAlive'
  BY <1>1 DEF KeystoreInv, ProxyAlive, stores
<1>3. s \in seen
  BY <1>1 DEF KeystoreInv, SeesPresent
<1>4. /\ s.blob = legacy[call.key] /\ s.up = services
      /\ legacy[call.key] # None => legacy[call.key] \in Seq(Parts)
  BY <1>1, HeldTypes DEF KeystoreInv
<1> HIDE DEF s
<1>5. CASE proxy = LegacyKeystore /\ legacy[call.key] # None
  <2>1. LegacyKeystore \in services
    BY <1>5 DEF KeystoreInv, ProxyAlive, Services
  <2>2. ReturnBlob(legacy[call.key])
    BY <1>5 DEF GetLegacyKeystoreBlob
  <2>3. QED
    BY <1>1, <1>2, <1>3, <1>4, <1>5, <2>1, <2>2, ReturnBlobIsRight
    DEF KeystoreInv
<1>6. CASE ~(proxy = LegacyKeystore /\ legacy[call.key] # None)
  <2>1. \E t \in seen : t.blob = None \/ LegacyKeystore \notin t.up
    BY <1>1, <1>3, <1>4, <1>6 DEF KeystoreInv, SeenOnTheWay
  <2>2. Failure
    BY <1>6 DEF GetLegacyKeystoreBlob
  <2>3. QED
    BY <1>1, <1>2, <2>1, <2>2, FailureOfGetBlob DEF KeystoreInv
<1>7. QED
  BY <1>5, <1>6

(* The legacy keystore reports an error.                                   *)
LEMMA LegacyKeystoreErrsStep ==
  ASSUME KeystoreInv, LegacyKeystoreErrs
  PROVE  KeystoreInv'
<1>1. /\ call # NoCall /\ UNCHANGED <<stores, proxy>> /\ Failure
      /\ call.method = "getBlob" /\ \E s \in seen : Offered(s) = None
  BY DEF KeystoreInv, SeenOnTheWay, LegacyKeystoreErrs, NoCall
<1>2. ProxyAlive'
  BY <1>1 DEF KeystoreInv, ProxyAlive, stores
<1>3. seen \subseteq seen' /\ \E s \in seen' : LegacyKeystore \notin s.up
  BY <1>1, ErrsIsSeen DEF LegacyKeystoreErrs, Services
<1>4. QED
  BY <1>1, <1>2, <1>3, FailureOfGetBlob DEF KeystoreInv

(* The caller has the answer.                                              *)
LEMMA ReturnStep ==
  ASSUME KeystoreInv, Return
  PROVE  KeystoreInv'
<1>1. call' = NoCall /\ NoCall \in Calls /\ call'.at = "none" /\ proxy' = "none"
  BY DEF Return, NoCall, Calls
<1>2. KeystoreTypes'
  BY <1>1 DEF KeystoreInv, KeystoreTypes, Return, stores
<1>3. ProxyAlive'
  BY <1>1 DEF ProxyAlive, Services, Keystore2, LegacyKeystore
<1>4. SeesPresent' /\ SeenOnTheWay' /\ Answers'
  BY <1>1 DEF SeesPresent, SeenOnTheWay, Answers, BlobHeldDuringCall,
              HeldBlobIsFound, SignedByHeldKey, HeldKeySigns,
              PublicKeyOfCertificate, Answered
<1>5. QED
  BY <1>2, <1>3, <1>4 DEF KeystoreInv

(* Something changes in a keystore while the call is not answered.         *)
LEMMA ChangeStep ==
  ASSUME KeystoreInv, Change
  PROVE  KeystoreInv'
<1>1. /\ call' = call /\ answer' = answer /\ call.at # "answered"
      /\ call \in Calls /\ changes' \in Nat
  BY DEF Change, KeystoreInv, KeystoreTypes
<1>2. /\ entries' \in [Descriptors -> Entries \cup {None}]
      /\ legacy' \in [KeyStrings -> Blobs \cup {None}]
      /\ services' \subseteq Services
      /\ ProxyAlive'
      /\ proxy' # proxy => proxy \notin services' /\ proxy \in Services
  <2>0. /\ entries \in [Descriptors -> Entries \cup {None}]
        /\ legacy \in [KeyStrings -> Blobs \cup {None}]
        /\ services \subseteq Services /\ ProxyAlive
    BY DEF KeystoreInv, KeystoreTypes
  <2>1. CASE \E d \in Descriptors, e \in Entries \cup {None} : PutEntry(d, e)
    BY <2>0, <2>1 DEF PutEntry, ProxyAlive
  <2>2. CASE \E k \in KeyStrings, b \in Blobs \cup {None} : PutBlob(k, b)
    BY <2>0, <2>2 DEF PutBlob, ProxyAlive
  <2>3. CASE \E s \in {Keystore2, LegacyKeystore} : ServiceStarts(s)
    BY <2>0, <2>3 DEF ServiceStarts, ProxyAlive, Services
  <2>4. CASE \E s \in {Keystore2, LegacyKeystore} : ServiceStops(s)
    BY <2>0, <2>4 DEF ServiceStops, ProxyAlive, Services, Keystore2, LegacyKeystore
  <2>5. QED
    BY <2>1, <2>2, <2>3, <2>4 DEF Change
<1>3. KeystoreTypes'
  BY <1>1, <1>2 DEF KeystoreTypes
<1>4. CASE call = NoCall
  BY <1>1, <1>2, <1>3, <1>4
  DEF KeystoreInv, SeesPresent, SeenOnTheWay, Answers, BlobHeldDuringCall,
      HeldBlobIsFound, SignedByHeldKey, HeldKeySigns, PublicKeyOfCertificate,
      Answered, NoCall
<1>5. CASE call # NoCall
  <2> DEFINE now == Snapshot(call.method, call.key)'
  <2>1. seen' = seen \cup {now}
    BY <1>5 DEF Change, Observe
  <2>2. now.up = services'
    BY DEF Snapshot
  <2>3. SeesPresent'
    BY <1>1, <2>1 DEF SeesPresent
  <2> HIDE DEF now
  <2>4. \A s : Offered(s)' = Offered(s)
    BY <1>1 DEF Offered
  <2>5. SeenOnTheWay'
    <3>1. call.at \in {"getKeyEntry", "createOperation", "finish"}
            /\ proxy' # Keystore2 => \E s \in seen' : Keystore2 \notin s.up
      BY <1>2, <2>1, <2>2 DEF KeystoreInv, SeenOnTheWay
    <3>2. call.at = "getLegacy" /\ proxy' # LegacyKeystore =>
            \E s \in seen' : LegacyKeystore \notin s.up
      BY <1>2, <2>1, <2>2 DEF KeystoreInv, SeenOnTheWay
    <3>3. call.at \in {"connectLegacy", "getLegacy"} =>
            call.method = "getBlob" /\ \E s \in seen' : Offered(s)' = None
      BY <2>1, <2>4 DEF KeystoreInv, SeenOnTheWay
    <3>4. call.at = "finish" =>
            \E s \in seen' : s.entry # None /\ s.entry.key = call.signer
      BY <2>1 DEF KeystoreInv, SeenOnTheWay
    <3>5. call.at = "createOperation" =>
            \E s \in seen' : call.algorithm = Algorithm[s.entry.key]
      BY <2>1 DEF KeystoreInv, SeenOnTheWay
    <3>6. QED
      BY <1>1, <3>1, <3>2, <3>3, <3>4, <3>5 DEF SeenOnTheWay
  <2>6. Answers'
    BY <1>1 DEF Answers, BlobHeldDuringCall, HeldBlobIsFound, SignedByHeldKey,
                HeldKeySigns, PublicKeyOfCertificate, Answered
  <2>7. QED
    BY <1>2, <1>3, <2>3, <2>5, <2>6 DEF KeystoreInv
<1>6. QED
  BY <1>4, <1>5

------------------------------------------------------------------------------
(* The theorems.                                                           *)

(* KeystoreInv holds throughout: the call knows what it relies on, however *)
(* services stop, start and change between its steps.                      *)
THEOREM KeystoreInvariant == Spec => []KeystoreInv
<1>1. Init => KeystoreInv
  BY KeystoreAssumption
  DEF Init, KeystoreInv, KeystoreTypes, Calls, NoCall, Services, ProxyAlive,
      SeesPresent, SeenOnTheWay, Answers, BlobHeldDuringCall, HeldBlobIsFound,
      SignedByHeldKey, HeldKeySigns, PublicKeyOfCertificate, Answered
<1>2. KeystoreInv /\ [Next]_vars => KeystoreInv'
  <2> SUFFICES ASSUME KeystoreInv, [Next]_vars PROVE KeystoreInv'
    OBVIOUS
  <2>1. CASE \E m \in Methods, k \in KeyStrings : Begin(m, k)
    BY <2>1, BeginStep
  <2>2. CASE CheckKeystore2
    BY <2>2, CheckKeystore2Step
  <2>3. CASE GetKeyEntry
    BY <2>3, GetKeyEntryStep
  <2>4. CASE CreateOperation
    BY <2>4, CreateOperationStep
  <2>5. CASE Finish
    BY <2>5, FinishStep
  <2>6. CASE CheckLegacyKeystore
    BY <2>6, CheckLegacyKeystoreStep
  <2>7. CASE GetLegacyKeystoreBlob
    BY <2>7, GetLegacyKeystoreBlobStep
  <2>8. CASE Return
    BY <2>8, ReturnStep
  <2>9. CASE Change
    BY <2>9, ChangeStep
  <2>10. CASE UNCHANGED vars
    BY <2>10
    DEF vars, KeystoreInv, KeystoreTypes, ProxyAlive, SeesPresent, Snapshot,
        SeenOnTheWay, Offered, OffersNoKey, Answers, BlobHeldDuringCall, HeldBlobIsFound,
        SignedByHeldKey, HeldKeySigns, PublicKeyOfCertificate, Answered
  <2>11. CASE Keystore2Errs
    BY <2>11, Keystore2ErrsStep
  <2>12. CASE LegacyKeystoreErrs
    BY <2>12, LegacyKeystoreErrsStep
  <2>13. QED
    BY <2>1, <2>2, <2>3, <2>4, <2>5, <2>6, <2>7, <2>8, <2>9, <2>10, <2>11,
       <2>12 DEF Next
<1>3. QED
  BY <1>1, <1>2, PTL DEF Spec

(* A blob that getBlob returns was there during the call, and no old blob  *)
(* of the legacy keystore hides a certificate of Keystore 2.0.             *)
THEOREM BlobIsHeld == Spec => []BlobHeldDuringCall
<1>1. KeystoreInv => BlobHeldDuringCall
  BY DEF KeystoreInv, Answers
<1>2. QED
  BY <1>1, KeystoreInvariant, PTL

(* getBlob fails only if there was nothing to return.                      *)
THEOREM BlobIsFound == Spec => []HeldBlobIsFound
<1>1. KeystoreInv => HeldBlobIsFound
  BY DEF KeystoreInv, Answers
<1>2. QED
  BY <1>1, KeystoreInvariant, PTL

(* A signature is by a key that the credential had during the call.        *)
THEOREM SignatureIsByHeldKey == Spec => []SignedByHeldKey
<1>1. KeystoreInv => SignedByHeldKey
  BY DEF KeystoreInv, Answers
<1>2. QED
  BY <1>1, KeystoreInvariant, PTL

(* sign fails only if Keystore 2.0 did not offer a key throughout the      *)
(* call, or if the key was replaced by one of another algorithm.           *)
THEOREM HeldKeyIsUsed == Spec => []HeldKeySigns
<1>1. KeystoreInv => HeldKeySigns
  BY DEF KeystoreInv, Answers
<1>2. QED
  BY <1>1, KeystoreInvariant, PTL

(* getPublicKey and getBlob agree on the certificate of a credential.      *)
THEOREM PublicKeyIsOfCertificate == Spec => []PublicKeyOfCertificate
<1>1. KeystoreInv => PublicKeyOfCertificate
  BY DEF KeystoreInv, Answers
<1>2. QED
  BY <1>1, KeystoreInvariant, PTL
==============================================================================
