---------------------------- MODULE Manifests ----------------------------
(***************************************************************************)
(* Keys and manifests.  A user is named by its primary key; the manifest of *)
(* a user lists further keys that may sign and read for it.  A client keeps *)
(* in a context the keys it has met and the owners of each of them, and     *)
(* decides by it which manifests it accepts, which it can read, with which  *)
(* key it signs and to which keys it encrypts.                              *)
(*                                                                          *)
(* A manifest is its signer, the keys it is encrypted to and its fields.    *)
(* Contexts are values, but the lists of owners in them are shared by a     *)
(* context and its copies; they live, with the directory of keys, in the    *)
(* memory m of the client's process, for each key one after the other.      *)
(***************************************************************************)
EXTENDS Naturals, FiniteSets, Sequences

CONSTANTS
    Keys,  \* of users, and their other keys
    None

\* Whoever is let in by "*" in an access list.
Everybody == "*"

-----------------------------------------------------------------------------
\* Contexts.

NewContext == [keys |-> {}, secret |-> {}, owns |-> [k \in Keys |-> 0], local |-> FALSE]

\* A copy has keys of its own, and the lists of owners of the context it is made from.
Copy(c) == [c EXCEPT !.local = FALSE]

RecognizeLocalKeys(c) == [c EXCEPT !.local = TRUE]

\* Several keys are added, with the owners "of" names for them.  They are stored on disk
\* as well; a secret key found there comes with it.  A context that has no list of owners
\* of a key makes one; otherwise the list it has grows.
AddPubkeys(m, c, keys, of) ==
    [m |-> [m EXCEPT !.pub = @ \union keys,
                     !.lists = [k \in Keys |->
                         IF of[k] = {} THEN m.lists[k]
                         ELSE IF c.owns[k] = 0 THEN Append(m.lists[k], of[k])
                         ELSE [m.lists[k] EXCEPT ![c.owns[k]] = @ \union of[k]]]],
     c |-> [c EXCEPT !.keys = @ \union keys,
                     !.secret = @ \union (keys \intersect m.sec),
                     !.owns = [k \in Keys |->
                         IF of[k] # {} /\ c.owns[k] = 0 THEN Len(m.lists[k]) + 1 ELSE c.owns[k]]]]

NoLists == [k \in Keys |-> <<>>]

NoOwners == [k \in Keys |-> {}]

Owners(m, c, k) == IF c.owns[k] = 0 THEN {} ELSE m.lists[k][c.owns[k]]

PossibleOwners(m, c, signer) == {signer} \union Owners(m, c, signer)

OwnKeys(m, c, owner) == {k \in Keys : owner \in Owners(m, c, k)}

\* The primary key of the owner is known, or is looked for in the key directory.
IsKnown(m, c, owner) == owner \in c.keys \/ (c.local /\ owner \in m.pub)

AllPubkeys(m, c, owner) == {owner} \union OwnKeys(m, c, owner)

\* The keys of user manifests: the first is the user's own, the others are owned by it.
AddUserKeys(m, c, users) ==
    AddPubkeys(m, c, UNION {{u.owner} \union u.pubkeys : u \in users},
               [k \in Keys |-> {u.owner : u \in {v \in users : k \in v.pubkeys}}])

-----------------------------------------------------------------------------
\* Signatures.

\* The keys sign() may take: the primary key before all others.
HasSecret(m, c, k) == k \in c.secret \/ (c.local /\ k \in m.sec)

SigningKeys(m, c, owner, primaryOnly) ==
    LET first == {k \in {owner} : (owner \in c.keys \/ c.local) /\ HasSecret(m, c, k)}
        others == {k \in OwnKeys(m, c, owner) : HasSecret(m, c, k)}
    IN  IF first # {} \/ primaryOnly THEN first ELSE others

\* A signature is checked with the signer's key; the signature is taken to be genuine.
Verify(m, c, signer) == IsKnown(m, c, signer)

(* Mutant: whoever the client knows may sign for anybody. *)
AcceptsAnySigner(m, c, man, trusted, primaryOnly) ==
    IF man.signer = None
    THEN trusted # None /\ man.body.owner = trusted
    ELSE Verify(m, c, man.signer)

\* Whether a manifest is what its owner says: signed by a key of its owner, or
\* unsigned and found where only the owner writes.
Accepts(m, c, man, trusted, primaryOnly) ==
    IF man.signer = None
    THEN trusted # None /\ man.body.owner = trusted
    ELSE /\ Verify(m, c, man.signer)
         /\ man.body.owner \in IF primaryOnly THEN {man.signer}
                               ELSE PossibleOwners(m, c, man.signer)

-----------------------------------------------------------------------------
\* Encryption.  "readers" are the keys something is encrypted to, or {Everybody}
\* if it is not encrypted.  The fields of a container hold those of its storage,
\* which may have an access list of its own and then is encrypted by itself.

Reads(c, readers) == Everybody \in readers \/ readers \intersect c.secret # {}

\* Access lists that cannot be encrypted to.
CanEncryptTo(m, c, owner, access) ==
    /\ IsKnown(m, c, owner)
    /\ Everybody \in access \/ \A u \in access : IsKnown(m, c, u)

(* Mutant: only the primary keys of those in the list. *)
EncryptDictPrimary(m, c, owner, access) ==
    IF Everybody \in access THEN {Everybody}
    ELSE AllPubkeys(m, c, owner) \union access

EncryptDict(m, c, owner, access) ==
    IF Everybody \in access THEN {Everybody}
    ELSE UNION {AllPubkeys(m, c, u) : u \in access \union {owner}}

\* A storage that could not be read stays what it was.
EncryptStore(m, c, owner, store) ==
    IF ~Reads(c, store.readers) THEN store
    ELSE IF store.access = None THEN [store EXCEPT !.readers = {Everybody}]
    ELSE [store EXCEPT !.readers = EncryptDict(m, c, owner, store.access)]

\* Manifests of users and bridges are never encrypted as a whole.
Encrypts(fields) == fields.type = "container"

CanEncrypt(m, c, fields) ==
    Encrypts(fields) =>
        /\ CanEncryptTo(m, c, fields.owner, fields.access)
        /\ fields.store.access # None /\ Reads(c, fields.store.readers)
               => CanEncryptTo(m, c, fields.owner, fields.store.access)

\* The manifests that encrypt_and_sign may make of the fields: one for each key
\* that it may sign with.  (A container inside a user's catalog is encrypted by its
\* own access list, if it has one that is not open to everybody; here it has none.)
EncryptAndSign(m, c, fields) ==
    IF ~CanEncrypt(m, c, fields) THEN {}
    ELSE LET sealed == IF Encrypts(fields)
                       THEN [fields EXCEPT !.store = EncryptStore(m, c, fields.owner, @)]
                       ELSE fields
             readers == IF Encrypts(fields)
                        THEN EncryptDict(m, c, fields.owner, fields.access)
                        ELSE {Everybody}
         IN  {[signer |-> k, readers |-> readers, body |-> sealed] :
                 k \in SigningKeys(m, c, fields.owner, fields.type = "user")}

\* What is encrypted inside a manifest stays closed to those who cannot read it.
IsOpen(c, fields) == Encrypts(fields) => Reads(c, fields.store.readers)

\* What from_bytes makes of a manifest, or None: it is accepted and can be read.
FromBytes(m, c, man, trusted, primaryOnly) ==
    IF Accepts(m, c, man, trusted, primaryOnly) /\ Reads(c, man.readers)
    THEN [man |-> man, body |-> man.body, ctx |-> c, open |-> IsOpen(c, man.body)]
    ELSE None

\* A user manifest is checked with the key it brings, and its keys are added.
VerifyAndLoadPubkeys(m, c, man) ==
    IF man.body.type = "user" /\ man.signer # man.body.owner
    THEN [ok |-> FALSE, m |-> m, c |-> c]
    ELSE IF man.body.type = "user"
    THEN LET keys == {man.body.owner} \union man.body.pubkeys
             all == AddPubkeys(m, c, keys, [k \in Keys |-> IF k \in keys THEN {man.body.owner} ELSE {}])
         IN  [ok |-> TRUE, m |-> all.m, c |-> all.c]
    ELSE [ok |-> Verify(m, c, man.signer), m |-> m, c |-> c]
=============================================================================
