---------------------------- MODULE OperationsProofs ----------------------------
(***************************************************************************)
(* Proofs about Operations, for any catalog, any bodies, any grants and    *)
(* any number of changes by other sessions.  First the operators of the    *)
(* kinds: what the statements of a body make of the catalog (Does,         *)
(* Updated).  Then OperationsInv, which relates the catalog that an        *)
(* operation meets to the one it read, and the theorems about Spec.        *)
(***************************************************************************)
EXTENDS Operations, FiniteSetTheorems, TLAPS

-------------------------------------------------------------------------------
(* Catalogs.                                                               *)

(* Where an object is, what it has, and the object of both.                *)
AddressSound(ref) ==
  /\ ref.kind \in Kinds /\ ref.name \in Name
  /\ ref.kind \in DatabaseKinds => ref.ns = Database

AttributesSound(k, at) ==
  /\ DOMAIN at = AttributesOf[k]
  /\ k = "role" => DOMAIN at.config = Key
  /\ k = "publication" => at.all \in BOOLEAN /\ (at.all => at.tables = {})

Object(ref, at) == [kind |-> ref.kind, ns |-> ref.ns, name |-> ref.name, at |-> at]

Sound(x) == x = Object(x, x.at) /\ AddressSound(x) /\ AttributesSound(x.kind, x.at)

SameName(x, y) == x.kind = y.kind /\ x.ns = y.ns /\ x.name = y.name

(* A catalog that Postgres can store.                                      *)
Stored(o) ==
  /\ o = [i \in Oid |-> o[i]]
  /\ \A i \in Oid : o[i] = NoObject \/ Sound(o[i])
  /\ \A i, j \in Oid : Sound(o[i]) /\ Sound(o[j]) /\ SameName(o[i], o[j]) => i = j

(* u is o but for the object i, which is there under ref, with at.         *)
Does(o, u, i, ref, at) ==
  /\ Stored(u) /\ OthersKept(o, u, i)
  /\ i \in Oid /\ u[i] = Object(ref, at)
  /\ AddressSound(ref) /\ AttributesSound(ref.kind, at)

(* An object made of a sound address and sound attributes is sound.        *)
LEMMA SoundObject ==
  ASSUME NEW ref, NEW at, AddressSound(ref), AttributesSound(ref.kind, at)
  PROVE  Sound(Object(ref, at)) /\ Object(ref, at) # NoObject
<1> DEFINE x == Object(ref, at)
<1>1. x.kind = ref.kind /\ x.ns = ref.ns /\ x.name = ref.name /\ x.at = at
  BY DEF Object
<1>2. x = Object(x, x.at)
  BY <1>1 DEF Object
<1>3. NoObject.kind = "none" /\ "none" \notin Kinds
  BY DEF NoObject, Kinds, ByName, Read
<1> HIDE DEF x
<1>4. Sound(x) /\ x # NoObject
  BY <1>1, <1>2, <1>3 DEF Sound, AddressSound
<1>5. QED
  BY <1>4 DEF x

(* A sound object is not the absence of one.                               *)
LEMMA SoundMade ==
  ASSUME NEW x, Sound(x) PROVE x.kind # "none" /\ x # NoObject
BY DEF Sound, AddressSound, Kinds, ByName, Read, NoObject

(* Every object of a stored catalog is sound.                              *)
LEMMA MadeSound ==
  ASSUME NEW o, Stored(o), NEW i \in Made(o)
  PROVE  i \in Oid /\ Sound(o[i]) /\ o[i] = Object(o[i], o[i].at)
BY DEF Made, Stored, NoObject, Sound

(* A stored catalog is a legal one, and not what an abort returns.         *)
LEMMA StoredLegal ==
  ASSUME NEW o, Stored(o)
  PROVE  LegalCatalog(o) /\ o # Aborted
<1>1. LegalCatalog(o)
  BY MadeSound DEF LegalCatalog, Called, Stored, SameName, Sound, AddressSound, AttributesSound
<1>2. DOMAIN o = Oid /\ Oid # {}
  BY CatalogAssumption DEF Stored
<1>3. DOMAIN Aborted = {}
  BY DEF Aborted
<1>4. QED
  BY <1>1, <1>2, <1>3

(* In a stored catalog a name finds one object at most.                    *)
LEMMA CalledOne ==
  ASSUME NEW o, Stored(o), NEW ref, NEW i \in Called(o, ref)
  PROVE  /\ i \in Oid /\ Sound(o[i]) /\ SameName(o[i], ref)
         /\ Called(o, ref) = {i} /\ The(Called(o, ref)) = i
<1>1. \A j \in Called(o, ref) : j \in Oid /\ Sound(o[j]) /\ SameName(o[j], ref)
  BY MadeSound DEF Called, SameName
<1>2. \A j \in Called(o, ref) : j = i
  BY <1>1 DEF Stored, SameName
<1>3. Called(o, ref) = {i}
  BY <1>2
<1>4. The({i}) = i
  BY DEF The
<1>5. QED
  BY <1>1, <1>3, <1>4

(* Before the first statement: what is called something is there.          *)
LEMMA CalledDoes ==
  ASSUME NEW o, Stored(o), NEW ref, NEW i \in Called(o, ref)
  PROVE  Does(o, o, i, ref, o[i].at)
<1>1. i \in Oid /\ Sound(o[i]) /\ SameName(o[i], ref)
  BY CalledOne
<1>2. o[i] = Object(ref, o[i].at)
  BY <1>1 DEF Sound, SameName, Object
<1>3. AddressSound(ref) /\ AttributesSound(ref.kind, o[i].at)
  BY <1>1 DEF Sound, SameName, AddressSound
<1>4. QED
  BY <1>1, <1>2, <1>3 DEF Does, OthersKept

(* What was done is found under its name.                                  *)
LEMMA DoesCalled ==
  ASSUME NEW o, NEW u, NEW i, NEW ref, NEW at, Does(o, u, i, ref, at)
  PROVE  /\ i \in Oid /\ i \in Made(u) /\ Called(u, ref) = {i} /\ The(Called(u, ref)) = i
         /\ u # Aborted /\ u[i] = Object(ref, at) /\ u[i].at = at
<1>1. Stored(u) /\ i \in Oid /\ u[i] = Object(ref, at) /\ Sound(u[i])
  BY SoundObject DEF Does
<1>2. u[i].kind = ref.kind /\ u[i].ns = ref.ns /\ u[i].name = ref.name /\ u[i].at = at
  BY <1>1 DEF Object
<1>3. i \in Called(u, ref)
  BY <1>1, <1>2, SoundMade DEF Called, Made
<1>4. Called(u, ref) = {i} /\ The(Called(u, ref)) = i
  BY <1>1, <1>3, CalledOne
<1>5. i \in Made(u)
  BY <1>3 DEF Called
<1>6. QED
  BY <1>1, <1>2, <1>4, <1>5, StoredLegal

(* An object is put where nothing else has its name.                       *)
LEMMA PutDoes ==
  ASSUME NEW o, NEW u, Stored(u), NEW i \in Oid, OthersKept(o, u, i),
         NEW new, NEW now, AddressSound(new), AttributesSound(new.kind, now),
         Called(u, new) \subseteq {i},
         NEW w, w = [u EXCEPT ![i] = Object(new, now)]
  PROVE  Does(o, w, i, new, now)
<1> DEFINE x == Object(new, now)
<1>1. Sound(x) /\ x.kind = new.kind /\ x.ns = new.ns /\ x.name = new.name
  <2>1. Sound(x)
    BY SoundObject
  <2>2. QED
    BY <2>1 DEF Object
<1> HIDE DEF x
<1>2. Stored(u) /\ OthersKept(o, u, i) /\ i \in Oid
  OBVIOUS
<1>3. w = [j \in Oid |-> w[j]] /\ \A j \in Oid : w[j] = IF j = i THEN x ELSE u[j]
  BY <1>2 DEF Stored, x
<1>4. \A j \in Oid : w[j] = NoObject \/ Sound(w[j])
  BY <1>1, <1>2, <1>3 DEF Stored
<1>5. \A j \in Oid \ {i} : Sound(u[j]) => ~SameName(u[j], x)
  BY <1>1, SoundMade DEF Called, Made, SameName
<1>6. \A j, k \in Oid : Sound(w[j]) /\ Sound(w[k]) /\ SameName(w[j], w[k]) => j = k
  <2> SUFFICES ASSUME NEW j \in Oid, NEW k \in Oid, Sound(w[j]), Sound(w[k]),
                      SameName(w[j], w[k]), j # k
               PROVE  FALSE
    OBVIOUS
  <2>1. CASE j = i
    BY <1>3, <1>5, <2>1 DEF SameName
  <2>2. CASE k = i
    BY <1>3, <1>5, <2>2 DEF SameName
  <2>3. CASE j # i /\ k # i
    BY <1>2, <1>3, <2>3 DEF Stored
  <2>4. QED
    BY <2>1, <2>2, <2>3
<1>7. Stored(w)
  BY <1>3, <1>4, <1>6 DEF Stored
<1>8. OthersKept(o, w, i) /\ w[i] = Object(new, now)
  BY <1>2, <1>3 DEF OthersKept, x
<1>9. QED
  BY <1>2, <1>7, <1>8 DEF Does

-------------------------------------------------------------------------------
(* Statements, after some that were done.                                  *)

Set(at, f, v) == [at EXCEPT ![f] = v]

(* One attribute is set, the others keep their values.                     *)
LEMMA SetValues ==
  ASSUME NEW at, NEW f \in DOMAIN at, NEW v
  PROVE  /\ DOMAIN Set(at, f, v) = DOMAIN at /\ Set(at, f, v)[f] = v
         /\ \A g \in DOMAIN at \ {f} : Set(at, f, v)[g] = at[g]
BY DEF Set

(* ALTER ... of one attribute: the object of the name has the new value.   *)
LEMMA SetAttrDoes ==
  ASSUME NEW o, NEW u, NEW i, NEW ref, NEW at, Does(o, u, i, ref, at),
         NEW f, NEW v, AttributesSound(ref.kind, Set(at, f, v)),
         NEW w, w = SetAttr(u, ref, f, v)
  PROVE  Does(o, w, i, ref, Set(at, f, v))
<1> DEFINE now == Set(at, f, v)
<1>1. /\ i \in Oid /\ u # Aborted /\ Called(u, ref) = {i} /\ The(Called(u, ref)) = i
      /\ u[i] = Object(ref, at) /\ u[i].at = at /\ AddressSound(ref)
  BY DoesCalled DEF Does
<1>2. w = [u EXCEPT ![i].at[f] = v]
  BY <1>1 DEF SetAttr
<1>3. [u[i] EXCEPT !.at[f] = v] = Object(ref, now)
  BY <1>1 DEF Object, Set
<1>4. w = [u EXCEPT ![i] = Object(ref, now)]
  BY <1>2, <1>3
<1>5. Stored(u) /\ OthersKept(o, u, i) /\ AttributesSound(ref.kind, now) /\ Called(u, ref) \subseteq {i}
  BY <1>1 DEF Does
<1> HIDE DEF now
<1>7. Does(o, w, i, ref, now)
  BY <1>1, <1>4, <1>5, PutDoes
<1>8. QED
  BY <1>7 DEF now

(* Most attributes can have any value.                                     *)
Plain(f) == f \notin {"config", "all", "tables"}

(* The attributes that no other depends on may have any value.             *)
LEMMA PlainSound ==
  ASSUME NEW k, NEW at, AttributesSound(k, at), NEW f \in DOMAIN at, Plain(f), NEW v
  PROVE  AttributesSound(k, Set(at, f, v))
<1>1. /\ DOMAIN Set(at, f, v) = DOMAIN at
      /\ \A g \in DOMAIN at \ {f} : Set(at, f, v)[g] = at[g]
  BY SetValues
<1>2. CASE k = "role"
  BY <1>1, <1>2 DEF AttributesSound, AttributesOf, Plain
<1>3. CASE k = "publication"
  BY <1>1, <1>3 DEF AttributesSound, AttributesOf, Plain
<1>4. CASE k \notin {"role", "publication"}
  BY <1>1, <1>4 DEF AttributesSound
<1>5. QED
  BY <1>2, <1>3, <1>4

(* The attribute has the value ...                                         *)
LEMMA SetPlainDoes ==
  ASSUME NEW o, NEW u, NEW i, NEW ref, NEW at, Does(o, u, i, ref, at),
         NEW f \in DOMAIN at, Plain(f), NEW v, NEW w, w = SetAttr(u, ref, f, v)
  PROVE  \E now : /\ Does(o, w, i, ref, now) /\ now[f] = v
                  /\ DOMAIN now = DOMAIN at
                  /\ \A g \in DOMAIN at \ {f} : now[g] = at[g]
<1>1. AttributesSound(ref.kind, at)
  BY DEF Does
<1>2. AttributesSound(ref.kind, Set(at, f, v))
  BY <1>1, PlainSound
<1>3. Does(o, w, i, ref, Set(at, f, v))
  BY <1>2, SetAttrDoes
<1>4. /\ Set(at, f, v)[f] = v /\ DOMAIN Set(at, f, v) = DOMAIN at
      /\ \A g \in DOMAIN at \ {f} : Set(at, f, v)[g] = at[g]
  BY SetValues
<1>5. QED
  BY <1>3, <1>4

(* ... or, with a property that the body does not have, what it had.       *)
LEMMA Given1Does ==
  ASSUME NEW o, NEW u, NEW i, NEW ref, NEW at, Does(o, u, i, ref, at),
         NEW f \in DOMAIN at, Plain(f), NEW v, NEW w, w = Given1(u, ref, f, v)
  PROVE  \E now : /\ Does(o, w, i, ref, now) /\ now[f] = Given(v, at[f])
                  /\ DOMAIN now = DOMAIN at
                  /\ \A g \in DOMAIN at \ {f} : now[g] = at[g]
<1>1. CASE v = Undefined
  BY <1>1 DEF Given1, Given
<1>2. CASE v # Undefined
  <2>1. w = SetAttr(u, ref, f, v) /\ Given(v, at[f]) = v
    BY <1>2 DEF Given1, Given
  <2>2. QED
    BY <2>1, SetPlainDoes
<1>3. QED
  BY <1>1, <1>2

(* A statement on what is not there is an error, and nothing follows one.  *)
LEMMA NoneCalled ==
  ASSUME NEW o, NEW ref, o = Aborted \/ Called(o, ref) = {}
  PROVE  /\ \A f, v : SetAttr(o, ref, f, v) = Aborted /\ Given1(o, ref, f, v) \in {o, Aborted}
         /\ \A n : Rename(o, ref, n) = Aborted
         /\ \A ns : Move(o, ref, ns) = Aborted
         /\ DropObject(o, ref) = Aborted
BY DEF SetAttr, Given1, Rename, Move, DropObject

(* A reference to what has the name n, or is in ns.                        *)
IsReference(ref) == {"kind", "ns", "name"} \subseteq DOMAIN ref
Renamed(ref, n) == [ref EXCEPT !.name = n]
Moved(ref, ns) == [ref EXCEPT !.ns = ns]

(* What renaming and moving make of a reference.                           *)
LEMMA ReferenceFields ==
  ASSUME NEW ref, IsReference(ref), NEW x
  PROVE  /\ Renamed(ref, x).kind = ref.kind /\ Renamed(ref, x).ns = ref.ns
         /\ Renamed(ref, x).name = x /\ IsReference(Renamed(ref, x))
         /\ Moved(ref, x).kind = ref.kind /\ Moved(ref, x).name = ref.name
         /\ Moved(ref, x).ns = x /\ IsReference(Moved(ref, x))
BY DEF IsReference, Renamed, Moved

(* RENAME TO is aborted where the name is taken, or changes the name only. *)
LEMMA RenameDoes ==
  ASSUME NEW o, NEW u, NEW i, NEW ref, NEW at, Does(o, u, i, ref, at), IsReference(ref),
         NEW n \in Name, NEW w, w = Rename(u, ref, n)
  PROVE  \/ w = Aborted /\ Called(u, Renamed(ref, n)) # {}
         \/ Called(u, Renamed(ref, n)) = {} /\ Does(o, w, i, Renamed(ref, n), at)
<1> DEFINE new == Renamed(ref, n)
<1>1. /\ i \in Oid /\ u # Aborted /\ Called(u, ref) = {i} /\ The(Called(u, ref)) = i
      /\ u[i] = Object(ref, at) /\ AddressSound(ref) /\ AttributesSound(ref.kind, at)
  BY DoesCalled DEF Does
<1>s. Stored(u) /\ OthersKept(o, u, i)
  BY DEF Does
<1>2. CASE Called(u, new) # {}
  BY <1>1, <1>2 DEF Rename, Renamed
<1>3. CASE Called(u, new) = {}
  <2>1. w = [u EXCEPT ![i].name = n]
    BY <1>1, <1>3 DEF Rename, Renamed
  <2>2. new.kind = ref.kind /\ new.ns = ref.ns /\ new.name = n
    BY ReferenceFields
  <2>3. [u[i] EXCEPT !.name = n] = Object(new, at)
    BY <1>1, <2>2 DEF Object
  <2>4. w = [u EXCEPT ![i] = Object(new, at)]
    BY <2>1, <2>3
  <2>5. AddressSound(new) /\ AttributesSound(new.kind, at)
    BY <1>1, <2>2 DEF AddressSound
  <2> HIDE DEF new
  <2>6. Does(o, w, i, new, at)
    BY <1>1, <1>s, <1>3, <2>4, <2>5, PutDoes
  <2>7. QED
    BY <1>3, <2>6 DEF new
<1>4. QED
  BY <1>2, <1>3

(* The name of the object is all that Does says of the reference.          *)
LEMMA DoesAlike ==
  ASSUME NEW o, NEW u, NEW i, NEW ref, NEW at, Does(o, u, i, ref, at), NEW new, SameName(ref, new)
  PROVE  Does(o, u, i, new, at)
BY DEF Does, SameName, AddressSound, Object

(* SET SCHEMA is aborted where the name is taken there, or changes the     *)
(* schema only.                                                            *)
LEMMA MoveDoes ==
  ASSUME NEW o, NEW u, NEW i, NEW ref, NEW at, Does(o, u, i, ref, at), IsReference(ref),
         ref.kind \notin DatabaseKinds, NEW ns, NEW w, w = Move(u, ref, ns)
  PROVE  \/ w = Aborted /\ ns # ref.ns /\ Called(u, Moved(ref, ns)) # {}
         \/ /\ ns = ref.ns \/ Called(u, Moved(ref, ns)) = {}
            /\ Does(o, w, i, Moved(ref, ns), at)
<1> DEFINE new == Moved(ref, ns)
<1>1. /\ i \in Oid /\ u # Aborted /\ Called(u, ref) = {i} /\ The(Called(u, ref)) = i
      /\ u[i] = Object(ref, at) /\ AddressSound(ref) /\ AttributesSound(ref.kind, at)
  BY DoesCalled DEF Does
<1>s. Stored(u) /\ OthersKept(o, u, i)
  BY DEF Does
<1>2. new.kind = ref.kind /\ new.ns = ns /\ new.name = ref.name
  BY ReferenceFields
<1>3. CASE ns = ref.ns
  <2>1. w = u
    BY <1>1, <1>3 DEF Move
  <2>2. SameName(ref, new)
    BY <1>2, <1>3 DEF SameName
  <2>3. QED
    BY <1>3, <2>1, <2>2, DoesAlike
<1>4. CASE ns # ref.ns /\ Called(u, new) # {}
  BY <1>1, <1>4 DEF Move, Moved
<1>5. CASE ns # ref.ns /\ Called(u, new) = {}
  <2>1. w = [u EXCEPT ![i].ns = ns]
    BY <1>1, <1>5 DEF Move, Moved
  <2>2. [u[i] EXCEPT !.ns = ns] = Object(new, at)
    BY <1>1, <1>2 DEF Object
  <2>3. w = [u EXCEPT ![i] = Object(new, at)]
    BY <2>1, <2>2
  <2>4. AddressSound(new) /\ AttributesSound(new.kind, at)
    BY <1>1, <1>2 DEF AddressSound
  <2> HIDE DEF new
  <2>5. Does(o, w, i, new, at)
    BY <1>1, <1>s, <1>5, <2>3, <2>4, PutDoes
  <2>6. QED
    BY <1>5, <2>5 DEF new
<1>6. QED
  BY <1>3, <1>4, <1>5

(* What is called something, but for the object itself, was called it      *)
(* before.                                                                 *)
LEMMA CalledKept ==
  ASSUME NEW o, NEW u, NEW i, NEW ref, NEW at, Does(o, u, i, ref, at), NEW new
  PROVE  /\ Called(u, new) \ {i} = Called(o, new) \ {i}
         /\ i \in Called(u, new) => SameName(ref, new)
<1>1. u[i].kind = ref.kind /\ u[i].ns = ref.ns /\ u[i].name = ref.name
  BY DEF Does, Object
<1>2. \A j \in Oid \ {i} : u[j] = o[j]
  BY DEF Does, OthersKept
<1>3. QED
  BY <1>1, <1>2 DEF Called, Made, SameName

(* ... so that a name that is taken was taken by another object.           *)
LEMMA TakenBefore ==
  ASSUME NEW o, NEW u, NEW i, NEW ref, NEW at, Does(o, u, i, ref, at),
         NEW new, ~SameName(ref, new), Called(u, new) # {}
  PROVE  ~(Called(o, new) \subseteq {i})
<1>1. Called(u, new) \ {i} = Called(o, new) \ {i} /\ i \notin Called(u, new)
  BY CalledKept
<1>2. QED
  BY <1>1

(* References of one kind, schema and name find the same objects.          *)
LEMMA CalledAlike ==
  ASSUME NEW r, NEW s, SameName(r, s), NEW o PROVE Called(o, r) = Called(o, s)
BY DEF Called, SameName

-------------------------------------------------------------------------------
(* What comes and goes.                                                    *)

(* A catalog without one of its objects is a stored one.                   *)
LEMMA ClearStored ==
  ASSUME NEW o, Stored(o), NEW i \in Oid, NEW w, w = [o EXCEPT ![i] = NoObject]
  PROVE  Stored(w) /\ OthersKept(o, w, i) /\ w[i] = NoObject
<1>1. w = [j \in Oid |-> w[j]] /\ \A j \in Oid : w[j] = IF j = i THEN NoObject ELSE o[j]
  BY DEF Stored
<1>2. \A j \in Oid : w[j] = NoObject \/ Sound(w[j])
  BY <1>1 DEF Stored
<1>3. \A j \in Oid : Sound(w[j]) => w[j] = o[j]
  BY <1>1, SoundMade
<1>4. \A j, k \in Oid : Sound(w[j]) /\ Sound(w[k]) /\ SameName(w[j], w[k]) => j = k
  BY <1>3 DEF Stored
<1>5. QED
  BY <1>1, <1>2, <1>4 DEF Stored, OthersKept

(* DROP, when it is not aborted, clears the object of the name and no      *)
(* other.                                                                  *)
LEMMA DropStored ==
  ASSUME NEW o, Stored(o), NEW ref, NEW w, w = DropObject(o, ref), w # Aborted
  PROVE  \E i \in Called(o, ref) : i \in Oid /\ Stored(w) /\ OthersKept(o, w, i) /\ w[i] = NoObject
<1>1. PICK i \in Called(o, ref) : TRUE
  BY NoneCalled
<1>2. i \in Oid /\ The(Called(o, ref)) = i
  BY CalledOne
<1>3. w = [o EXCEPT ![i] = NoObject]
  BY <1>2 DEF DropObject
<1>4. QED
  BY <1>2, <1>3, ClearStored

(* CREATE, when it is not aborted, makes one object at an id that was      *)
(* free.                                                                   *)
LEMMA AddDoes ==
  ASSUME NEW o, Stored(o), NEW ref, NEW at, AddressSound(ref), AttributesSound(ref.kind, at),
         NEW w, w = Add(o, ref, at), w # Aborted
  PROVE  \E i \in Oid \ Made(o) : Does(o, w, i, ref, at)
<1>1. Called(o, ref) = {} /\ Made(o) # Oid /\ Made(o) \subseteq Oid
  BY DEF Add, Made
<1> DEFINE i == The(Oid \ Made(o))
<1>2. i \in Oid \ Made(o)
  BY <1>1 DEF The
<1>3. w = [o EXCEPT ![i] = Object(ref, at)]
  BY <1>1 DEF Add, Object
<1> HIDE DEF i
<1>4. Does(o, w, i, ref, at)
  BY <1>1, <1>2, <1>3, PutDoes DEF OthersKept
<1>5. QED
  BY <1>2, <1>4

(* What update() reads of a sound object is a reference.                   *)
LEMMA SoundReference == ASSUME NEW x, Sound(x) PROVE IsReference(x)
BY DEF Sound, Object, IsReference

(* Other sessions leave a catalog; what there is has what it had.          *)
Persist(o, w) ==
  \A i \in Made(w) : i \in Made(o) /\ w[i].kind = o[i].kind /\ w[i].at = o[i].at

(* One object that goes, or gets another address, leaves every other and   *)
(* every attribute.                                                        *)
LEMMA PersistOne ==
  ASSUME NEW o, NEW w, Stored(o), Stored(w), NEW i \in Oid, OthersKept(o, w, i),
         w[i] = NoObject \/ (i \in Made(o) /\ w[i].kind = o[i].kind /\ w[i].at = o[i].at)
  PROVE  Persist(o, w)
<1>1. NoObject.kind = "none"
  BY DEF NoObject
<1>2. QED
  BY <1>1 DEF Persist, OthersKept, Made

(* Two objects of a kind may exchange their addresses.                     *)
LEMMA SwapStored ==
  ASSUME NEW o, Stored(o), NEW i \in Made(o), NEW j \in Made(o), i # j,
         o[i].kind = o[j].kind, NEW w,
         w = [o EXCEPT ![i].ns = o[j].ns, ![i].name = o[j].name,
                       ![j].ns = o[i].ns, ![j].name = o[i].name]
  PROVE  Stored(w) /\ Persist(o, w)
<1> DEFINE x == Object(o[j], o[i].at)
           y == Object(o[i], o[j].at)
           other(k) == IF k = i THEN j ELSE IF k = j THEN i ELSE k
<1>1. /\ i \in Oid /\ j \in Oid /\ Sound(o[i]) /\ Sound(o[j])
      /\ o[i] = Object(o[i], o[i].at) /\ o[j] = Object(o[j], o[j].at)
  BY MadeSound
<1>2. /\ [[o[i] EXCEPT !.ns = o[j].ns] EXCEPT !.name = o[j].name] = x
      /\ [[o[j] EXCEPT !.ns = o[i].ns] EXCEPT !.name = o[i].name] = y
  <2>1. ASSUME NEW a, NEW b, a = Object(a, a.at), a.kind = b.kind
        PROVE  [[a EXCEPT !.ns = b.ns] EXCEPT !.name = b.name] = Object(b, a.at)
    <3> DEFINE k == a.kind
               t == a.at
    <3>1. a = [kind |-> k, ns |-> a.ns, name |-> a.name, at |-> t]
      BY <2>1 DEF Object
    <3>2. [a EXCEPT !.ns = b.ns] = [kind |-> k, ns |-> b.ns, name |-> a.name, at |-> t]
      BY <3>1
    <3>3. [[kind |-> k, ns |-> b.ns, name |-> a.name, at |-> t] EXCEPT !.name = b.name]
            = [kind |-> k, ns |-> b.ns, name |-> b.name, at |-> t]
      OBVIOUS
    <3>4. Object(b, t) = [kind |-> k, ns |-> b.ns, name |-> b.name, at |-> t]
      BY <2>1 DEF Object
    <3> HIDE DEF k, t
    <3>5. [[a EXCEPT !.ns = b.ns] EXCEPT !.name = b.name] = Object(b, t)
      BY <3>2, <3>3, <3>4
    <3>6. QED
      BY <3>5 DEF t
  <2>2. QED
    BY <1>1, <2>1
<1> HIDE DEF x, y
<1>3. w = [k \in Oid |-> w[k]] /\ \A k \in Oid : w[k] = IF k = i THEN x ELSE IF k = j THEN y ELSE o[k]
  BY <1>1, <1>2 DEF Stored
<1>4. /\ Sound(x) /\ SameName(x, o[j]) /\ x.at = o[i].at
      /\ Sound(y) /\ SameName(y, o[i]) /\ y.at = o[j].at
  <2>1. ASSUME NEW a, NEW b, Sound(a), Sound(b), a.kind = b.kind
        PROVE  Sound(Object(b, a.at)) /\ SameName(Object(b, a.at), b) /\ Object(b, a.at).at = a.at
    <3>1. Sound(Object(b, a.at))
      BY <2>1, SoundObject DEF Sound
    <3>2. QED
      BY <3>1 DEF Object, SameName
  <2>2. QED
    BY <1>1, <2>1 DEF x, y
<1>5. \A k \in Oid : w[k] = NoObject \/ Sound(w[k])
  BY <1>3, <1>4 DEF Stored
<1>6. \A k \in Oid : other(k) \in Oid /\ (Sound(w[k]) => Sound(o[other(k)]) /\ SameName(w[k], o[other(k)]))
  BY <1>1, <1>3, <1>4 DEF SameName
<1>7. \A k, l \in Oid : Sound(w[k]) /\ Sound(w[l]) /\ SameName(w[k], w[l]) => k = l
  <2> SUFFICES ASSUME NEW k \in Oid, NEW l \in Oid, Sound(w[k]), Sound(w[l]), SameName(w[k], w[l])
               PROVE  k = l
    OBVIOUS
  <2>1. /\ other(k) \in Oid /\ other(l) \in Oid /\ Sound(o[other(k)]) /\ Sound(o[other(l)])
        /\ SameName(w[k], o[other(k)]) /\ SameName(w[l], o[other(l)])
    BY <1>6
  <2>2. ASSUME NEW a \in Oid, NEW b \in Oid, Sound(o[a]), Sound(o[b]),
               SameName(w[k], o[a]), SameName(w[l], o[b])
        PROVE  a = b
    <3>1. SameName(o[a], o[b])
      BY <2>2 DEF SameName
    <3>2. QED
      BY <2>2, <3>1 DEF Stored
  <2>3. other(k) = other(l)
    BY <2>1, <2>2
  <2>4. QED
    BY <2>3
<1>8. Persist(o, w)
  BY <1>1, <1>3, <1>4 DEF Persist, Made, SameName
<1>9. QED
  BY <1>3, <1>5, <1>7, <1>8 DEF Stored

(* What other sessions do leaves a stored catalog and no object with other *)
(* attributes.                                                             *)
LEMMA ElsewhereStored ==
  ASSUME Stored(objs), Elsewhere PROVE Stored(objs') /\ Persist(objs, objs')
<1>1. ASSUME NEW i \in Made(objs), objs' = DropObject(objs, objs[i])
      PROVE  Stored(objs') /\ Persist(objs, objs')
  <2>1. i \in Called(objs, objs[i])
    BY <1>1 DEF Called
  <2>2. i \in Oid /\ The(Called(objs, objs[i])) = i /\ Called(objs, objs[i]) = {i}
    BY <2>1, CalledOne
  <2>3. objs' = [objs EXCEPT ![i] = NoObject]
    BY <1>1, <2>2, StoredLegal DEF DropObject
  <2>4. Stored(objs') /\ OthersKept(objs, objs', i) /\ objs'[i] = NoObject
    BY <2>2, <2>3, ClearStored
  <2>5. QED
    BY <2>2, <2>4, PersistOne
<1>2. ASSUME NEW i \in Made(objs), NEW n \in Name,
             Called(objs, [objs[i] EXCEPT !.name = n]) = {}, objs' = Rename(objs, objs[i], n)
      PROVE  Stored(objs') /\ Persist(objs, objs')
  <2> DEFINE ref == objs[i]
             at == ref.at
  <2>1. i \in Called(objs, ref) /\ i \in Oid /\ IsReference(ref)
    BY <1>2, MadeSound, SoundReference DEF Called
  <2>2. Does(objs, objs, i, ref, at)
    BY <2>1, CalledDoes
  <2>3. Called(objs, Renamed(ref, n)) = {}
    BY <1>2 DEF Renamed
  <2>4. Does(objs, objs', i, Renamed(ref, n), at)
    <3> HIDE DEF ref, at
    <3>1. objs' = Rename(objs, ref, n)
      BY <1>2 DEF ref
    <3>2. QED
      BY <2>1, <2>2, <2>3, <3>1, RenameDoes
  <2>5. objs'[i].kind = ref.kind /\ objs'[i].at = ref.at
    BY <2>1, <2>4, ReferenceFields DEF Does, Object
  <2>6. Stored(objs') /\ OthersKept(objs, objs', i)
    BY <2>4 DEF Does
  <2>7. QED
    BY <1>2, <2>1, <2>5, <2>6, PersistOne
<1>3. ASSUME NEW i \in Made(objs), NEW j \in Made(objs), i # j, objs[i].kind = objs[j].kind,
             objs' = [objs EXCEPT ![i].ns = objs[j].ns, ![i].name = objs[j].name,
                                  ![j].ns = objs[i].ns, ![j].name = objs[i].name]
      PROVE  Stored(objs') /\ Persist(objs, objs')
  BY <1>3, SwapStored
<1>4. QED
  BY <1>1, <1>2, <1>3 DEF Elsewhere

-------------------------------------------------------------------------------
(* Tables.                                                                 *)

TableAttributeNames == {"rls", "forced", "replica", "pk", "comment"}

(* The attributes of a table.                                              *)
LEMMA TableDomain ==
  ASSUME NEW o, NEW u, NEW i, NEW ref, NEW at, Does(o, u, i, ref, at), ref.kind = "table"
  PROVE  DOMAIN at = TableAttributeNames
BY DEF Does, AttributesSound, AttributesOf, TableAttributeNames

(* What one statement on a table makes of its attributes.                  *)
SetTo(at, now, f, v) == now[f] = v /\ \A g \in TableAttributeNames \ {f} : now[g] = at[g]

(* One attribute of a table is set.                                        *)
LEMMA TableSetAttrDoes ==
  ASSUME NEW o, NEW u, NEW i, NEW ref, NEW at, Does(o, u, i, ref, at), ref.kind = "table",
         NEW f \in TableAttributeNames, NEW v, NEW w, w = SetAttr(u, ref, f, v)
  PROVE  \E now : Does(o, w, i, ref, now) /\ SetTo(at, now, f, v)
<1>1. DOMAIN at = TableAttributeNames /\ Plain(f)
  BY TableDomain DEF TableAttributeNames, Plain
<1>2. QED
  BY <1>1, SetPlainDoes DEF SetTo

(* One attribute of a table is set if the body gives it.                   *)
LEMMA TableGivenDoes ==
  ASSUME NEW o, NEW u, NEW i, NEW ref, NEW at, Does(o, u, i, ref, at), ref.kind = "table",
         NEW f \in TableAttributeNames, NEW v, NEW w, w = Given1(u, ref, f, v)
  PROVE  \E now : Does(o, w, i, ref, now) /\ SetTo(at, now, f, Given(v, at[f]))
<1>1. DOMAIN at = TableAttributeNames /\ Plain(f)
  BY TableDomain DEF TableAttributeNames, Plain
<1>2. QED
  BY <1>1, Given1Does DEF SetTo

IdentityFits(pk, p) ==
  p.replica_identity \notin {Undefined, "DEFAULT", "FULL"} => pk # Null /\ pk.con = p.replica_identity

(* REPLICA IDENTITY is aborted only for an index that does not fit, or is  *)
(* set if given.                                                           *)
LEMMA ReplicaDoes ==
  ASSUME NEW o, NEW u, NEW i, NEW ref, NEW at, Does(o, u, i, ref, at), ref.kind = "table",
         NEW p, NEW w, w = ReplicaSql(u, ref, p)
  PROVE  \/ w = Aborted /\ ~IdentityFits(at.pk, p)
         \/ \E now : Does(o, w, i, ref, now)
                     /\ SetTo(at, now, "replica", Given(p.replica_identity, at.replica))
<1> DEFINE identity == p.replica_identity
<1>1. /\ Called(u, ref) = {i} /\ The(Called(u, ref)) = i /\ u # Aborted /\ u[i].at = at
  BY DoesCalled
<1>2. Undefined \notin {"DEFAULT", "FULL"}
  BY TableBodiesAssumption
<1>3. CASE identity = Undefined
  <2>1. w = u
    BY <1>2, <1>3 DEF ReplicaSql
  <2>2. SetTo(at, at, "replica", Given(identity, at.replica))
    BY <1>3 DEF SetTo, Given
  <2>3. QED
    BY <2>1, <2>2
<1>4. CASE identity # Undefined /\ w = SetAttr(u, ref, "replica", identity)
  <2>1. Given(identity, at.replica) = identity
    BY <1>4 DEF Given
  <2>2. QED
    BY <1>4, <2>1, TableSetAttrDoes DEF TableAttributeNames
<1>5. CASE identity # Undefined /\ w # SetAttr(u, ref, "replica", identity)
  <2>1. identity \notin {"DEFAULT", "FULL"}
    BY <1>2, <1>5 DEF ReplicaSql
  <2>2. w = Aborted /\ (at.pk = Null \/ at.pk.con # identity)
    BY <1>1, <1>5, <2>1 DEF ReplicaSql
  <2>3. QED
    BY <1>5, <2>1, <2>2 DEF IdentityFits
<1>6. QED
  BY <1>3, <1>4, <1>5

KeyAsked(before, now, p) ==
  CASE p.primary_keys = Undefined -> now = before
    [] p.primary_keys = {} -> now = Null
    [] OTHER -> now # Null /\ now.cols = p.primary_keys

(* What a list of primary keys asks, empty or not.                         *)
LEMMA KeyAskedIs ==
  ASSUME NEW before, NEW now, NEW p
  PROVE  KeyAsked(before, now, p) <=>
           IF p.primary_keys = Undefined THEN now = before
           ELSE IF p.primary_keys = {} THEN now = Null
           ELSE now # Null /\ now.cols = p.primary_keys
BY TableBodiesAssumption DEF KeyAsked

(* The key is replaced; j is the table whose key is looked up.             *)
LEMMA PrimaryKeysDoes ==
  ASSUME NEW o, NEW u, NEW i, NEW ref, NEW at, Does(o, u, i, ref, at), ref.kind = "table",
         NEW j, NEW p \in Bodies["table"], NEW w, w = PrimaryKeysSql(u, j, ref, p)
  PROVE  \/ w = Aborted /\ ~(j = i /\ ref.at.pk = at.pk)
         \/ \E now : /\ Does(o, w, i, ref, now) /\ SetTo(at, now, "pk", now.pk)
                     /\ j = i /\ ref.at.pk = at.pk => KeyAsked(at.pk, now.pk, p)
<1> DEFINE keys == p.primary_keys
           d == IF ref.at.pk = Null THEN u ELSE DropPrimaryKey(u, j, ref)
<1>1. CASE keys = Undefined
  <2>1. w = u
    BY <1>1 DEF PrimaryKeysSql
  <2>2. SetTo(at, at, "pk", at.pk) /\ KeyAsked(at.pk, at.pk, p)
    BY <1>1, KeyAskedIs DEF SetTo
  <2>3. QED
    BY <2>1, <2>2
<1>2. CASE keys # Undefined
  <2>1. w = IF keys = {} THEN d ELSE AddPrimaryKey(d, ref, keys)
    BY <1>2 DEF PrimaryKeysSql
  <2>2. \/ d = Aborted /\ ~(j = i /\ ref.at.pk = at.pk)
        \/ \E mid : /\ Does(o, d, i, ref, mid) /\ SetTo(at, mid, "pk", mid.pk)
                    /\ j = i /\ ref.at.pk = at.pk => mid.pk = Null
    <3>1. CASE ref.at.pk = Null
      <4>1. d = u /\ SetTo(at, at, "pk", at.pk)
        BY <3>1 DEF SetTo
      <4> HIDE DEF d
      <4>2. QED
        BY <3>1, <4>1
    <3>2. CASE ref.at.pk # Null
      <4>1. Called(u, ref) = {i} /\ The(Called(u, ref)) = i /\ u # Aborted /\ i \in Made(u) /\ u[i].at = at
        BY DoesCalled
      <4>2. d = Aborted \/ d = SetAttr(u, ref, "pk", Null)
        BY <3>2 DEF DropPrimaryKey
      <4>3. j = i /\ ref.at.pk = at.pk => d = SetAttr(u, ref, "pk", Null)
        BY <3>2, <4>1 DEF DropPrimaryKey
      <4> HIDE DEF d
      <4>4. ASSUME d = SetAttr(u, ref, "pk", Null)
            PROVE  \E mid : Does(o, d, i, ref, mid) /\ SetTo(at, mid, "pk", Null)
        BY <4>4, TableSetAttrDoes DEF TableAttributeNames
      <4>5. QED
        BY <4>2, <4>3, <4>4 DEF SetTo
    <3>3. QED
      BY <3>1, <3>2
  <2> HIDE DEF d
  <2>3. CASE d = Aborted
    <3>1. w = Aborted
      BY <2>1, <2>3 DEF AddPrimaryKey
    <3>2. ~\E mid : Does(o, d, i, ref, mid)
      BY <2>3, DoesCalled
    <3>3. QED
      BY <2>2, <3>1, <3>2
  <2>4. CASE d # Aborted
    <3>1. PICK mid : /\ Does(o, d, i, ref, mid) /\ SetTo(at, mid, "pk", mid.pk)
                     /\ j = i /\ ref.at.pk = at.pk => mid.pk = Null
      BY <2>2, <2>4
    <3>2. CASE keys = {}
      <4>1. j = i /\ ref.at.pk = at.pk => KeyAsked(at.pk, mid.pk, p)
        BY <1>2, <3>1, <3>2, KeyAskedIs
      <4>2. QED
        BY <2>1, <3>1, <3>2, <4>1
    <3>3. CASE keys # {}
      <4> DEFINE key == [con |-> ref.name, cols |-> keys]
      <4>1. Called(d, ref) = {i} /\ The(Called(d, ref)) = i /\ d # Aborted /\ d[i].at = mid
        BY <3>1, DoesCalled
      <4>2. w = IF mid.pk # Null THEN Aborted ELSE SetAttr(d, ref, "pk", key)
        BY <2>1, <3>3, <4>1 DEF AddPrimaryKey
      <4>3. CASE mid.pk # Null
        BY <3>1, <4>2, <4>3
      <4>4. CASE mid.pk = Null
        <5>1. PICK now : Does(o, w, i, ref, now) /\ SetTo(mid, now, "pk", key)
          <6>1. w = SetAttr(d, ref, "pk", key) /\ "pk" \in TableAttributeNames
            BY <4>2, <4>4 DEF TableAttributeNames
          <6> HIDE DEF key
          <6>2. QED
            BY <3>1, <6>1, TableSetAttrDoes
        <5>2. ref.name \in Name
          BY <3>1 DEF Does, AddressSound
        <5>3. key # Null
          BY <5>2, TableBodiesAssumption
        <5>4. key.cols = keys
          OBVIOUS
        <5> HIDE DEF key
        <5>5. KeyAsked(at.pk, now.pk, p)
          BY <1>2, <3>3, <5>1, <5>3, <5>4, KeyAskedIs DEF SetTo
        <5>6. SetTo(at, now, "pk", now.pk)
          BY <3>1, <5>1 DEF SetTo
        <5>7. QED
          BY <5>1, <5>5, <5>6
      <4>5. QED
        BY <4>3, <4>4
    <3>4. QED
      BY <3>2, <3>3
  <2>5. QED
    BY <2>3, <2>4
<1>3. QED
  BY <1>1, <1>2

(* What the statements before the move and the rename make of a table: at  *)
(* is what it has, now what the body asks.                                 *)
TableAttributesAsked(at, now, p) ==
  /\ now.rls = Given(p.rls_enabled, at.rls)
  /\ now.forced = Given(p.rls_forced, at.forced)
  /\ now.replica = Given(p.replica_identity, at.replica)
  /\ now.comment = Given(p.comment, at.comment)
  /\ KeyAsked(at.pk, now.pk, p)

(* The statements of tables update() before the move and the rename:       *)
(* aborted only where something was changed since the read or the index    *)
(* does not fit, else all done.                                            *)
LEMMA TableAttributesDoes ==
  ASSUME NEW o, NEW i, NEW ref, NEW at, Does(o, o, i, ref, at), ref.kind = "table",
         NEW j, NEW p \in Bodies["table"], NEW w, w = TableAttributes(o, j, ref, p)
  PROVE  \/ w = Aborted /\ ~(j = i /\ ref.at = at /\ IdentityFits(at.pk, p))
         \/ \E now : /\ Does(o, w, i, ref, now)
                     /\ j = i /\ ref.at = at => TableAttributesAsked(at, now, p)
<1> DEFINE o1 == Given1(o, ref, "rls", p.rls_enabled)
           o2 == Given1(o1, ref, "forced", p.rls_forced)
           o3 == ReplicaSql(o2, ref, p)
           o4 == PrimaryKeysSql(o3, j, ref, p)
<1>1. w = Given1(o4, ref, "comment", p.comment)
  BY DEF TableAttributes
<1>2. PICK a1 : Does(o, o1, i, ref, a1) /\ SetTo(at, a1, "rls", Given(p.rls_enabled, at.rls))
  <2>1. o1 = Given1(o, ref, "rls", p.rls_enabled) /\ "rls" \in TableAttributeNames
    BY DEF TableAttributeNames
  <2> HIDE DEF o1
  <2>2. QED
    BY <2>1, TableGivenDoes
<1> HIDE DEF o1
<1>3. PICK a2 : Does(o, o2, i, ref, a2) /\ SetTo(a1, a2, "forced", Given(p.rls_forced, a1.forced))
  <2>1. o2 = Given1(o1, ref, "forced", p.rls_forced) /\ "forced" \in TableAttributeNames
    BY DEF TableAttributeNames
  <2> HIDE DEF o2
  <2>2. QED
    BY <1>2, <2>1, TableGivenDoes
<1> HIDE DEF o2
<1>4. a2.pk = at.pk
  BY <1>2, <1>3 DEF SetTo, TableAttributeNames
<1>5. \/ o3 = Aborted /\ ~IdentityFits(a2.pk, p)
      \/ \E now : Does(o, o3, i, ref, now)
                  /\ SetTo(a2, now, "replica", Given(p.replica_identity, a2.replica))
  <2>1. o3 = ReplicaSql(o2, ref, p)
    OBVIOUS
  <2> HIDE DEF o3
  <2>2. QED
    BY <1>3, <2>1, ReplicaDoes
<1>6. ASSUME o4 = Aborted PROVE w = Aborted
  BY <1>1, <1>6, NoneCalled
<1>7. ASSUME o3 = Aborted PROVE o4 = Aborted
  BY <1>7 DEF PrimaryKeysSql, DropPrimaryKey, AddPrimaryKey
<1> HIDE DEF o3
<1>8. CASE o3 = Aborted
  <2>1. ~\E now : Does(o, o3, i, ref, now)
    BY <1>8, DoesCalled
  <2>2. QED
    BY <1>4, <1>5, <1>6, <1>7, <1>8, <2>1
<1>9. CASE o3 # Aborted
  <2>1. PICK a3 : Does(o, o3, i, ref, a3)
                  /\ SetTo(a2, a3, "replica", Given(p.replica_identity, a2.replica))
    BY <1>5, <1>9
  <2>2. \/ o4 = Aborted /\ ~(j = i /\ ref.at.pk = a3.pk)
        \/ \E now : /\ Does(o, o4, i, ref, now) /\ SetTo(a3, now, "pk", now.pk)
                    /\ j = i /\ ref.at.pk = a3.pk => KeyAsked(a3.pk, now.pk, p)
    <3>1. o4 = PrimaryKeysSql(o3, j, ref, p)
      OBVIOUS
    <3> HIDE DEF o4
    <3>2. QED
      BY <2>1, <3>1, PrimaryKeysDoes
  <2>3. a3.pk = at.pk
    BY <1>4, <2>1 DEF SetTo, TableAttributeNames
  <2> HIDE DEF o4
  <2>4. CASE o4 = Aborted
    <3>1. ~\E now : Does(o, o4, i, ref, now)
      BY <2>4, DoesCalled
    <3>2. QED
      BY <1>6, <2>2, <2>3, <2>4, <3>1
  <2>5. CASE o4 # Aborted
    <3>1. PICK a4 : /\ Does(o, o4, i, ref, a4) /\ SetTo(a3, a4, "pk", a4.pk)
                    /\ j = i /\ ref.at.pk = a3.pk => KeyAsked(a3.pk, a4.pk, p)
      BY <2>2, <2>5
    <3>2. PICK a5 : Does(o, w, i, ref, a5) /\ SetTo(a4, a5, "comment", Given(p.comment, a4.comment))
      <4>1. "comment" \in TableAttributeNames
        BY DEF TableAttributeNames
      <4>2. QED
        BY <1>1, <3>1, <4>1, TableGivenDoes
    <3>3. ASSUME j = i, ref.at = at PROVE TableAttributesAsked(at, a5, p)
      <4>1. KeyAsked(at.pk, a5.pk, p)
        BY <2>3, <3>1, <3>2, <3>3 DEF SetTo, TableAttributeNames
      <4>2. /\ a5.rls = a1.rls /\ a5.forced = a2.forced /\ a5.replica = a3.replica
            /\ a4.comment = at.comment /\ a2.replica = at.replica /\ a1.forced = at.forced
        BY <1>2, <1>3, <2>1, <3>1, <3>2 DEF SetTo, TableAttributeNames
      <4>3. QED
        BY <1>2, <1>3, <2>1, <3>1, <3>2, <4>1, <4>2 DEF SetTo, TableAttributesAsked
    <3>4. QED
      BY <3>2, <3>3
  <2>6. QED
    BY <2>4, <2>5
<1>10. QED
  BY <1>8, <1>9

(* The update of a table: what it does and when it is aborted.             *)
LEMMA TableSqlDoes ==
  ASSUME NEW o, Stored(o), NEW ref, IsReference(ref), ref.kind = "table", NEW i \in Called(o, ref),
         NEW j \in Oid, NEW p \in Bodies["table"], NEW w, w = TableSql(o, j, ref, p)
  PROVE  \/ w = Aborted /\ (ref = o[j] => ~TablePossible(o, j, p))
         \/ \E new, now : /\ Does(o, w, i, new, now)
                          /\ ref = o[j] => TableAsked(o[j], w[j], p)
<1> DEFINE o1 == TableAttributes(o, j, ref, p)
           o2 == TableSchemaSql(o1, ref, p)
           ns == Given(p.schema, ref.ns)
           n == Given(p.name, ref.name)
           there == [ref EXCEPT !.ns = ns]
           at == o[i].at
<1>1. w = TableNameSql(o2, ref, p)
  BY DEF TableSql
<1>2. Does(o, o, i, ref, at)
  BY CalledDoes
<1>3. ref = o[j] => j = i /\ ref.at = at
  <2>1. i \in Oid /\ Sound(o[i]) /\ SameName(o[i], ref)
    BY CalledOne
  <2>2. ref = o[j] => Sound(o[j])
    BY <2>1 DEF Stored, NoObject, SameName, Sound, AddressSound
  <2>3. QED
    BY <2>1, <2>2 DEF Stored, SameName
<1>4. /\ there.kind = "table" /\ there.ns = ns /\ there.name = ref.name /\ IsReference(there)
      /\ there = Moved(ref, ns)
  BY ReferenceFields DEF Moved
<1>5. o2 = Aborted => w = Aborted
  BY <1>1, NoneCalled DEF TableNameSql
<1>6. o1 = Aborted => o2 = Aborted
  BY NoneCalled DEF TableSchemaSql
<1>7. \/ o1 = Aborted /\ ~(j = i /\ ref.at = at /\ IdentityFits(at.pk, p))
      \/ \E now : /\ Does(o, o1, i, ref, now)
                  /\ j = i /\ ref.at = at => TableAttributesAsked(at, now, p)
  <2>1. o1 = TableAttributes(o, j, ref, p)
    OBVIOUS
  <2> HIDE DEF o1, at
  <2>2. QED
    BY <1>2, <2>1, TableAttributesDoes
<1> HIDE DEF o1
<1>8. CASE o1 = Aborted
  <2>1. ~\E now : Does(o, o1, i, ref, now)
    BY <1>8, DoesCalled
  <2>2. ref = o[j] => ~IdentityFits(o[j].at.pk, p)
    BY <1>3, <1>7, <2>1
  <2>3. TablePossible(o, j, p) => IdentityFits(o[j].at.pk, p)
    BY DEF TablePossible, IdentityFits
  <2>4. QED
    BY <1>5, <1>6, <1>8, <2>2, <2>3
<1>9. CASE o1 # Aborted
  <2>1. PICK a1 : /\ Does(o, o1, i, ref, a1)
                  /\ j = i /\ ref.at = at => TableAttributesAsked(at, a1, p)
    BY <1>7, <1>9
  <2>2. \/ o2 = Aborted /\ Called(o1, there) # {} /\ ns # ref.ns
        \/ Does(o, o2, i, there, a1)
    <3>1. CASE p.schema = Undefined
      <4>1. o2 = o1 /\ SameName(ref, there)
        BY <1>4, <3>1 DEF TableSchemaSql, Given, SameName
      <4>2. QED
        BY <2>1, <4>1, DoesAlike
    <3>2. CASE p.schema # Undefined
      <4>1. o2 = Move(o1, ref, ns) /\ ref.kind \notin DatabaseKinds
        BY <3>2 DEF TableSchemaSql, Given, DatabaseKinds, ByName
      <4> HIDE DEF o2, ns, there
      <4>2. QED
        BY <1>4, <2>1, <4>1, MoveDoes
    <3>3. QED
      BY <3>1, <3>2
  <2> HIDE DEF o2
  <2>3. TablePossible(o, j, p) /\ ref = o[j] =>
          \A m \in {ref.name, n} : Called(o, Ref("table", ns, m)) \subseteq {i}
    BY <1>3 DEF TablePossible
  <2>4. \A m \in {ref.name, n} : \A r : r.kind = "table" /\ r.ns = ns /\ r.name = m =>
          Called(o, r) = Called(o, Ref("table", ns, m))
    BY DEF Called, Ref
  <2>5. CASE o2 = Aborted
    <3>1. Called(o1, there) # {} /\ ns # ref.ns
      BY <2>2, <2>5, DoesCalled
    <3>2. i \notin Called(o1, there) /\ Called(o1, there) \ {i} = Called(o, there) \ {i}
      <4> HIDE DEF there, ns
      <4>1. /\ Called(o1, there) \ {i} = Called(o, there) \ {i}
            /\ i \in Called(o1, there) => SameName(ref, there)
        BY <2>1, CalledKept
      <4>2. ~SameName(ref, there)
        BY <1>4, <3>1 DEF SameName
      <4>3. QED
        BY <4>1, <4>2
    <3>3. TablePossible(o, j, p) /\ ref = o[j] => Called(o, there) \subseteq {i}
      BY <1>4, <2>3, <2>4
    <3>4. QED
      BY <1>5, <2>5, <3>1, <3>2, <3>3
  <2>6. CASE o2 # Aborted
    <3>1. Does(o, o2, i, there, a1)
      BY <2>2, <2>6
    <3> DEFINE new == [there EXCEPT !.name = n]
    <3>2. /\ new.kind = "table" /\ new.ns = ns /\ new.name = n /\ new = Renamed(there, n)
      BY <1>4, ReferenceFields DEF Renamed
    <3>3. \/ w = Aborted /\ Called(o2, new) # {} /\ n # ref.name
          \/ Does(o, w, i, new, a1)
      <4>1. CASE n = ref.name
        <5>1. w = o2
          BY <1>1, <4>1 DEF TableNameSql, Given
        <5>2. SameName(there, new)
          BY <1>4, <3>2, <4>1 DEF SameName
        <5>3. QED
          BY <3>1, <5>1, <5>2, DoesAlike
      <4>2. CASE n # ref.name
        <5>1. w = Rename(o2, there, n) /\ n = p.name
          BY <1>1, <4>2 DEF TableNameSql, Given
        <5>2. n \in Name
          <6>1. p.name # Undefined /\ "table" \in Kinds \ (Read \cup ByName)
            BY <4>2 DEF Given, Kinds, Read, ByName
          <6>2. QED
            BY <5>1, <6>1, BodiesAssumption
        <5> HIDE DEF n, new, there
        <5>3. QED
          BY <1>4, <3>1, <3>2, <4>2, <5>1, <5>2, RenameDoes
      <4>3. QED
        BY <4>1, <4>2
    <3>4. CASE w = Aborted
      <4>1. Called(o2, new) # {} /\ n # ref.name
        BY <3>3, <3>4, DoesCalled
      <4>2. i \notin Called(o2, new) /\ Called(o2, new) \ {i} = Called(o, new) \ {i}
        <5> HIDE DEF new, there, n
        <5>1. /\ Called(o2, new) \ {i} = Called(o, new) \ {i}
              /\ i \in Called(o2, new) => SameName(there, new)
          BY <3>1, CalledKept
        <5>2. ~SameName(there, new)
          BY <1>4, <3>2, <4>1 DEF SameName
        <5>3. QED
          BY <5>1, <5>2
      <4>3. TablePossible(o, j, p) /\ ref = o[j] => Called(o, new) \subseteq {i}
        BY <2>3, <2>4, <3>2
      <4>4. QED
        BY <3>4, <4>1, <4>2, <4>3
    <3>5. CASE w # Aborted
      <4>1. Does(o, w, i, new, a1)
        BY <3>3, <3>5
      <4>2. w[i] = Object(new, a1)
        BY <4>1 DEF Does
      <4>3. /\ w[i].kind = "table" /\ w[i].ns = ns /\ w[i].name = n /\ w[i].at = a1
        BY <3>2, <4>2 DEF Object
      <4>4. ref = o[j] => TableAsked(o[j], w[j], p)
        <5>1. SUFFICES ASSUME ref = o[j] PROVE TableAsked(o[j], w[j], p)
          OBVIOUS
        <5>2. j = i /\ TableAttributesAsked(at, a1, p) /\ o[j].at = at
          BY <1>3, <2>1, <5>1
        <5> HIDE DEF at, new
        <5>3. QED
          BY <4>3, <5>1, <5>2 DEF TableAsked, TableAttributesAsked, KeyAsked
      <4> HIDE DEF new
      <4>5. QED
        BY <4>1, <4>4
    <3>6. QED
      BY <3>4, <3>5
  <2>7. QED
    BY <2>5, <2>6
<1>10. QED
  BY <1>8, <1>9

-------------------------------------------------------------------------------
(* Functions.                                                              *)

(* The attributes that a definition gives a function are those of a        *)
(* function.                                                               *)
LEMMA GeneratedSound ==
  ASSUME NEW d, NEW k, k = "function"
  PROVE  AttributesSound(k, Generated(d)) /\ Generated(d).definition = d
BY DEF AttributesSound, AttributesOf, Generated

(* CREATE OR REPLACE, with the block that checks the id.                   *)
LEMMA DefinitionDoes ==
  ASSUME NEW o, Stored(o), NEW ref, ref.kind = "function", AddressSound(ref), NEW j \in Oid, NEW p,
         p.definition # Undefined, NEW w, w = DefinitionSql(o, j, ref, p)
  PROVE  \/ w = Aborted /\ j \notin Called(o, ref)
         \/ Does(o, w, j, ref, Generated(p.definition))
<1> DEFINE at == Generated(p.definition)
           u == CreateOrReplace(o, ref, p.definition)
<1>1. w = IF u = Aborted \/ Called(u, ref) # {j} THEN Aborted ELSE u
  BY DEF DefinitionSql
<1>2. AttributesSound(ref.kind, at)
  BY GeneratedSound
<1>3. o # Aborted
  BY StoredLegal
<1>4. CASE Called(o, ref) = {}
  <2>1. u = Add(o, ref, at)
    BY <1>3, <1>4 DEF CreateOrReplace
  <2> HIDE DEF u, at
  <2>2. CASE u = Aborted
    BY <1>1, <1>4, <2>2
  <2>3. CASE u # Aborted
    <3>1. PICK i \in Oid \ Made(o) : Does(o, u, i, ref, at)
      BY <1>2, <2>1, <2>3, AddDoes
    <3>2. Called(u, ref) = {i}
      BY <3>1, DoesCalled
    <3>3. CASE i = j
      BY <1>1, <2>3, <3>1, <3>2, <3>3 DEF at
    <3>4. CASE i # j
      BY <1>1, <1>4, <3>2, <3>4
    <3>5. QED
      BY <3>3, <3>4
  <2>4. QED
    BY <2>2, <2>3
<1>5. ASSUME NEW i \in Called(o, ref)
      PROVE  Does(o, u, i, ref, at)
  <2>1. Does(o, o, i, ref, o[i].at) /\ The(Called(o, ref)) = i /\ Called(o, ref) = {i}
    BY CalledDoes, CalledOne
  <2>2. u = [o EXCEPT ![i].at = at]
    BY <1>3, <2>1 DEF CreateOrReplace
  <2>3. o[i] = Object(ref, o[i].at) /\ i \in Oid /\ OthersKept(o, o, i)
    BY <2>1 DEF Does
  <2>4. [o[i] EXCEPT !.at = at] = Object(ref, at)
    BY <2>3 DEF Object
  <2>5. u = [o EXCEPT ![i] = Object(ref, at)]
    BY <2>2, <2>4
  <2> HIDE DEF u, at
  <2>6. QED
    BY <1>2, <2>1, <2>3, <2>5, PutDoes
<1>6. CASE Called(o, ref) # {}
  <2>1. PICK i \in Called(o, ref) : TRUE
    BY <1>6
  <2>2. Does(o, u, i, ref, at) /\ Called(o, ref) = {i}
    BY <1>5, CalledOne
  <2>3. Called(u, ref) = {i} /\ u # Aborted
    BY <2>2, DoesCalled
  <2>4. QED
    BY <1>1, <2>2, <2>3
<1>7. QED
  BY <1>4, <1>6

(* What the body asks of a function that has the name and the place of ref *)
(* and has at.                                                             *)
FunctionAsked(g, ref, at, p) ==
  /\ g.kind = "function" /\ g.name = Given(p.name, ref.name) /\ g.ns = Given(p.schema, ref.ns)
  /\ g.at = IF p.definition = Undefined THEN at ELSE Generated(p.definition)

FunctionTaken(o, i, ref, p) ==
  \E ns \in {ref.ns, Given(p.schema, ref.ns)} :
    ~(Called(o, Ref("function", ns, Given(p.name, ref.name))) \subseteq {i})

(* The name, then the schema, follow the function i.                       *)
LEMMA FunctionMoves ==
  ASSUME NEW o, NEW u, NEW i, NEW ref, NEW at, Does(o, u, i, ref, at), IsReference(ref),
         ref.kind = "function", NEW p \in Bodies["function"],
         NEW w, w = FunctionSchemaSql(FunctionNameSql(u, ref, p), ref, p)
  PROVE  \/ w = Aborted /\ FunctionTaken(o, i, ref, p)
         \/ \E new : /\ Does(o, w, i, new, at) /\ new.kind = "function"
                     /\ new.name = Given(p.name, ref.name) /\ new.ns = Given(p.schema, ref.ns)
<1> DEFINE n == Given(p.name, ref.name)
           ns == Given(p.schema, ref.ns)
           named == Renamed(ref, n)
           moved == Moved(named, ns)
           v == FunctionNameSql(u, ref, p)
<1>1. /\ named.kind = "function" /\ named.ns = ref.ns /\ named.name = n /\ IsReference(named)
      /\ moved.kind = "function" /\ moved.ns = ns /\ moved.name = n
  BY ReferenceFields
<1>2. \/ v = Aborted /\ FunctionTaken(o, i, ref, p)
      \/ Does(o, v, i, named, at)
  <2>1. CASE p.name \in {Undefined, ref.name}
    <3>1. v = u /\ n = ref.name
      BY <2>1 DEF FunctionNameSql, Given
    <3>2. SameName(ref, named)
      BY <1>1, <3>1 DEF SameName
    <3>3. QED
      BY <3>1, <3>2, DoesAlike
  <2>2. CASE p.name \notin {Undefined, ref.name}
    <3>1. v = Rename(u, ref, n) /\ n = p.name
      BY <2>2 DEF FunctionNameSql, Given
    <3>2. n \in Name
      <4>1. "function" \in Kinds \ (Read \cup ByName)
        BY DEF Kinds, Read, ByName
      <4>2. QED
        BY <2>2, <3>1, <4>1, BodiesAssumption
    <3>3. ~SameName(ref, named) /\ SameName(named, Ref("function", ref.ns, n))
      BY <1>1, <2>2, <3>1 DEF SameName, Ref
    <3> HIDE DEF v
    <3>4. \/ v = Aborted /\ Called(u, named) # {}
          \/ Does(o, v, i, named, at)
      BY <3>1, <3>2, RenameDoes
    <3>5. Called(u, named) # {} => ~(Called(o, named) \subseteq {i})
      BY <3>3, TakenBefore
    <3>6. Called(o, named) = Called(o, Ref("function", ref.ns, n))
      BY <3>3, CalledAlike
    <3>7. QED
      BY <3>4, <3>5, <3>6 DEF FunctionTaken
  <2>3. QED
    BY <2>1, <2>2
<1>3. w = IF p.schema \in {Undefined, ref.ns} THEN v ELSE Move(v, named, p.schema)
  BY DEF FunctionSchemaSql, Renamed
<1> HIDE DEF v
<1>4. CASE v = Aborted
  <2>1. w = Aborted
    BY <1>3, <1>4, NoneCalled
  <2>2. QED
    BY <1>2, <1>4, <2>1, DoesCalled
<1>5. CASE v # Aborted /\ p.schema \in {Undefined, ref.ns}
  <2>1. w = v /\ ns = ref.ns
    BY <1>3, <1>5 DEF Given
  <2>2. QED
    BY <1>1, <1>2, <1>5, <2>1
<1>6. CASE v # Aborted /\ p.schema \notin {Undefined, ref.ns}
  <2>1. Does(o, v, i, named, at)
    BY <1>2, <1>6
  <2>2. w = Move(v, named, ns) /\ ns # named.ns
    BY <1>1, <1>3, <1>6 DEF Given
  <2>3. ~SameName(named, moved) /\ SameName(moved, Ref("function", ns, n))
    BY <1>1, <2>2 DEF SameName, Ref
  <2>4. \/ w = Aborted /\ Called(v, moved) # {}
        \/ Does(o, w, i, moved, at)
    <3>1. named.kind \notin DatabaseKinds
      BY <1>1 DEF DatabaseKinds, ByName
    <3> HIDE DEF named, ns
    <3>2. QED
      BY <1>1, <2>1, <2>2, <3>1, MoveDoes
  <2>5. Called(v, moved) # {} => ~(Called(o, moved) \subseteq {i})
    <3> HIDE DEF moved, named
    <3>1. QED
      BY <2>1, <2>3, TakenBefore
  <2>6. Called(o, moved) = Called(o, Ref("function", ns, n))
    BY <2>3, CalledAlike
  <2>7. QED
    BY <1>1, <2>4, <2>5, <2>6 DEF FunctionTaken
<1>7. QED
  BY <1>4, <1>5, <1>6

(* The update of a function.                                               *)
LEMMA FunctionSqlDoes ==
  ASSUME NEW o, Stored(o), NEW ref, IsReference(ref), ref.kind = "function", AddressSound(ref),
         NEW j \in Oid, NEW p \in Bodies["function"], NEW w, w = FunctionSql(o, j, ref, p)
  PROVE  \/ w = Aborted /\ (ref = o[j] => FunctionTaken(o, j, ref, p))
         \/ w = o /\ p.definition = Undefined /\ ref # o[j]
         \/ \E i, new, now :
              /\ Does(o, w, i, new, now)
              /\ p.definition # Undefined => i = j /\ now = Generated(p.definition)
              /\ ref = o[j] => i = j /\ FunctionAsked(w[j], o[j], o[j].at, p)
<1> DEFINE d == DefinitionSql(o, j, ref, p)
<1>1. w = FunctionSchemaSql(FunctionNameSql(d, ref, p), ref, p)
  BY DEF FunctionSql
<1>2. ref = o[j] => j \in Called(o, ref)
  <2>1. SUFFICES ASSUME ref = o[j] PROVE o[j].kind # "none"
    BY DEF Called, Made
  <2>2. QED
    BY <2>1
<1>3. ASSUME NEW i, NEW at, Does(o, d, i, ref, at),
             p.definition # Undefined => i = j /\ at = Generated(p.definition),
             ref = o[j] => i = j /\ at = IF p.definition = Undefined THEN o[j].at ELSE Generated(p.definition)
      PROVE  \/ w = Aborted /\ (ref = o[j] => FunctionTaken(o, j, ref, p))
             \/ \E k, new, now :
                  /\ Does(o, w, k, new, now)
                  /\ p.definition # Undefined => k = j /\ now = Generated(p.definition)
                  /\ ref = o[j] => k = j /\ FunctionAsked(w[j], o[j], o[j].at, p)
  <2> HIDE DEF d
  <2>1. \/ w = Aborted /\ FunctionTaken(o, i, ref, p)
        \/ \E new : /\ Does(o, w, i, new, at) /\ new.kind = "function"
                    /\ new.name = Given(p.name, ref.name) /\ new.ns = Given(p.schema, ref.ns)
    BY <1>1, <1>3, FunctionMoves
  <2>2. CASE w = Aborted
    BY <1>3, <2>1, <2>2, DoesCalled
  <2>3. CASE w # Aborted
    <3>1. PICK new : /\ Does(o, w, i, new, at) /\ new.kind = "function"
                     /\ new.name = Given(p.name, ref.name) /\ new.ns = Given(p.schema, ref.ns)
      BY <2>1, <2>3
    <3>2. w[i] = Object(new, at)
      BY <3>1 DEF Does
    <3>3. ref = o[j] => FunctionAsked(w[j], o[j], o[j].at, p)
      BY <1>3, <3>1, <3>2 DEF Object, FunctionAsked
    <3>4. QED
      BY <1>3, <3>1, <3>3
  <2>4. QED
    BY <2>2, <2>3
<1>4. ASSUME d = Aborted PROVE w = Aborted
  <2>1. FunctionNameSql(d, ref, p) = Aborted
    BY <1>4, NoneCalled DEF FunctionNameSql
  <2>2. QED
    BY <1>1, <2>1, NoneCalled DEF FunctionSchemaSql
<1>5. CASE p.definition # Undefined
  <2>1. \/ d = Aborted /\ j \notin Called(o, ref)
        \/ Does(o, d, j, ref, Generated(p.definition))
    <3>1. d = DefinitionSql(o, j, ref, p)
      OBVIOUS
    <3> HIDE DEF d
    <3>2. QED
      BY <1>5, <3>1, DefinitionDoes
  <2> HIDE DEF d
  <2>2. CASE d = Aborted /\ j \notin Called(o, ref)
    BY <1>2, <1>4, <2>2
  <2>3. CASE Does(o, d, j, ref, Generated(p.definition))
    BY <1>3, <1>5, <2>3
  <2>4. QED
    BY <2>1, <2>2, <2>3
<1>6. CASE p.definition = Undefined
  <2>1. d = o
    BY <1>6 DEF DefinitionSql
  <2> HIDE DEF d
  <2>2. CASE Called(o, ref) # {}
    <3>1. PICK i \in Called(o, ref) : TRUE
      BY <2>2
    <3>2. Does(o, d, i, ref, o[i].at) /\ Called(o, ref) = {i}
      BY <2>1, CalledDoes, CalledOne
    <3>3. ref = o[j] => i = j
      BY <1>2, <3>2
    <3>4. QED
      BY <1>3, <1>6, <3>2, <3>3
  <2>3. CASE Called(o, ref) = {}
    <3>1. \/ FunctionNameSql(d, ref, p) = Aborted
          \/ FunctionNameSql(d, ref, p) = o /\ p.name \in {Undefined, ref.name}
      BY <2>1, <2>3, NoneCalled DEF FunctionNameSql
    <3>2. p.name \in {Undefined, ref.name} => Called(o, Renamed(ref, Given(p.name, ref.name))) = {}
      BY <2>3, ReferenceFields, CalledAlike DEF Given, SameName
    <3>3. w = Aborted \/ w = o
      <4>1. w = IF p.schema \in {Undefined, ref.ns} THEN FunctionNameSql(d, ref, p)
                ELSE Move(FunctionNameSql(d, ref, p), Renamed(ref, Given(p.name, ref.name)), p.schema)
        BY <1>1 DEF FunctionSchemaSql, Renamed
      <4>2. QED
        BY <3>1, <3>2, <4>1, NoneCalled
    <3>4. QED
      BY <1>2, <1>6, <2>3, <3>3
  <2>4. QED
    BY <2>2, <2>3
<1>7. QED
  BY <1>5, <1>6

-------------------------------------------------------------------------------
(* Roles.                                                                  *)

(* The attributes of a role.                                               *)
LEMMA RoleAttributes ==
  ASSUME NEW o, NEW u, NEW i, NEW ref, NEW at, Does(o, u, i, ref, at), ref.kind = "role"
  PROVE  DOMAIN at = {"can_login", "config"} /\ DOMAIN at.config = Key /\ ref.ns = Database
BY DEF Does, AttributesSound, AttributesOf, AddressSound, DatabaseKinds

(* One parameter of the config is set or reset.                            *)
ConfigIs(at, now, k, v) ==
  now.can_login = at.can_login /\ \A l \in Key : now.config[l] = IF l = k THEN v ELSE at.config[l]

(* One parameter of the config of a role gets a value, the others keep     *)
(* theirs.                                                                 *)
LEMMA ConfigOneDoes ==
  ASSUME NEW o, NEW u, NEW i, NEW ref, NEW at, Does(o, u, i, ref, at), ref.kind = "role",
         NEW k \in Key, NEW v, NEW w, w = [u EXCEPT ![i].at.config[k] = v]
  PROVE  \E now : Does(o, w, i, ref, now) /\ ConfigIs(at, now, k, v)
<1> DEFINE c == [at.config EXCEPT ![k] = v]
           now == Set(at, "config", c)
<1>1. /\ DOMAIN at = {"can_login", "config"} /\ DOMAIN at.config = Key
      /\ u[i] = Object(ref, at) /\ AttributesSound(ref.kind, at) /\ AddressSound(ref)
      /\ Stored(u) /\ OthersKept(o, u, i) /\ i \in Oid
  BY RoleAttributes DEF Does
<1>2. DOMAIN c = Key /\ \A l \in Key : c[l] = IF l = k THEN v ELSE at.config[l]
  BY <1>1
<1>3. [u[i] EXCEPT !.at.config[k] = v] = Object(ref, now)
  BY <1>1 DEF Object, Set
<1>4. w = [u EXCEPT ![i] = Object(ref, now)]
  BY <1>3
<1> HIDE DEF c
<1>5. DOMAIN now = DOMAIN at /\ now.config = c /\ now.can_login = at.can_login
  BY <1>1, SetValues
<1> HIDE DEF now
<1>6. AttributesSound(ref.kind, now)
  BY <1>1, <1>2, <1>5 DEF AttributesSound
<1>7. Called(u, ref) \subseteq {i}
  BY DoesCalled
<1>8. Does(o, w, i, ref, now)
  BY <1>1, <1>4, <1>6, <1>7, PutDoes
<1>9. QED
  BY <1>2, <1>5, <1>8 DEF ConfigIs

(* A value that SET does not take.                                         *)
Unfit(k, v) == Len(v) = 0 \/ (Len(v) > 1 /\ k \notin ListKey)

(* ALTER ROLE ... SET is aborted only for a value that does not fit, or    *)
(* sets the parameter.                                                     *)
LEMMA SetConfigDoes ==
  ASSUME NEW o, NEW u, NEW i, NEW ref, NEW at, Does(o, u, i, ref, at), ref.kind = "role",
         NEW k \in Key, NEW v, NEW w, w = SetConfig(u, ref, k, v)
  PROVE  \/ w = Aborted /\ Unfit(k, v)
         \/ \E now : Does(o, w, i, ref, now) /\ ConfigIs(at, now, k, v)
<1>1. Called(u, ref) = {i} /\ The(Called(u, ref)) = i /\ u # Aborted
  BY DoesCalled
<1>2. CASE Unfit(k, v)
  BY <1>2 DEF SetConfig, Unfit
<1>3. CASE ~Unfit(k, v)
  <2>1. w = [u EXCEPT ![i].at.config[k] = v]
    BY <1>1, <1>3 DEF SetConfig, Unfit
  <2>2. QED
    BY <2>1, ConfigOneDoes
<1>4. QED
  BY <1>2, <1>3

LeftBy(c) == IF c.op = "remove" THEN <<>> ELSE c.value

(* One op of the config, of any of the three kinds.                        *)
LEMMA ConfigSqlDoes ==
  ASSUME NEW o, NEW u, NEW i, NEW ref, NEW at, Does(o, u, i, ref, at), ref.kind = "role",
         NEW c, c.path \in Key, NEW w, w = ConfigSql(u, ref, c)
  PROVE  \/ w = Aborted /\ c.op # "remove" /\ Unfit(c.path, c.value)
         \/ \E now : Does(o, w, i, ref, now) /\ ConfigIs(at, now, c.path, LeftBy(c))
<1>1. CASE c.op = "remove"
  <2>1. Called(u, ref) = {i} /\ The(Called(u, ref)) = i /\ u # Aborted
    BY DoesCalled
  <2>2. w = [u EXCEPT ![i].at.config[c.path] = <<>>]
    BY <1>1, <2>1 DEF ConfigSql, ResetConfig
  <2>3. QED
    BY <1>1, <2>2, ConfigOneDoes DEF LeftBy
<1>2. CASE c.op # "remove"
  <2>1. w = SetConfig(u, ref, c.path, c.value)
    BY <1>2 DEF ConfigSql
  <2>2. LeftBy(c) = c.value
    BY <1>2 DEF LeftBy
  <2>3. QED
    BY <1>2, <2>1, <2>2, SetConfigDoes
<1>3. QED
  BY <1>1, <1>2

(* The value that the first m ops leave under a key.                       *)
LastOf(config, m, k, before) ==
  LET S == {j \in 1..m : config[j].path = k}
  IN IF S = {} THEN before ELSE LeftBy(config[CHOOSE j \in S : \A l \in S : l <= j])

(* No op leaves the value of before.                                       *)
LEMMA LastOfNone ==
  ASSUME NEW config, NEW k, NEW before PROVE LastOf(config, 0, k, before) = before
BY 1..0 = {} DEF LastOf

(* One more op decides if it is about the parameter.                       *)
LastDecides(config, m, k, before) ==
  LastOf(config, m + 1, k, before)
    = IF config[m + 1].path = k THEN LeftBy(config[m + 1]) ELSE LastOf(config, m, k, before)

LEMMA LastOfNext ==
  ASSUME NEW config, NEW m \in Nat, NEW k, NEW before PROVE LastDecides(config, m, k, before)
<1> DEFINE S == {j \in 1..m : config[j].path = k}
           T == {j \in 1..(m + 1) : config[j].path = k}
<1>b. /\ LastOf(config, m + 1, k, before)
           = IF T = {} THEN before ELSE LeftBy(config[CHOOSE j \in T : \A l \in T : l <= j])
      /\ LastOf(config, m, k, before)
           = IF S = {} THEN before ELSE LeftBy(config[CHOOSE j \in S : \A l \in S : l <= j])
  BY DEF LastOf
<1>1. CASE config[m + 1].path = k
  <2>1. m + 1 \in T /\ \A l \in T : l <= m + 1
    BY <1>1
  <2>2. (CHOOSE j \in T : \A l \in T : l <= j) = m + 1
    <3>1. \A j \in T : (\A l \in T : l <= j) => j = m + 1
      BY <2>1
    <3> HIDE DEF T
    <3>2. QED
      BY <2>1, <3>1
  <2> HIDE DEF T, S
  <2>3. QED
    BY <1>b, <1>1, <2>1, <2>2 DEF LastDecides
<1>2. CASE config[m + 1].path # k
  <2>1. T = S
    BY <1>2
  <2> HIDE DEF T, S
  <2>2. QED
    BY <1>b, <1>2, <2>1 DEF LastDecides
<1>3. QED
  BY <1>1, <1>2

(* After all ops the value is the one that RoleDone speaks of (LastValue). *)
LEMMA LastOfAll ==
  ASSUME NEW config, Len(config) \in Nat, DOMAIN config = 1..Len(config), NEW k, NEW before
  PROVE  LastValue(config, k, before) = LastOf(config, Len(config), k, before)
BY DEF LastValue, LastOf, LeftBy

(* A list has the elements of its range.                                   *)
LEMMA ListIs ==
  ASSUME NEW s, IsList(s)
  PROVE  Len(s) \in Nat /\ DOMAIN s = 1..Len(s) /\ \A j \in 1..Len(s) : s[j] \in ToSet(s)
BY DEF IsList, ToSet

(* The ops of a body, one after the other (FoldLeft in Roles).             *)
ConfigStep(ref, u, c) == ConfigSql(u, ref, c)
ConfigFolds == INSTANCE ListFolds WITH Op <- ConfigStep

(* The ops of a config are applied in their order, one step each.          *)
LEMMA ConfigFold ==
  ASSUME NEW ref, NEW u, NEW config, IsList(config)
  PROVE  \E f : /\ f[0] = u
                /\ \A m \in 1..Len(config) : f[m] = ConfigSql(f[m - 1], ref, config[m])
                /\ ConfigSqls(u, ref, config) = f[Len(config)]
<1>1. Len(config) \in Nat /\ DOMAIN config = 1..Len(config)
  BY ListIs
<1>2. PICK f : ConfigFolds!Steps(f, ref, u, config)
  BY <1>1, ConfigFolds!FoldSteps
<1>3. /\ f[0] = u
      /\ \A m \in 1..Len(config) : f[m] = ConfigSql(f[m - 1], ref, config[m])
  BY <1>2 DEF ConfigFolds!Steps, ConfigStep
<1>4. ConfigSqls(u, ref, config) = f[Len(config)]
  BY <1>2 DEF ConfigSqls, FoldLeft, MapThenFoldSet, Max, ConfigFolds!Steps, ConfigFolds!Fold, ConfigStep,
              ConfigFolds!FoldLeft, ConfigFolds!MapThenFoldSet, ConfigFolds!Max
<1>5. QED
  BY <1>3, <1>4

ConfigLeft(config, m, at, now) ==
  /\ now.can_login = at.can_login
  /\ \A k \in Key : now.config[k] = LastOf(config, m, k, at.config[k])

UnfitOp(config) == \E c \in ToSet(config) : c.op # "remove" /\ Unfit(c.path, c.value)

(* All ops of a config: aborted only for one that does not fit, else each  *)
(* parameter has the value of the last op about it.                        *)
LEMMA ConfigDoes ==
  ASSUME NEW o, NEW u, NEW i, NEW ref, NEW at, Does(o, u, i, ref, at), ref.kind = "role",
         NEW config, IsList(config), \A c \in ToSet(config) : c.path \in Key,
         NEW w, w = ConfigSqls(u, ref, config)
  PROVE  \/ w = Aborted /\ UnfitOp(config)
         \/ \E now : Does(o, w, i, ref, now) /\ ConfigLeft(config, Len(config), at, now)
<1>1. /\ Len(config) \in Nat /\ DOMAIN config = 1..Len(config)
      /\ \A j \in 1..Len(config) : config[j] \in ToSet(config)
  BY ListIs
<1>2. PICK f : /\ f[0] = u
               /\ \A m \in 1..Len(config) : f[m] = ConfigSql(f[m - 1], ref, config[m])
               /\ w = f[Len(config)]
  BY ConfigFold
<1> DEFINE P(m) == \/ f[m] = Aborted /\ UnfitOp(config)
                   \/ \E now : Does(o, f[m], i, ref, now) /\ ConfigLeft(config, m, at, now)
           S == {m \in Nat : m <= Len(config) => P(m)}
<1>3. 0 \in S
  <2>1. ConfigLeft(config, 0, at, at)
    <3>1. \A k, before : LastOf(config, 0, k, before) = before
      BY LastOfNone
    <3>2. QED
      BY <3>1 DEF ConfigLeft
  <2>2. QED
    BY <1>2, <2>1
<1>4. ASSUME NEW m \in Nat, m \in S PROVE m + 1 \in S
  <2>1. SUFFICES ASSUME m + 1 <= Len(config) PROVE P(m + 1)
    OBVIOUS
  <2>2. P(m)
    BY <1>1, <1>4, <2>1
  <2> DEFINE c == config[m + 1]
  <2>3. m + 1 \in 1..Len(config) /\ (m + 1) - 1 = m
    BY <1>1, <2>1
  <2>4. f[m + 1] = ConfigSql(f[m], ref, c) /\ c \in ToSet(config) /\ c.path \in Key
    BY <1>1, <1>2, <2>3
  <2>5. CASE f[m] = Aborted
    <3>1. f[m + 1] = Aborted
      BY <2>4, <2>5 DEF ConfigSql, SetConfig, ResetConfig
    <3>2. UnfitOp(config)
      BY <2>2, <2>5, DoesCalled
    <3>3. QED
      BY <3>1, <3>2
  <2>6. CASE f[m] # Aborted
    <3>1. PICK a : Does(o, f[m], i, ref, a) /\ ConfigLeft(config, m, at, a)
      BY <2>2, <2>6
    <3>2. \/ f[m + 1] = Aborted /\ c.op # "remove" /\ Unfit(c.path, c.value)
          \/ \E now : Does(o, f[m + 1], i, ref, now) /\ ConfigIs(a, now, c.path, LeftBy(c))
      <4> HIDE DEF c
      <4>1. QED
        BY <2>4, <3>1, ConfigSqlDoes
    <3>3. CASE f[m + 1] = Aborted /\ c.op # "remove" /\ Unfit(c.path, c.value)
      BY <2>4, <3>3 DEF UnfitOp
    <3>4. ASSUME NEW now, Does(o, f[m + 1], i, ref, now), ConfigIs(a, now, c.path, LeftBy(c))
          PROVE  P(m + 1)
      <4>1. now.can_login = at.can_login
        BY <3>1, <3>4 DEF ConfigLeft, ConfigIs
      <4>2. ASSUME NEW k \in Key PROVE now.config[k] = LastOf(config, m + 1, k, at.config[k])
        <5>1. now.config[k] = IF k = c.path THEN LeftBy(c) ELSE a.config[k]
          BY <3>4 DEF ConfigIs
        <5>2. a.config[k] = LastOf(config, m, k, at.config[k])
          BY <3>1 DEF ConfigLeft
        <5>3. LastOf(config, m + 1, k, at.config[k])
                = IF c.path = k THEN LeftBy(c) ELSE LastOf(config, m, k, at.config[k])
          <6> HIDE DEF S, P
          <6>1. LastDecides(config, m, k, at.config[k])
            BY <1>4, LastOfNext
          <6>2. QED
            BY <6>1 DEF LastDecides
        <5> HIDE DEF c
        <5>4. QED
          BY <5>1, <5>2, <5>3
      <4>3. ConfigLeft(config, m + 1, at, now)
        BY <4>1, <4>2 DEF ConfigLeft
      <4>4. QED
        BY <3>4, <4>3
    <3>5. QED
      BY <3>2, <3>3, <3>4
  <2>7. QED
    BY <2>5, <2>6
<1> HIDE DEF P
<1>5. \A m \in Nat : m \in S
  <2> HIDE DEF S
  <2>1. QED
    BY <1>3, <1>4, ConfigFolds!Inductive
<1>6. P(Len(config))
  BY <1>1, <1>5
<1>7. QED
  BY <1>2, <1>6 DEF P

(* On a role that is not there, nothing or an error.                       *)
LEMMA ConfigNone ==
  ASSUME NEW u, NEW ref, u = Aborted \/ Called(u, ref) = {},
         NEW config, IsList(config),
         NEW w, w = ConfigSqls(u, ref, config)
  PROVE  w \in {u, Aborted}
<1>1. Len(config) \in Nat
  BY ListIs
<1>2. PICK f : /\ f[0] = u
               /\ \A m \in 1..Len(config) : f[m] = ConfigSql(f[m - 1], ref, config[m])
               /\ w = f[Len(config)]
  BY ConfigFold
<1> DEFINE S == {m \in Nat : m <= Len(config) => f[m] \in {u, Aborted}}
<1>3. 0 \in S
  BY <1>2
<1>4. ASSUME NEW m \in Nat, m \in S PROVE m + 1 \in S
  <2>1. SUFFICES ASSUME m + 1 <= Len(config) PROVE f[m + 1] \in {u, Aborted}
    OBVIOUS
  <2>2. m + 1 \in 1..Len(config) /\ (m + 1) - 1 = m /\ f[m] \in {u, Aborted}
    BY <1>1, <1>4, <2>1
  <2>3. f[m + 1] = ConfigSql(f[m], ref, config[m + 1])
    BY <1>2, <2>2
  <2>4. QED
    BY <2>2, <2>3 DEF ConfigSql, SetConfig, ResetConfig
<1>5. \A m \in Nat : m \in S
  <2> HIDE DEF S
  <2>1. QED
    BY <1>3, <1>4, ConfigFolds!Inductive
<1>6. QED
  BY <1>1, <1>2, <1>5

(* What the body asks of a role that has the name of ref and has at.       *)
RoleAsked(s, name, at, p) ==
  /\ s.kind = "role" /\ s.name = Given(p.name, name)
  /\ s.at.can_login = Given(p.can_login, at.can_login)
  /\ \A k \in Key : s.at.config[k] = LastValue(p.config, k, at.config[k])

(* The update of a role.                                                   *)
LEMMA RoleSqlDoes ==
  ASSUME NEW o, Stored(o), NEW ref, IsReference(ref), ref.kind = "role",
         NEW p \in Bodies["role"], \A c \in ToSet(p.config) : Known(c),
         NEW j \in Oid, NEW w, w = RoleSql(o, ref, p)
  PROVE  \/ /\ w = Aborted
            /\ ref = o[j] => Called(o, Ref("role", Database, p.name)) # {} \/ UnfitOp(p.config)
         \/ w = o /\ ref # o[j]
         \/ \E i, new, now : /\ Does(o, w, i, new, now)
                             /\ ref = o[j] => i = j /\ RoleAsked(w[j], o[j].name, o[j].at, p)
<1> DEFINE o1 == AlterRole(o, ref, p)
           o2 == ConfigSqls(o1, ref, p.config)
<1>1. w = IF p.name = Undefined THEN o2 ELSE Rename(o2, ref, p.name)
  BY DEF RoleSql, RoleNameSql
<1>2. IsList(p.config) /\ \A c \in ToSet(p.config) : c.path \in Key
  BY RoleBodiesAssumption DEF Known
<1>3. p.name # Undefined => p.name \in Name
  <2>1. "role" \in Kinds \ (Read \cup ByName)
    BY DEF Kinds, Read, ByName
  <2>2. QED
    BY <2>1, BodiesAssumption
<1>4. ref = o[j] => j \in Called(o, ref)
  <2>1. SUFFICES ASSUME ref = o[j] PROVE o[j].kind # "none"
    BY DEF Called, Made
  <2>2. QED
    BY <2>1
<1>5. CASE Called(o, ref) = {}
  <2>1. o1 \in {o, Aborted}
    BY <1>5 DEF AlterRole
  <2>2. o2 \in {o1, Aborted}
    <3>1. o1 = Aborted \/ Called(o1, ref) = {}
      BY <1>5, <2>1
    <3>2. o2 = ConfigSqls(o1, ref, p.config)
      OBVIOUS
    <3> HIDE DEF o1, o2
    <3>3. QED
      BY <1>2, <3>1, <3>2, ConfigNone
  <2> HIDE DEF o1, o2
  <2>3. w \in {o, Aborted}
    BY <1>1, <1>5, <2>1, <2>2, NoneCalled
  <2>4. QED
    BY <1>4, <1>5, <2>3
<1>6. ASSUME NEW i \in Called(o, ref)
      PROVE  \/ /\ w = Aborted
                /\ ref = o[j] => Called(o, Ref("role", Database, p.name)) # {} \/ UnfitOp(p.config)
             \/ \E new, now : /\ Does(o, w, i, new, now)
                              /\ ref = o[j] => i = j /\ RoleAsked(w[j], o[j].name, o[j].at, p)
  <2> DEFINE at == o[i].at
  <2>1. Does(o, o, i, ref, at) /\ Called(o, ref) = {i}
    BY <1>6, CalledDoes, CalledOne
  <2>2. ref = o[j] => i = j /\ o[j].at = at
    BY <1>4, <2>1
  <2> HIDE DEF at
  <2>3. DOMAIN at = {"can_login", "config"} /\ ref.ns = Database
    BY <2>1, RoleAttributes
  <2>4. PICK a1 : /\ Does(o, o1, i, ref, a1) /\ a1.can_login = Given(p.can_login, at.can_login)
                  /\ a1.config = at.config
    <3>1. o1 = Given1(o, ref, "can_login", p.can_login)
      BY <1>6, <2>1, StoredLegal DEF AlterRole
    <3>2. "can_login" \in DOMAIN at /\ "config" \in DOMAIN at \ {"can_login"} /\ Plain("can_login")
      BY <2>3 DEF Plain
    <3> HIDE DEF o1
    <3>3. \E now : /\ Does(o, o1, i, ref, now) /\ now["can_login"] = Given(p.can_login, at["can_login"])
                  /\ DOMAIN now = DOMAIN at
                  /\ \A g \in DOMAIN at \ {"can_login"} : now[g] = at[g]
      BY <2>1, <3>1, <3>2, Given1Does
    <3>4. QED
      BY <3>2, <3>3
  <2>5. \/ o2 = Aborted /\ UnfitOp(p.config)
        \/ \E now : Does(o, o2, i, ref, now) /\ ConfigLeft(p.config, Len(p.config), a1, now)
    <3>1. o2 = ConfigSqls(o1, ref, p.config)
      OBVIOUS
    <3> HIDE DEF o1, o2
    <3>2. QED
      BY <1>2, <2>4, <3>1, ConfigDoes
  <2> HIDE DEF o1, o2
  <2>6. CASE o2 = Aborted
    <3>1. UnfitOp(p.config)
      BY <2>5, <2>6, DoesCalled
    <3>2. w = Aborted
      BY <1>1, <2>6, NoneCalled
    <3>3. QED
      BY <3>1, <3>2
  <2>7. CASE o2 # Aborted
    <3>1. PICK a2 : Does(o, o2, i, ref, a2) /\ ConfigLeft(p.config, Len(p.config), a1, a2)
      BY <2>5, <2>7
    <3>2. a2.can_login = Given(p.can_login, at.can_login)
          /\ \A k \in Key : a2.config[k] = LastValue(p.config, k, at.config[k])
      <4>1. Len(p.config) \in Nat /\ DOMAIN p.config = 1..Len(p.config)
        BY <1>2, ListIs
      <4>2. \A k, before : LastValue(p.config, k, before) = LastOf(p.config, Len(p.config), k, before)
        BY <4>1, LastOfAll
      <4>3. QED
        BY <2>4, <3>1, <4>2 DEF ConfigLeft
    <3>3. ASSUME NEW new, Does(o, w, i, new, a2), new.kind = "role", new.name = Given(p.name, ref.name)
          PROVE  ref = o[j] => i = j /\ RoleAsked(w[j], o[j].name, o[j].at, p)
      <4>1. w[i] = Object(new, a2)
        BY <3>3 DEF Does
      <4>2. w[i].kind = "role" /\ w[i].name = new.name /\ w[i].at = a2
        BY <3>3, <4>1 DEF Object
      <4>3. QED
        BY <2>2, <3>2, <3>3, <4>2 DEF RoleAsked
    <3>4. CASE p.name = Undefined
      <4>1. w = o2 /\ Given(p.name, ref.name) = ref.name
        BY <1>1, <3>4 DEF Given
      <4>2. QED
        BY <3>1, <3>3, <4>1
    <3>5. CASE p.name # Undefined
      <4> DEFINE new == Renamed(ref, p.name)
      <4>1. new.kind = "role" /\ new.ns = Database /\ new.name = p.name
        BY <2>3, ReferenceFields
      <4>2. w = Rename(o2, ref, p.name) /\ Given(p.name, ref.name) = p.name
        BY <1>1, <3>5 DEF Given
      <4>3. SameName(new, Ref("role", Database, p.name))
        BY <4>1 DEF SameName, Ref
      <4> HIDE DEF new
      <4>4. \/ w = Aborted /\ Called(o2, new) # {}
            \/ Does(o, w, i, new, a2)
        BY <1>3, <3>1, <3>5, <4>2, RenameDoes DEF new
      <4>5. ASSUME Called(o2, new) # {} PROVE Called(o, Ref("role", Database, p.name)) # {}
        <5>1. Called(o, new) = Called(o, Ref("role", Database, p.name))
          BY <4>3, CalledAlike
        <5>2. CASE SameName(ref, new)
          BY <2>1, <5>1, <5>2, CalledAlike
        <5>3. CASE ~SameName(ref, new)
          BY <3>1, <4>5, <5>1, <5>3, TakenBefore
        <5>4. QED
          BY <5>2, <5>3
      <4>6. QED
        BY <3>3, <4>1, <4>2, <4>4, <4>5
    <3>6. QED
      BY <3>4, <3>5
  <2>8. QED
    BY <2>6, <2>7
<1>7. QED
  BY <1>5, <1>6

(* The config of a new role.                                               *)
NewConfigStep(ref, u, c) == NewConfigSql(u, ref, c)
NewConfigFolds == INSTANCE ListFolds WITH Op <- NewConfigStep

(* The config of a new role is applied in its order, one step each.        *)
LEMMA NewConfigFold ==
  ASSUME NEW ref, NEW u, NEW config, IsList(config)
  PROVE  \E f : /\ f[0] = u
                /\ \A m \in 1..Len(config) : f[m] = NewConfigSql(f[m - 1], ref, config[m])
                /\ NewConfigSqls(u, ref, config) = f[Len(config)]
<1>1. Len(config) \in Nat /\ DOMAIN config = 1..Len(config)
  BY ListIs
<1>2. PICK f : NewConfigFolds!Steps(f, ref, u, config)
  BY <1>1, NewConfigFolds!FoldSteps
<1>3. /\ f[0] = u
      /\ \A m \in 1..Len(config) : f[m] = NewConfigSql(f[m - 1], ref, config[m])
  BY <1>2 DEF NewConfigFolds!Steps, NewConfigStep
<1>4. NewConfigSqls(u, ref, config) = f[Len(config)]
  BY <1>2 DEF NewConfigSqls, FoldLeft, MapThenFoldSet, Max, NewConfigFolds!Steps, NewConfigFolds!Fold,
              NewConfigStep, NewConfigFolds!FoldLeft, NewConfigFolds!MapThenFoldSet, NewConfigFolds!Max
<1>5. QED
  BY <1>3, <1>4

(* The config of a new role aborts, or changes this role only.             *)
LEMMA NewConfigDoes ==
  ASSUME NEW o, NEW u, NEW i, NEW ref, NEW at, Does(o, u, i, ref, at), ref.kind = "role",
         NEW config, IsList(config), \A c \in ToSet(config) : c.path \in Key \cup {NoKey},
         NEW w, w = NewConfigSqls(u, ref, config)
  PROVE  w = Aborted \/ \E now : Does(o, w, i, ref, now)
<1>1. /\ Len(config) \in Nat /\ DOMAIN config = 1..Len(config)
      /\ \A j \in 1..Len(config) : config[j] \in ToSet(config)
  BY ListIs
<1>2. PICK f : /\ f[0] = u
               /\ \A m \in 1..Len(config) : f[m] = NewConfigSql(f[m - 1], ref, config[m])
               /\ w = f[Len(config)]
  BY NewConfigFold
<1> DEFINE P(m) == f[m] = Aborted \/ \E now : Does(o, f[m], i, ref, now)
           S == {m \in Nat : m <= Len(config) => P(m)}
<1>3. 0 \in S
  BY <1>2
<1>4. ASSUME NEW m \in Nat, m \in S PROVE m + 1 \in S
  <2>1. SUFFICES ASSUME m + 1 <= Len(config) PROVE P(m + 1)
    OBVIOUS
  <2>2. P(m)
    BY <1>1, <1>4, <2>1
  <2> DEFINE c == config[m + 1]
  <2>3. m + 1 \in 1..Len(config) /\ (m + 1) - 1 = m
    BY <1>1, <1>4, <2>1
  <2>4. f[m + 1] = NewConfigSql(f[m], ref, c) /\ c.path \in Key \cup {NoKey}
    BY <1>1, <1>2, <2>3
  <2> HIDE DEF c
  <2>5. CASE c.path = NoKey \/ c.value = <<>>
    BY <2>2, <2>4, <2>5 DEF NewConfigSql
  <2>6. CASE ~(c.path = NoKey \/ c.value = <<>>)
    <3>1. f[m + 1] = SetConfig(f[m], ref, c.path, c.value) /\ c.path \in Key
      BY <2>4, <2>6 DEF NewConfigSql
    <3>2. CASE f[m] = Aborted
      BY <3>1, <3>2 DEF SetConfig
    <3>3. CASE f[m] # Aborted
      <4>1. PICK a : Does(o, f[m], i, ref, a)
        BY <2>2, <3>3
      <4>2. QED
        BY <3>1, <4>1, SetConfigDoes
    <3>4. QED
      BY <3>2, <3>3
  <2>7. QED
    BY <2>5, <2>6
<1> HIDE DEF P
<1>5. \A m \in Nat : m \in S
  <2> HIDE DEF S
  <2>1. QED
    BY <1>3, <1>4, NewConfigFolds!Inductive
<1>6. P(Len(config))
  BY <1>1, <1>5
<1>7. QED
  BY <1>2, <1>6 DEF P

(* Nothing follows an abort.                                               *)
LEMMA NewConfigAborted ==
  ASSUME NEW ref, NEW config, IsList(config) PROVE NewConfigSqls(Aborted, ref, config) = Aborted
<1>1. Len(config) \in Nat
  BY ListIs
<1>2. PICK f : /\ f[0] = Aborted
               /\ \A m \in 1..Len(config) : f[m] = NewConfigSql(f[m - 1], ref, config[m])
               /\ NewConfigSqls(Aborted, ref, config) = f[Len(config)]
  BY NewConfigFold
<1> DEFINE S == {m \in Nat : m <= Len(config) => f[m] = Aborted}
<1>3. 0 \in S
  BY <1>2
<1>4. ASSUME NEW m \in Nat, m \in S PROVE m + 1 \in S
  <2>1. SUFFICES ASSUME m + 1 <= Len(config) PROVE f[m + 1] = Aborted
    OBVIOUS
  <2>2. m + 1 \in 1..Len(config) /\ (m + 1) - 1 = m /\ f[m] = Aborted
    BY <1>1, <1>4, <2>1
  <2>3. f[m + 1] = NewConfigSql(f[m], ref, config[m + 1])
    BY <1>2, <2>2
  <2>4. QED
    BY <2>2, <2>3 DEF NewConfigSql, SetConfig
<1>5. \A m \in Nat : m \in S
  <2> HIDE DEF S
  <2>1. QED
    BY <1>3, <1>4, NewConfigFolds!Inductive
<1>6. QED
  BY <1>1, <1>2, <1>5

-------------------------------------------------------------------------------
(* Schemas, policies, triggers and extensions.                             *)

(* Rename, when the body has a name.                                       *)
LEMMA NameDoes ==
  ASSUME NEW o, Stored(o), NEW u, NEW ref, NEW i \in Called(o, ref), NEW at, Does(o, u, i, ref, at),
         IsReference(ref), NEW n \in Name, NEW w, w = Rename(u, ref, n)
  PROVE  \/ w = Aborted /\ Called(o, Renamed(ref, n)) # {}
         \/ Does(o, w, i, Renamed(ref, n), at)
<1> DEFINE new == Renamed(ref, n)
<1> HIDE DEF new
<1>1. \/ w = Aborted /\ Called(u, new) # {}
      \/ Does(o, w, i, new, at)
  BY RenameDoes DEF new
<1>2. ASSUME Called(u, new) # {} PROVE Called(o, new) # {}
  <2>1. CASE SameName(ref, new)
    BY <2>1, CalledAlike
  <2>2. CASE ~SameName(ref, new)
    BY <1>2, <2>2, TakenBefore
  <2>3. QED
    BY <2>1, <2>2
<1>3. QED
  BY <1>1, <1>2 DEF new

(* What the statements before the rename make of the catalog.              *)
AttributesDone(o, u, k, ref, p) ==
  \/ Called(o, ref) = {} /\ u \in {o, Aborted}
  \/ \E i, at :
       /\ i \in Called(o, ref) /\ Does(o, u, i, ref, at)
       /\ \A f \in Settable[k] : at[f] = Given(p[f], o[i].at[f])

NamedAsked(k, x, y, p) ==
  /\ y.name = Given(p.name, x.name) /\ y.ns = x.ns
  /\ \A f \in Settable[k] : y.at[f] = Given(p[f], x.at[f])

NamedTaken(k, o, j, p) ==
  LET taken == Called(o, [o[j] EXCEPT !.name = p.name])
  IN IF k = "trigger" THEN taken \ {j} # {} ELSE taken # {}

(* The name is last.                                                       *)
LEMMA NamedSqlDoes ==
  ASSUME NEW o, Stored(o), NEW k \in {"schema", "policy", "trigger"},
         NEW ref, IsReference(ref), ref.kind = k, NEW p \in Bodies[k], NEW u,
         AttributesDone(o, u, k, ref, p), NEW skip \in BOOLEAN, NEW j \in Oid,
         skip <=> p.name = Undefined \/ (k = "trigger" /\ p.name = ref.name),
         NEW w, w = IF skip THEN u ELSE Rename(u, ref, p.name)
  PROVE  \/ w = Aborted /\ (ref = o[j] => NamedTaken(k, o, j, p))
         \/ w = o /\ ref # o[j]
         \/ \E i, new, now : /\ Does(o, w, i, new, now)
                             /\ ref = o[j] => i = j /\ NamedAsked(k, o[j], w[j], p)
<1>1. ref = o[j] => j \in Called(o, ref)
  <2>1. SUFFICES ASSUME ref = o[j] PROVE o[j].kind # "none"
    BY DEF Called, Made
  <2>2. QED
    BY <2>1
<1>2. ~skip => p.name \in Name
  <2>1. k \in Kinds \ (Read \cup ByName)
    BY DEF Kinds, Read, ByName
  <2>2. QED
    BY <2>1, BodiesAssumption
<1>3. CASE Called(o, ref) = {}
  <2>1. u \in {o, Aborted}
    BY <1>3 DEF AttributesDone
  <2>2. w \in {o, Aborted}
    BY <1>3, <2>1, NoneCalled
  <2>3. QED
    BY <1>1, <1>3, <2>2
<1>4. CASE Called(o, ref) # {}
  <2>1. PICK i, at : /\ i \in Called(o, ref) /\ Does(o, u, i, ref, at)
                     /\ \A f \in Settable[k] : at[f] = Given(p[f], o[i].at[f])
    BY <1>4 DEF AttributesDone
  <2>2. Called(o, ref) = {i}
    BY <2>1, CalledOne
  <2>3. ref = o[j] => i = j
    BY <1>1, <2>2
  <2>4. ASSUME NEW new, Does(o, w, i, new, at), new.ns = ref.ns, new.name = Given(p.name, ref.name)
        PROVE  ref = o[j] => i = j /\ NamedAsked(k, o[j], w[j], p)
    <3>1. w[i] = Object(new, at)
      BY <2>4 DEF Does
    <3>2. w[i].ns = new.ns /\ w[i].name = new.name /\ w[i].at = at
      BY <3>1 DEF Object
    <3>3. QED
      BY <2>1, <2>3, <2>4, <3>2 DEF NamedAsked
  <2>5. CASE skip
    <3>1. w = u /\ Given(p.name, ref.name) = ref.name
      BY <2>5 DEF Given
    <3>2. QED
      BY <2>1, <2>4, <3>1
  <2>6. CASE ~skip
    <3> DEFINE new == Renamed(ref, p.name)
    <3>1. w = Rename(u, ref, p.name) /\ p.name \in Name /\ Given(p.name, ref.name) = p.name
      BY <1>2, <2>6 DEF Given
    <3>2. new.ns = ref.ns /\ new.name = p.name /\ new.kind = k
      BY ReferenceFields
    <3>3. new = [ref EXCEPT !.name = p.name]
      BY DEF Renamed
    <3> HIDE DEF new
    <3>4. \/ w = Aborted /\ Called(o, new) # {}
          \/ Does(o, w, i, new, at)
      BY <2>1, <3>1, NameDoes DEF new
    <3>5. CASE Does(o, w, i, new, at)
      BY <2>4, <3>1, <3>2, <3>5
    <3>6. CASE w = Aborted /\ Called(o, new) # {}
      <4>1. ASSUME ref = o[j] PROVE NamedTaken(k, o, j, p)
        <5>1. Called(o, [o[j] EXCEPT !.name = p.name]) # {}
          BY <3>3, <3>6, <4>1
        <5>2. k = "trigger" => j \notin Called(o, [o[j] EXCEPT !.name = p.name])
          <6>1. SUFFICES ASSUME k = "trigger", j \in Called(o, new) PROVE FALSE
            BY <3>3, <4>1
          <6>2. SameName(o[j], new)
            BY <6>1, CalledOne
          <6>3. QED
            BY <2>6, <3>2, <4>1, <6>1, <6>2 DEF SameName
        <5>3. QED
          BY <5>1, <5>2 DEF NamedTaken
      <4>2. QED
        BY <3>6, <4>1
    <3>7. QED
      BY <3>4, <3>5, <3>6
  <2>7. QED
    BY <2>5, <2>6
<1>5. QED
  BY <1>3, <1>4

(* The attributes of each kind.                                            *)
LEMMA SchemaDoes ==
  ASSUME NEW o, Stored(o), NEW ref, ref.kind = "schema", NEW p,
         NEW w, w = Given1(o, ref, "owner", p.owner)
  PROVE  AttributesDone(o, w, "schema", ref, p)
<1>1. CASE Called(o, ref) = {}
  BY <1>1, NoneCalled DEF AttributesDone
<1>2. CASE Called(o, ref) # {}
  <2>1. PICK i \in Called(o, ref) : TRUE
    BY <1>2
  <2> DEFINE at == o[i].at
  <2>2. Does(o, o, i, ref, at) /\ "owner" \in DOMAIN at /\ Plain("owner")
    BY CalledDoes DEF Does, AttributesSound, AttributesOf, Plain
  <2> HIDE DEF at
  <2>3. PICK now : Does(o, w, i, ref, now) /\ now["owner"] = Given(p.owner, at["owner"])
    BY <2>2, Given1Does
  <2>4. QED
    BY <2>3 DEF AttributesDone, Settable, at
<1>3. QED
  BY <1>1, <1>2

(* The attributes of a trigger: its enabled mode.                          *)
LEMMA TriggerDoes ==
  ASSUME NEW o, Stored(o), NEW ref, ref.kind = "trigger", NEW p,
         NEW w, w = Given1(o, ref, "enabled_mode", p.enabled_mode)
  PROVE  AttributesDone(o, w, "trigger", ref, p)
<1>1. CASE Called(o, ref) = {}
  BY <1>1, NoneCalled DEF AttributesDone
<1>2. CASE Called(o, ref) # {}
  <2>1. PICK i \in Called(o, ref) : TRUE
    BY <1>2
  <2> DEFINE at == o[i].at
  <2>2. Does(o, o, i, ref, at) /\ "enabled_mode" \in DOMAIN at /\ Plain("enabled_mode")
    BY CalledDoes DEF Does, AttributesSound, AttributesOf, Plain
  <2> HIDE DEF at
  <2>3. PICK now : Does(o, w, i, ref, now) /\ now["enabled_mode"] = Given(p.enabled_mode, at["enabled_mode"])
    BY <2>2, Given1Does
  <2>4. QED
    BY <2>3 DEF AttributesDone, Settable, at
<1>3. QED
  BY <1>1, <1>2

(* The attributes of a policy: definition, check and roles, each if given. *)
LEMMA PolicyDoes ==
  ASSUME NEW o, Stored(o), NEW ref, ref.kind = "policy", NEW p,
         NEW w, w = PolicyAttributes(o, ref, p)
  PROVE  AttributesDone(o, w, "policy", ref, p)
<1> DEFINE o1 == Given1(o, ref, "definition", p.definition)
           o2 == Given1(o1, ref, "check", p.check)
<1>0. w = Given1(o2, ref, "roles", p.roles)
  BY DEF PolicyAttributes
<1>1. CASE Called(o, ref) = {}
  <2>1. o1 \in {o, Aborted}
    BY <1>1, NoneCalled
  <2>2. o2 \in {o1, Aborted}
    BY <1>1, <2>1, NoneCalled
  <2> HIDE DEF o1, o2
  <2>3. w \in {o2, Aborted}
    BY <1>0, <1>1, <2>1, <2>2, NoneCalled
  <2>4. QED
    BY <1>1, <2>1, <2>2, <2>3 DEF AttributesDone
<1>2. CASE Called(o, ref) # {}
  <2>1. PICK i \in Called(o, ref) : TRUE
    BY <1>2
  <2> DEFINE at == o[i].at
             A == {"definition", "check", "roles"}
  <2>2. Does(o, o, i, ref, at) /\ DOMAIN at = A /\ \A f \in A : Plain(f)
    BY CalledDoes DEF Does, AttributesSound, AttributesOf, Plain
  <2> HIDE DEF at
  <2>3. PICK a1 : /\ Does(o, o1, i, ref, a1) /\ a1["definition"] = Given(p.definition, at["definition"])
                  /\ DOMAIN a1 = A /\ \A g \in A \ {"definition"} : a1[g] = at[g]
    <3>1. "definition" \in DOMAIN at /\ Plain("definition") /\ o1 = Given1(o, ref, "definition", p.definition)
      BY <2>2
    <3> HIDE DEF o1
    <3>2. QED
      BY <2>2, <3>1, Given1Does
  <2> HIDE DEF o1
  <2>4. PICK a2 : /\ Does(o, o2, i, ref, a2) /\ a2["check"] = Given(p.check, a1["check"])
                  /\ DOMAIN a2 = A /\ \A g \in A \ {"check"} : a2[g] = a1[g]
    <3>1. "check" \in DOMAIN a1 /\ Plain("check") /\ o2 = Given1(o1, ref, "check", p.check)
      BY <2>2, <2>3
    <3> HIDE DEF o2
    <3>2. QED
      BY <2>3, <3>1, Given1Does
  <2> HIDE DEF o2
  <2>5. PICK a3 : /\ Does(o, w, i, ref, a3) /\ a3["roles"] = Given(p.roles, a2["roles"])
                  /\ DOMAIN a3 = A /\ \A g \in A \ {"roles"} : a3[g] = a2[g]
    <3>1. "roles" \in DOMAIN a2 /\ Plain("roles")
      BY <2>2, <2>4
    <3>2. QED
      BY <1>0, <2>4, <3>1, Given1Does
  <2>6. \A f \in Settable["policy"] : a3[f] = Given(p[f], at[f])
    BY <2>3, <2>4, <2>5 DEF Settable
  <2>7. QED
    BY <2>5, <2>6 DEF AttributesDone, at
<1>3. QED
  BY <1>1, <1>2

(* An extension is set, or not there.                                      *)
LEMMA ExtensionDoes ==
  ASSUME NEW o, Stored(o), NEW ref, ref.kind = "extension", NEW p, NEW w, w = ExtensionSql(o, ref, p)
  PROVE  w \in {o, Aborted} \/ \E i, now : Does(o, w, i, ref, now)
<1> DEFINE version == IF p.update = TRUE THEN Given(p.version, Newest) ELSE Undefined
           o1 == Given1(o, ref, "version", version)
<1>0. w = Given1(o1, ref, "schema", p.schema)
  BY DEF ExtensionSql
<1>1. CASE Called(o, ref) = {}
  <2>1. o1 \in {o, Aborted}
    BY <1>1, NoneCalled
  <2> HIDE DEF o1, version
  <2>2. QED
    BY <1>0, <1>1, <2>1, NoneCalled
<1>2. CASE Called(o, ref) # {}
  <2>1. PICK i \in Called(o, ref) : TRUE
    BY <1>2
  <2> DEFINE at == o[i].at
             A == {"version", "schema"}
  <2>2. Does(o, o, i, ref, at) /\ DOMAIN at = A /\ \A f \in A : Plain(f)
    BY CalledDoes DEF Does, AttributesSound, AttributesOf, Plain
  <2> HIDE DEF at
  <2>3. PICK a1 : Does(o, o1, i, ref, a1) /\ DOMAIN a1 = A
    <3>1. "version" \in DOMAIN at /\ Plain("version") /\ o1 = Given1(o, ref, "version", version)
      BY <2>2
    <3> HIDE DEF o1, version
    <3>2. QED
      BY <2>2, <3>1, Given1Does
  <2> HIDE DEF o1
  <2>4. "schema" \in DOMAIN a1 /\ Plain("schema")
    BY <2>2, <2>3
  <2>5. QED
    BY <1>0, <2>3, <2>4, Given1Does
<1>3. QED
  BY <1>1, <1>2

-------------------------------------------------------------------------------
(* Publications.                                                           *)

PublicationAttributes == {"all", "tables", "ops", "owner", "viaroot"}

(* The attributes of a publication.                                        *)
LEMMA PublicationDomain ==
  ASSUME NEW o, NEW u, NEW i, NEW ref, NEW at, Does(o, u, i, ref, at), ref.kind = "publication"
  PROVE  /\ DOMAIN at = PublicationAttributes /\ at.all \in BOOLEAN /\ (at.all => at.tables = {})
         /\ ref.ns = Database
BY DEF Does, AttributesSound, AttributesOf, PublicationAttributes, AddressSound, DatabaseKinds

(* base is o, or o without the publication i, which is made again as r.    *)
Remade(o, i, base, r) ==
  /\ i \in Oid /\ r \in Oid /\ OthersKept(o, base, i)
  /\ (base = o /\ r = i) \/ r # i

(* drop publication; create publication.                                   *)
LEMMA RecreateDoes ==
  ASSUME NEW o, Stored(o), NEW i \in Made(o), o[i].kind = "publication", NEW all \in BOOLEAN,
         NEW w, w = Recreate(o, i, all), w # Aborted
  PROVE  \E base, r : /\ Remade(o, i, base, r) /\ r # i
                      /\ Does(base, w, r, o[i], NewPublication(all, {}, Operation))
<1> DEFINE r == The(Oid \ Made(o))
           at == NewPublication(all, {}, Operation)
           base == [o EXCEPT ![i] = NoObject]
<1>1. r \in Oid \ Made(o) /\ i \in Oid /\ r # i
  <2>1. Oid \ Made(o) # {}
    BY DEF Recreate, Made
  <2>2. QED
    BY <2>1, MadeSound DEF The
<1>2. Sound(o[i]) /\ o[i].ns = Database
  BY MadeSound DEF Sound, AddressSound, DatabaseKinds
<1>3. /\ DOMAIN at = PublicationAttributes /\ at.all = all /\ at.tables = {}
  BY DEF NewPublication, PublicationAttributes
<1>4. Object(o[i], at) = [kind |-> "publication", ns |-> Database, name |-> o[i].name, at |-> at]
  BY <1>2 DEF Object
<1>5. w = [o EXCEPT ![i] = NoObject,
                    ![r] = [kind |-> "publication", ns |-> Database, name |-> o[i].name, at |-> at]]
  BY DEF Recreate
<1> HIDE DEF r, at
<1>6. w = [base EXCEPT ![r] = Object(o[i], at)]
  BY <1>4, <1>5
<1>7. Stored(base) /\ OthersKept(o, base, i) /\ base[i] = NoObject
  BY <1>1, ClearStored
<1> HIDE DEF base
<1>8. Called(base, o[i]) = {}
  <2>1. SUFFICES ASSUME NEW j \in Called(base, o[i]) PROVE FALSE
    OBVIOUS
  <2>2. j \in Oid /\ Sound(base[j]) /\ SameName(base[j], o[i])
    BY <1>7, CalledOne
  <2>3. j # i
    BY <1>7, <2>2, SoundMade
  <2>4. Sound(o[j]) /\ SameName(o[j], o[i])
    BY <1>7, <2>2, <2>3 DEF OthersKept
  <2>5. QED
    BY <1>1, <1>2, <2>2, <2>3, <2>4 DEF Stored
<1>9. AddressSound(o[i]) /\ AttributesSound(o[i].kind, at)
  BY <1>2, <1>3 DEF Sound, AttributesSound, AttributesOf, PublicationAttributes
<1>10. OthersKept(base, base, r)
  BY DEF OthersKept
<1>11. Does(base, w, r, o[i], at)
  BY <1>1, <1>6, <1>7, <1>8, <1>9, <1>10, PutDoes
<1>12. QED
  BY <1>1, <1>7, <1>11 DEF Remade, at

AllAsked(tables, at) == tables = Null \/ (tables = Undefined /\ at.all)

(* What the body asks of the tables of a publication that has at.          *)
TablesAsked(at, now, tables) ==
  /\ now.all <=> AllAsked(tables, at)
  /\ now.tables = CASE tables = Undefined -> at.tables
                    [] tables = Null -> {}
                    [] OTHER -> tables

(* The tables of a publication: kept, set, or the publication made again,  *)
(* with the same name and owner, where the list of all tables begins or    *)
(* ends.                                                                   *)
LEMMA TablesDoes ==
  ASSUME NEW o, Stored(o), NEW i \in Made(o), o[i].kind = "publication", NEW tables,
         NEW w, w = TablesSql(o, i, tables)
  PROVE  \/ w = Aborted
         \/ \E base, r, now : /\ Remade(o, i, base, r) /\ Does(base, w, r, o[i], now)
                              /\ TablesAsked(o[i].at, now, tables)
                              /\ r = i => now.viaroot = o[i].at.viaroot
<1> DEFINE at == o[i].at
<1>1. i \in Called(o, o[i])
  BY DEF Called
<1>2. Does(o, o, i, o[i], at) /\ Remade(o, i, o, i)
  BY <1>1, CalledDoes, MadeSound DEF Remade, OthersKept
<1>3. DOMAIN at = PublicationAttributes /\ at.all \in BOOLEAN /\ (at.all => at.tables = {})
  <2>1. AttributesSound("publication", at)
    BY <1>2 DEF Does
  <2>2. QED
    BY <2>1 DEF AttributesSound, AttributesOf, PublicationAttributes
<1>4. Undefined # Null
  BY CatalogAssumption
<1>5. ASSUME NEW all \in BOOLEAN, Recreate(o, i, all) # Aborted
      PROVE  \E base, r, now : /\ Remade(o, i, base, r) /\ r # i
                               /\ Does(base, Recreate(o, i, all), r, o[i], now)
                               /\ now.all = all /\ now.tables = {}
  <2> DEFINE u == Recreate(o, i, all)
             n == NewPublication(all, {}, Operation)
  <2>1. u = Recreate(o, i, all) /\ u # Aborted
    BY <1>5
  <2> HIDE DEF u
  <2>2. PICK base, r : Remade(o, i, base, r) /\ r # i /\ Does(base, u, r, o[i], n)
    BY <2>1, RecreateDoes
  <2>3. n.all = all /\ n.tables = {}
    BY DEF NewPublication
  <2> HIDE DEF n
  <2>4. QED
    BY <2>2, <2>3 DEF u
<1>6. CASE tables = Undefined \/ (tables = Null /\ at.all)
  <2>1. w = o
    BY <1>4, <1>6 DEF TablesSql
  <2>2. TablesAsked(at, at, tables)
    BY <1>3, <1>4, <1>6 DEF TablesAsked, AllAsked
  <2>3. QED
    BY <1>2, <2>1, <2>2
<1>7. CASE tables = Null /\ ~at.all
  <2>1. w = Recreate(o, i, TRUE)
    BY <1>4, <1>7 DEF TablesSql
  <2>2. CASE w # Aborted
    <3>1. PICK base, r, now : /\ Remade(o, i, base, r) /\ r # i /\ Does(base, w, r, o[i], now)
                              /\ now.all = TRUE /\ now.tables = {}
      BY <1>5, <2>1, <2>2
    <3>2. TablesAsked(at, now, tables)
      BY <1>4, <1>7, <3>1 DEF TablesAsked, AllAsked
    <3>3. QED
      BY <3>1, <3>2
  <2>3. QED
    BY <2>2
<1>8. CASE tables \notin {Undefined, Null}
  <2> DEFINE u == IF at.all THEN Recreate(o, i, FALSE) ELSE o
  <2>1. w = SetAttr(u, o[i], "tables", tables)
    BY <1>8 DEF TablesSql
  <2>2. CASE u = Aborted
    BY <2>1, <2>2, NoneCalled
  <2>3. CASE u # Aborted
    <3>1. PICK base, r, mid : /\ Remade(o, i, base, r) /\ Does(base, u, r, o[i], mid)
                              /\ mid.all = FALSE /\ (r = i => mid.viaroot = at.viaroot)
      <4>1. CASE at.all
        <5>1. u = Recreate(o, i, FALSE)
          BY <4>1
        <5> HIDE DEF u
        <5>2. QED
          BY <1>5, <2>3, <5>1
      <4>2. CASE ~at.all
        BY <1>2, <1>3, <4>2
      <4>3. QED
        BY <4>1, <4>2
    <3> HIDE DEF u
    <3>2. DOMAIN mid = PublicationAttributes /\ AttributesSound("publication", mid)
      BY <3>1, PublicationDomain DEF Does
    <3> DEFINE now == Set(mid, "tables", tables)
    <3>3. now.tables = tables /\ now.all = FALSE /\ now.viaroot = mid.viaroot /\ DOMAIN now = DOMAIN mid
      BY <3>1, <3>2, SetValues DEF PublicationAttributes
    <3>4. AttributesSound(o[i].kind, now)
      BY <3>2, <3>3 DEF AttributesSound
    <3>5. Does(base, w, r, o[i], now)
      BY <2>1, <3>1, <3>4, SetAttrDoes
    <3> HIDE DEF now
    <3>6. TablesAsked(at, now, tables)
      BY <1>8, <3>3 DEF TablesAsked, AllAsked
    <3>7. QED
      BY <3>1, <3>3, <3>5, <3>6
  <2>4. QED
    BY <2>2, <2>3
<1>9. QED
  BY <1>6, <1>7, <1>8

(* What the body asks of a publication that has the name and at.           *)
PublicationAsked(u, name, at, p) ==
  /\ u.kind = "publication" /\ u.ns = Database /\ u.name = Given(p.name, name)
  /\ u.at.owner = Given(p.owner, at.owner)
  /\ u.at.ops = Published(p, at.ops)
  /\ TablesAsked(at, u.at, p.tables)

(* All statements of publications update(), when they are not aborted,     *)
(* make what the body asks of the publication or of the one made in its    *)
(* place.                                                                  *)
LEMMA PublicationSqlDoes ==
  ASSUME NEW o, Stored(o), NEW i \in Made(o), o[i].kind = "publication",
         NEW p \in Bodies["publication"], NEW w, w = PublicationSql(o, i, p), w # Aborted
  PROVE  \E base, r, new, now : /\ Remade(o, i, base, r) /\ Does(base, w, r, new, now)
                                /\ PublicationAsked(w[r], o[i].name, o[i].at, p)
                                /\ r = i => w[r].at.viaroot = o[i].at.viaroot
<1> DEFINE old == o[i]
           o1 == TablesSql(o, i, p.tables)
           o2 == SetAttr(o1, old, "ops", Published(p, old.at.ops))
           o3 == SetAttr(o2, old, "owner", Given(p.owner, old.at.owner))
<1>1. w = PublicationNameSql(o3, old, p)
  BY DEF PublicationSql
<1>2. o3 # Aborted
  BY <1>1, NoneCalled DEF PublicationNameSql
<1>3. o2 # Aborted
  BY <1>2, NoneCalled
<1>4. o1 # Aborted
  BY <1>3, NoneCalled
<1>5. PICK base, r, a1 : /\ Remade(o, i, base, r) /\ Does(base, o1, r, old, a1)
                         /\ TablesAsked(old.at, a1, p.tables)
                         /\ r = i => a1.viaroot = old.at.viaroot
  <2>1. o1 = TablesSql(o, i, p.tables)
    OBVIOUS
  <2> HIDE DEF o1
  <2>2. QED
    BY <1>4, <2>1, TablesDoes
<1> HIDE DEF o1
<1>6. PICK a2 : /\ Does(base, o2, r, old, a2) /\ a2["ops"] = Published(p, old.at.ops)
                /\ DOMAIN a2 = DOMAIN a1 /\ \A g \in DOMAIN a1 \ {"ops"} : a2[g] = a1[g]
  <2>1. "ops" \in DOMAIN a1 /\ Plain("ops")
    BY <1>5, PublicationDomain DEF PublicationAttributes, Plain
  <2>2. o2 = SetAttr(o1, old, "ops", Published(p, old.at.ops))
    OBVIOUS
  <2> HIDE DEF o2
  <2>3. QED
    BY <1>5, <2>1, <2>2, SetPlainDoes
<1> HIDE DEF o2
<1>7. PICK a3 : /\ Does(base, o3, r, old, a3) /\ a3["owner"] = Given(p.owner, old.at.owner)
                /\ DOMAIN a3 = DOMAIN a2 /\ \A g \in DOMAIN a2 \ {"owner"} : a3[g] = a2[g]
  <2>1. "owner" \in DOMAIN a2 /\ Plain("owner")
    BY <1>6, PublicationDomain DEF PublicationAttributes, Plain
  <2>2. o3 = SetAttr(o2, old, "owner", Given(p.owner, old.at.owner))
    OBVIOUS
  <2> HIDE DEF o3
  <2>3. QED
    BY <1>6, <2>1, <2>2, SetPlainDoes
<1> HIDE DEF o3
<1>8. /\ DOMAIN a1 = PublicationAttributes /\ old.ns = Database
      /\ a3.owner = Given(p.owner, old.at.owner) /\ a3.ops = Published(p, old.at.ops)
      /\ a3.all = a1.all /\ a3.tables = a1.tables /\ a3.viaroot = a1.viaroot
  <2>1. DOMAIN a1 = PublicationAttributes /\ old.ns = Database
    BY <1>5, PublicationDomain
  <2>2. QED
    BY <1>6, <1>7, <2>1 DEF PublicationAttributes
<1>9. ASSUME NEW new, Does(base, w, r, new, a3), new.kind = "publication", new.ns = Database,
             new.name = Given(p.name, old.name)
      PROVE  /\ PublicationAsked(w[r], old.name, old.at, p)
             /\ r = i => w[r].at.viaroot = old.at.viaroot
  <2>1. w[r] = Object(new, a3)
    BY <1>9 DEF Does
  <2>2. w[r].kind = "publication" /\ w[r].ns = Database /\ w[r].name = new.name /\ w[r].at = a3
    BY <1>9, <2>1 DEF Object
  <2> HIDE DEF old
  <2>3. TablesAsked(old.at, a3, p.tables)
    BY <1>5, <1>8 DEF TablesAsked
  <2>4. QED
    BY <1>5, <1>8, <1>9, <2>2, <2>3 DEF PublicationAsked
<1>10. CASE p.name = Undefined \/ p.name = old.name
  <2>1. w = o3 /\ Given(p.name, old.name) = old.name
    BY <1>1, <1>10 DEF PublicationNameSql, Given
  <2>2. QED
    BY <1>5, <1>7, <1>8, <1>9, <2>1
<1>11. CASE ~(p.name = Undefined \/ p.name = old.name)
  <2> DEFINE new == Renamed(old, p.name)
  <2>1. w = Rename(o3, old, p.name) /\ Given(p.name, old.name) = p.name
    BY <1>1, <1>11 DEF PublicationNameSql, Given
  <2>2. p.name \in Name
    <3>1. "publication" \in Kinds \ (Read \cup ByName)
      BY DEF Kinds, Read, ByName
    <3>2. QED
      BY <1>11, <3>1, BodiesAssumption
  <2>3. IsReference(old)
    BY MadeSound, SoundReference
  <2>4. new.kind = "publication" /\ new.ns = Database /\ new.name = p.name
    BY <1>8, <2>3, ReferenceFields
  <2> HIDE DEF new, old
  <2>5. Does(base, w, r, new, a3)
    BY <1>7, <2>1, <2>2, <2>3, RenameDoes DEF new
  <2>6. PublicationAsked(w[r], old.name, old.at, p) /\ (r = i => w[r].at.viaroot = old.at.viaroot)
    BY <1>9, <2>1, <2>4, <2>5
  <2>7. QED
    BY <1>5, <2>5, <2>6 DEF old
<1>12. QED
  BY <1>10, <1>11

-------------------------------------------------------------------------------
(* Privileges.                                                             *)

(* One statement of a DO block, whichever it is.                           *)
PrivilegeSql(level, op, u, g) ==
  CASE level = "table" /\ op = "grant" -> GrantTable(u, g)
    [] level = "table" /\ op = "revoke" -> RevokeTable(u, g)
    [] level = "column" /\ op = "grant" -> GrantColumn(u, g)
    [] OTHER -> RevokeColumn(u, g)

(* The list of entries that an item of a body is about, and what becomes   *)
(* of it.                                                                  *)
Listed(o, level, g) ==
  /\ OfTable(level, g.id) \in Relations(o)
  /\ level = "column" => g.id[2] \in DOMAIN o[g.id[1]].at.cols

EntriesOf(o, level, g) ==
  IF level = "table" THEN o[g.id].at.acl ELSE o[g.id[1]].at.cols[g.id[2]]

SameList(level, g, h) ==
  OfTable(level, g.id) = OfTable(level, h.id) /\ (level = "column" => g.id[2] = h.id[2])

EntriesIn(acl, level, op, g) ==
  IF op = "grant" THEN GrantIn(acl, Grantee(g), Wanted(level, g), g.grantable)
  ELSE RevokeIn(acl, Grantee(g), Wanted(level, g))

Has(acl, level, op, g) ==
  IF op = "grant"
  THEN \A q \in Wanted(level, g) : \E e \in acl :
         e.grantee = Grantee(g) /\ e.privilege = q /\ (g.grantable => e.grantable)
  ELSE \A e \in acl : ~SameGrant(e, Grantee(g), Wanted(level, g))

(* A statement does what it says to a list ...                             *)
LEMMA EntriesInHas ==
  ASSUME NEW acl, NEW level, NEW op, NEW g PROVE Has(EntriesIn(acl, level, op, g), level, op, g)
<1> DEFINE who == Grantee(g)
           W == Wanted(level, g)
<1>1. CASE op = "grant"
  <2>1. ASSUME NEW q \in W
        PROVE  \E e \in GrantIn(acl, who, W, g.grantable) :
                 e.grantee = who /\ e.privilege = q /\ (g.grantable => e.grantable)
    <3> DEFINE e == [grantee |-> who, grantor |-> Self, privilege |-> q,
                     grantable |-> g.grantable \/ \E d \in acl : SameGrant(d, who, {q}) /\ d.grantable]
    <3> HIDE DEF who, W
    <3>1. e \in GrantIn(acl, who, W, g.grantable)
      BY DEF GrantIn
    <3>2. e.grantee = who /\ e.privilege = q /\ (g.grantable => e.grantable)
      OBVIOUS
    <3> HIDE DEF e
    <3>3. QED
      BY <3>1, <3>2
  <2> HIDE DEF who, W
  <2>2. QED
    BY <1>1, <2>1 DEF Has, EntriesIn, who, W
<1>2. CASE op # "grant"
  BY <1>2 DEF Has, EntriesIn, RevokeIn
<1>3. QED
  BY <1>1, <1>2

(* ... and undoes nothing that one of its kind did.                        *)
LEMMA EntriesInKeeps ==
  ASSUME NEW acl, NEW level, NEW op, NEW g, NEW h, Has(acl, level, op, h)
  PROVE  Has(EntriesIn(acl, level, op, g), level, op, h)
<1> DEFINE who == Grantee(g)
           W == Wanted(level, g)
           new == EntriesIn(acl, level, op, g)
<1>1. CASE op = "grant"
  <2>1. new = GrantIn(acl, who, W, g.grantable)
    BY <1>1 DEF EntriesIn
  <2>2. ASSUME NEW e \in acl
        PROVE  \E d \in new : /\ d.grantee = e.grantee /\ d.privilege = e.privilege
                              /\ (e.grantable => d.grantable)
    <3>1. CASE ~SameGrant(e, who, W)
      <4>1. e \in new
        BY <2>1, <3>1 DEF GrantIn
      <4> HIDE DEF new
      <4>2. QED
        BY <4>1
    <3>2. CASE SameGrant(e, who, W)
      <4> DEFINE q == e.privilege
                 d == [grantee |-> who, grantor |-> Self, privilege |-> q,
                       grantable |-> g.grantable \/ \E c \in acl : SameGrant(c, who, {q}) /\ c.grantable]
      <4>1. q \in W /\ e.grantee = who /\ SameGrant(e, who, {q})
        BY <3>2 DEF SameGrant
      <4>2. d \in new
        <5> HIDE DEF who, W, new
        <5>1. QED
          BY <2>1, <4>1 DEF GrantIn
      <4>3. d.grantee = who /\ d.privilege = q /\ (e.grantable => d.grantable)
        BY <4>1
      <4> HIDE DEF d, new
      <4>4. QED
        BY <4>1, <4>2, <4>3
    <3>3. QED
      BY <3>1, <3>2
  <2> HIDE DEF new
  <2>3. ASSUME NEW q \in Wanted(level, h)
        PROVE  \E d \in new : d.grantee = Grantee(h) /\ d.privilege = q /\ (h.grantable => d.grantable)
    <3>1. PICK e \in acl : e.grantee = Grantee(h) /\ e.privilege = q /\ (h.grantable => e.grantable)
      BY <1>1 DEF Has
    <3>2. QED
      BY <2>2, <3>1
  <2>4. Has(new, level, op, h)
    BY <1>1, <2>3 DEF Has
  <2>5. QED
    BY <2>4 DEF new
<1>2. CASE op # "grant"
  <2>1. new \subseteq acl
    BY <1>2 DEF EntriesIn, RevokeIn
  <2> HIDE DEF new
  <2>2. Has(new, level, op, h)
    BY <1>2, <2>1 DEF Has
  <2>3. QED
    BY <2>2 DEF new
<1>3. QED
  BY <1>1, <1>2

-------------------------------------------------------------------------------
(* The attributes of a relation are replaced.                              *)
LEMMA RelationPut ==
  ASSUME NEW u, Stored(u), NEW i \in Relations(u), NEW now, DOMAIN now = {"acl", "cols"},
         NEW w, w = [u EXCEPT ![i] = Object(u[i], now)]
  PROVE  /\ Stored(w) /\ Relations(w) = Relations(u)
         /\ \A j \in Relations(u) : w[j].at = IF j = i THEN now ELSE u[j].at
<1>1. i \in Made(u) /\ i \in Oid /\ u[i].kind = "relation" /\ Sound(u[i]) /\ AddressSound(u[i])
  BY MadeSound DEF Relations, Sound
<1>2. AttributesSound(u[i].kind, now)
  BY <1>1 DEF AttributesSound, AttributesOf
<1>3. Called(u, u[i]) \subseteq {i}
  <2>1. i \in Called(u, u[i])
    BY <1>1 DEF Called
  <2>2. QED
    BY <2>1, CalledOne
<1>4. Does(u, w, i, u[i], now)
  BY <1>1, <1>2, <1>3, PutDoes DEF OthersKept
<1>5. Stored(w) /\ w[i].at = now /\ w[i].kind = u[i].kind /\ \A j \in Oid \ {i} : w[j] = u[j]
  BY <1>4 DEF Does, OthersKept, Object
<1>6. QED
  BY <1>1, <1>5 DEF Relations, Made

(* The attributes of a relation: its own list of entries and those of its  *)
(* columns.                                                                *)
LEMMA RelationDomain ==
  ASSUME NEW u, Stored(u), NEW i \in Relations(u)
  PROVE  /\ i \in Oid /\ u[i] = Object(u[i], u[i].at)
         /\ DOMAIN u[i].at = {"acl", "cols"}
BY MadeSound DEF Relations, Sound, AttributesSound, AttributesOf

(* The lists after a statement: one is changed.                            *)
ListsChanged(u, w, level, op, g) ==
  /\ Stored(w) /\ Listed(u, level, g)
  /\ \A h : Listed(u, level, h) =>
       /\ Listed(w, level, h)
       /\ EntriesOf(w, level, h) = IF SameList(level, g, h) THEN EntriesIn(EntriesOf(u, level, h), level, op, g)
                                   ELSE EntriesOf(u, level, h)

(* GRANT or REVOKE on a relation changes its list, and a REVOKE those of   *)
(* its columns.                                                            *)
LEMMA TableSqlLists ==
  ASSUME NEW u, Stored(u), NEW op \in {"grant", "revoke"}, NEW g,
         NEW w, w = PrivilegeSql("table", op, u, g), w # Aborted
  PROVE  ListsChanged(u, w, "table", op, g)
<1> DEFINE i == g.id
           at == u[i].at
           acl == EntriesIn(at.acl, "table", op, g)
           cols == IF op = "grant" THEN at.cols
                   ELSE [c \in DOMAIN at.cols |-> RevokeIn(at.cols[c], Grantee(g), Wanted("table", g))]
           now == [[at EXCEPT !.acl = acl] EXCEPT !.cols = cols]
<1>1. i \in Relations(u)
  BY DEF PrivilegeSql, GrantTable, RevokeTable, Addressed
<1>2. u[i] = Object(u[i], at) /\ DOMAIN at = {"acl", "cols"} /\ i \in Oid
  BY <1>1, RelationDomain
<1>3. DOMAIN now = {"acl", "cols"} /\ now.acl = acl /\ now.cols = cols
  BY <1>2
<1>4. w = [u EXCEPT ![i] = Object(u[i], now)]
  <2>1. CASE op = "grant"
    <3>1. w = [u EXCEPT ![i].at.acl = acl]
      BY <2>1 DEF PrivilegeSql, GrantTable, EntriesIn
    <3>2. now = [at EXCEPT !.acl = acl]
      <4> DEFINE x == [at EXCEPT !.acl = acl]
      <4>1. [x EXCEPT !.cols = at.cols] = x
        <5>1. x = [f \in DOMAIN at |-> IF f = "acl" THEN acl ELSE at[f]]
          OBVIOUS
        <5>2. [x EXCEPT !.cols = at.cols] = [f \in DOMAIN x |-> IF f = "cols" THEN at.cols ELSE x[f]]
          OBVIOUS
        <5>3. DOMAIN x = DOMAIN at /\ x.cols = at.cols
          BY <1>2, <5>1
        <5>4. \A f \in DOMAIN x : (IF f = "cols" THEN at.cols ELSE x[f]) = IF f = "acl" THEN acl ELSE at[f]
          BY <5>1, <5>3
        <5> HIDE DEF x, acl, at
        <5>5. QED
          BY <5>1, <5>2, <5>3, <5>4
      <4>2. QED
        BY <2>1, <4>1
    <3>3. [u[i] EXCEPT !.at = [at EXCEPT !.acl = acl]] = Object(u[i], now)
      <4> HIDE DEF now, acl
      <4>1. QED
        BY <1>2, <3>2 DEF Object
    <3>4. [u[i] EXCEPT !.at.acl = acl] = [u[i] EXCEPT !.at = [at EXCEPT !.acl = acl]]
      OBVIOUS
    <3> HIDE DEF now, acl, at
    <3>5. QED
      BY <3>1, <3>3, <3>4
  <2>2. CASE op = "revoke"
    <3>1. w = [u EXCEPT ![i].at.acl = acl, ![i].at.cols = cols]
      BY <2>2, <1>1, <1>2 DEF PrivilegeSql, RevokeTable, EntriesIn
    <3>2. QED
      BY <1>2, <3>1 DEF Object
  <2>3. QED
    BY <2>1, <2>2
<1> HIDE DEF now
<1>5. /\ Stored(w) /\ Relations(w) = Relations(u)
      /\ \A j \in Relations(u) : w[j].at = IF j = i THEN now ELSE u[j].at
  BY <1>1, <1>3, <1>4, RelationPut
<1>6. QED
  BY <1>1, <1>3, <1>5 DEF ListsChanged, Listed, EntriesOf, SameList, OfTable

(* GRANT or REVOKE on a column changes the list of the column.             *)
LEMMA ColumnSqlLists ==
  ASSUME NEW u, Stored(u), NEW op \in {"grant", "revoke"}, NEW g,
         NEW w, w = PrivilegeSql("column", op, u, g), w # Aborted
  PROVE  ListsChanged(u, w, "column", op, g)
<1> DEFINE i == g.id[1]
           c == g.id[2]
           at == u[i].at
           acl == EntriesIn(at.cols[c], "column", op, g)
           cols == [at.cols EXCEPT ![c] = acl]
           now == [at EXCEPT !.cols = cols]
<1>1. i \in Relations(u) /\ c \in DOMAIN at.cols
  BY DEF PrivilegeSql, GrantColumn, RevokeColumn, ColumnAddressed, Addressed
<1>2. u[i] = Object(u[i], at) /\ DOMAIN at = {"acl", "cols"} /\ i \in Oid
  BY <1>1, RelationDomain
<1>3. DOMAIN now = {"acl", "cols"} /\ now.cols = cols
  BY <1>2
<1>4. w = [u EXCEPT ![i] = Object(u[i], now)]
  <2>1. w = [u EXCEPT ![i].at.cols[c] = acl]
    BY DEF PrivilegeSql, GrantColumn, RevokeColumn, EntriesIn
  <2>2. [u[i] EXCEPT !.at = now] = Object(u[i], now)
    <3> HIDE DEF now, acl
    <3>1. QED
      BY <1>2 DEF Object
  <2>3. [u[i] EXCEPT !.at.cols[c] = acl] = [u[i] EXCEPT !.at = now]
    OBVIOUS
  <2> HIDE DEF now, acl, at
  <2>5. QED
    BY <2>1, <2>2, <2>3
<1>c. DOMAIN cols = DOMAIN at.cols /\ cols[c] = acl /\ \A d \in DOMAIN at.cols \ {c} : cols[d] = at.cols[d]
  BY <1>1
<1> HIDE DEF now, cols
<1>5. /\ Stored(w) /\ Relations(w) = Relations(u)
      /\ \A j \in Relations(u) : w[j].at = IF j = i THEN now ELSE u[j].at
  BY <1>1, <1>3, <1>4, RelationPut
<1>6. ASSUME NEW h, Listed(u, "column", h)
      PROVE  /\ Listed(w, "column", h)
             /\ EntriesOf(w, "column", h)
                  = IF SameList("column", g, h) THEN EntriesIn(EntriesOf(u, "column", h), "column", op, g)
                    ELSE EntriesOf(u, "column", h)
  <2>1. h.id[1] \in Relations(u) /\ h.id[2] \in DOMAIN u[h.id[1]].at.cols
    BY <1>6 DEF Listed, OfTable
  <2>2. CASE h.id[1] = i
    <3>1. w[h.id[1]].at.cols = cols
      BY <1>3, <1>5, <2>1, <2>2
    <3>2. Listed(w, "column", h)
      BY <1>c, <1>5, <2>1, <2>2, <3>1 DEF Listed, OfTable
    <3>3. EntriesOf(w, "column", h) = cols[h.id[2]] /\ EntriesOf(u, "column", h) = at.cols[h.id[2]]
      BY <2>2, <3>1 DEF EntriesOf
    <3>4. SameList("column", g, h) <=> h.id[2] = c
      BY <2>2 DEF SameList, OfTable
    <3>5. QED
      BY <1>c, <2>1, <2>2, <3>2, <3>3, <3>4
  <2>3. CASE h.id[1] # i
    BY <1>5, <2>1, <2>3 DEF Listed, EntriesOf, SameList, OfTable
  <2>4. QED
    BY <2>2, <2>3
<1>7. Listed(u, "column", g)
  BY <1>1 DEF Listed, OfTable
<1>8. QED
  BY <1>5, <1>6, <1>7 DEF ListsChanged

(* Nothing follows an abort.                                               *)
LEMMA PrivilegeSqlAborted ==
  ASSUME NEW level, NEW op, NEW g PROVE PrivilegeSql(level, op, Aborted, g) = Aborted
BY DEF PrivilegeSql, GrantTable, RevokeTable, GrantColumn, RevokeColumn, ColumnAddressed, Addressed

(* The list that a statement addresses has what was granted, or has not    *)
(* what was revoked, and so have the lists that had it before.             *)
Fulfilled(o, level, op, g) == Listed(o, level, g) /\ Has(EntriesOf(o, level, g), level, op, g)

(* Items about one list see the same entries.                              *)
LEMMA SameListEntries ==
  ASSUME NEW o, NEW level \in {"table", "column"}, NEW g, NEW h, SameList(level, g, h)
  PROVE  EntriesOf(o, level, g) = EntriesOf(o, level, h)
BY DEF SameList, EntriesOf, OfTable

(* One item, when it is not aborted, is fulfilled, and those before it     *)
(* stay so.                                                                *)
LEMMA PrivilegeSqlDoes ==
  ASSUME NEW u, Stored(u), NEW level \in {"table", "column"}, NEW op \in {"grant", "revoke"}, NEW g,
         NEW w, w = PrivilegeSql(level, op, u, g), w # Aborted
  PROVE  /\ Stored(w) /\ Fulfilled(w, level, op, g)
         /\ \A h : Fulfilled(u, level, op, h) => Fulfilled(w, level, op, h)
<1>1. ListsChanged(u, w, level, op, g)
  BY TableSqlLists, ColumnSqlLists
<1>2. Fulfilled(w, level, op, g)
  <2>1. Listed(w, level, g) /\ EntriesOf(w, level, g) = EntriesIn(EntriesOf(u, level, g), level, op, g)
    BY <1>1 DEF ListsChanged, SameList
  <2>2. QED
    BY <2>1, EntriesInHas DEF Fulfilled
<1>3. ASSUME NEW h, Fulfilled(u, level, op, h) PROVE Fulfilled(w, level, op, h)
  <2>1. /\ Listed(w, level, h)
        /\ \/ EntriesOf(w, level, h) = EntriesIn(EntriesOf(u, level, h), level, op, g)
           \/ EntriesOf(w, level, h) = EntriesOf(u, level, h)
    BY <1>1, <1>3 DEF ListsChanged, Fulfilled
  <2>2. Has(EntriesOf(u, level, h), level, op, h)
    BY <1>3 DEF Fulfilled
  <2>3. QED
    BY <2>1, <2>2, EntriesInKeeps DEF Fulfilled
<1>4. QED
  BY <1>1, <1>2, <1>3 DEF ListsChanged

-------------------------------------------------------------------------------
(* The statements of a DO block, one after the other.                      *)
GrantTableStep(k, u, g) == GrantTable(u, g)
RevokeTableStep(k, u, g) == RevokeTable(u, g)
GrantColumnStep(k, u, g) == GrantColumn(u, g)
RevokeColumnStep(k, u, g) == RevokeColumn(u, g)

GrantTableFolds == INSTANCE ListFolds WITH Op <- GrantTableStep
RevokeTableFolds == INSTANCE ListFolds WITH Op <- RevokeTableStep
GrantColumnFolds == INSTANCE ListFolds WITH Op <- GrantColumnStep
RevokeColumnFolds == INSTANCE ListFolds WITH Op <- RevokeColumnStep

PrivilegeSqls(level, op, u, items) ==
  CASE level = "table" /\ op = "grant" -> GrantTables(u, items)
    [] level = "table" /\ op = "revoke" -> RevokeTables(u, items)
    [] level = "column" /\ op = "grant" -> GrantColumns(u, items)
    [] OTHER -> RevokeColumns(u, items)

(* The items of a grant on relations, one step each.                       *)
LEMMA GrantTablesFold ==
  ASSUME NEW u, NEW items, Len(items) \in Nat, DOMAIN items = 1..Len(items)
  PROVE  \E f : /\ f[0] = u /\ GrantTables(u, items) = f[Len(items)]
                /\ \A m \in 1..Len(items) : f[m] = GrantTable(f[m - 1], items[m])
<1>1. PICK f : GrantTableFolds!Steps(f, Null, u, items)
  BY GrantTableFolds!FoldSteps
<1>2. GrantTableFolds!Fold(Null, u, items) = GrantTables(u, items)
  BY DEF GrantTableFolds!Fold, GrantTables, GrantTableStep, FoldLeft, MapThenFoldSet, Max,
         GrantTableFolds!FoldLeft, GrantTableFolds!MapThenFoldSet, GrantTableFolds!Max
<1>3. QED
  BY <1>1, <1>2 DEF GrantTableFolds!Steps, GrantTableStep

(* The items of a revoke on relations, one step each.                      *)
LEMMA RevokeTablesFold ==
  ASSUME NEW u, NEW items, Len(items) \in Nat, DOMAIN items = 1..Len(items)
  PROVE  \E f : /\ f[0] = u /\ RevokeTables(u, items) = f[Len(items)]
                /\ \A m \in 1..Len(items) : f[m] = RevokeTable(f[m - 1], items[m])
<1>1. PICK f : RevokeTableFolds!Steps(f, Null, u, items)
  BY RevokeTableFolds!FoldSteps
<1>2. RevokeTableFolds!Fold(Null, u, items) = RevokeTables(u, items)
  BY DEF RevokeTableFolds!Fold, RevokeTables, RevokeTableStep, FoldLeft, MapThenFoldSet, Max,
         RevokeTableFolds!FoldLeft, RevokeTableFolds!MapThenFoldSet, RevokeTableFolds!Max
<1>3. QED
  BY <1>1, <1>2 DEF RevokeTableFolds!Steps, RevokeTableStep

(* The items of a grant on columns, one step each.                         *)
LEMMA GrantColumnsFold ==
  ASSUME NEW u, NEW items, Len(items) \in Nat, DOMAIN items = 1..Len(items)
  PROVE  \E f : /\ f[0] = u /\ GrantColumns(u, items) = f[Len(items)]
                /\ \A m \in 1..Len(items) : f[m] = GrantColumn(f[m - 1], items[m])
<1>1. PICK f : GrantColumnFolds!Steps(f, Null, u, items)
  BY GrantColumnFolds!FoldSteps
<1>2. GrantColumnFolds!Fold(Null, u, items) = GrantColumns(u, items)
  BY DEF GrantColumnFolds!Fold, GrantColumns, GrantColumnStep, FoldLeft, MapThenFoldSet, Max,
         GrantColumnFolds!FoldLeft, GrantColumnFolds!MapThenFoldSet, GrantColumnFolds!Max
<1>3. QED
  BY <1>1, <1>2 DEF GrantColumnFolds!Steps, GrantColumnStep

(* The items of a revoke on columns, one step each.                        *)
LEMMA RevokeColumnsFold ==
  ASSUME NEW u, NEW items, Len(items) \in Nat, DOMAIN items = 1..Len(items)
  PROVE  \E f : /\ f[0] = u /\ RevokeColumns(u, items) = f[Len(items)]
                /\ \A m \in 1..Len(items) : f[m] = RevokeColumn(f[m - 1], items[m])
<1>1. PICK f : RevokeColumnFolds!Steps(f, Null, u, items)
  BY RevokeColumnFolds!FoldSteps
<1>2. RevokeColumnFolds!Fold(Null, u, items) = RevokeColumns(u, items)
  BY DEF RevokeColumnFolds!Fold, RevokeColumns, RevokeColumnStep, FoldLeft, MapThenFoldSet, Max,
         RevokeColumnFolds!FoldLeft, RevokeColumnFolds!MapThenFoldSet, RevokeColumnFolds!Max
<1>3. QED
  BY <1>1, <1>2 DEF RevokeColumnFolds!Steps, RevokeColumnStep

(* The items of a list, at either level and of either operation, one step  *)
(* each.                                                                   *)
LEMMA PrivilegesFold ==
  ASSUME NEW level \in {"table", "column"}, NEW op \in {"grant", "revoke"},
         NEW u, NEW items, Len(items) \in Nat, DOMAIN items = 1..Len(items)
  PROVE  \E f : /\ f[0] = u /\ PrivilegeSqls(level, op, u, items) = f[Len(items)]
                /\ \A m \in 1..Len(items) : f[m] = PrivilegeSql(level, op, f[m - 1], items[m])
<1>1. CASE level = "table" /\ op = "grant"
  BY <1>1, GrantTablesFold DEF PrivilegeSqls, PrivilegeSql
<1>2. CASE level = "table" /\ op = "revoke"
  BY <1>2, RevokeTablesFold DEF PrivilegeSqls, PrivilegeSql
<1>3. CASE level = "column" /\ op = "grant"
  BY <1>3, GrantColumnsFold DEF PrivilegeSqls, PrivilegeSql
<1>4. CASE level = "column" /\ op = "revoke"
  BY <1>4, RevokeColumnsFold DEF PrivilegeSqls, PrivilegeSql
<1>5. QED
  BY <1>1, <1>2, <1>3, <1>4

(* All that was granted is there, all that was revoked is gone.            *)
LEMMA PrivilegesDone ==
  ASSUME NEW level \in {"table", "column"}, NEW op \in {"grant", "revoke"},
         NEW o, Stored(o), NEW items, Len(items) \in Nat, DOMAIN items = 1..Len(items),
         NEW w, w = PrivilegeSqls(level, op, o, items), w # Aborted
  PROVE  Stored(w) /\ \A n \in DOMAIN items : Fulfilled(w, level, op, items[n])
<1> DEFINE N == Len(items)
           Good(u, m) == \/ u = Aborted
                         \/ Stored(u) /\ \A n \in 1..m : Fulfilled(u, level, op, items[n])
<1>1. PICK f : /\ f[0] = o /\ w = f[N]
               /\ \A m \in 1..N : f[m] = PrivilegeSql(level, op, f[m - 1], items[m])
  BY PrivilegesFold
<1> DEFINE T == {m \in Nat : m <= N => Good(f[m], m)}
<1>2. 0 \in T
  BY <1>1, 1..0 = {}
<1>3. ASSUME NEW m \in Nat, m \in T PROVE m + 1 \in T
  <2>1. SUFFICES ASSUME m + 1 <= N PROVE Good(f[m + 1], m + 1)
    OBVIOUS
  <2>2. Good(f[m], m) /\ m + 1 \in 1..N
    BY <1>3, <2>1
  <2>3. f[m + 1] = PrivilegeSql(level, op, f[m], items[m + 1])
    BY <1>1, <2>2
  <2> DEFINE u == f[m]
             v == f[m + 1]
             g == items[m + 1]
  <2>4. v = PrivilegeSql(level, op, u, g)
    BY <2>3
  <2>5. CASE u = Aborted
    BY <2>4, <2>5, PrivilegeSqlAborted
  <2>6. CASE u # Aborted /\ v # Aborted
    <3>1. Stored(u) /\ \A n \in 1..m : Fulfilled(u, level, op, items[n])
      BY <2>2, <2>6
    <3> HIDE DEF u, v, g
    <3>2. /\ Stored(v) /\ Fulfilled(v, level, op, g)
          /\ \A h : Fulfilled(u, level, op, h) => Fulfilled(v, level, op, h)
      BY <2>4, <2>6, <3>1, PrivilegeSqlDoes
    <3>3. \A n \in 1..(m + 1) : n \in 1..m \/ n = m + 1
      OBVIOUS
    <3>4. \A n \in 1..(m + 1) : Fulfilled(v, level, op, items[n])
      BY <3>1, <3>2, <3>3 DEF g
    <3>5. Good(v, m + 1)
      BY <3>2, <3>4
    <3>6. QED
      BY <3>5 DEF v
  <2>7. QED
    BY <2>5, <2>6
<1> HIDE DEF T
<1>4. \A m \in Nat : m \in T
  BY <1>2, <1>3, GrantTableFolds!Inductive
<1>5. Good(f[N], N)
  BY <1>4 DEF T
<1>6. QED
  BY <1>1, <1>5

(* A table that is not found by its name changes nothing.                  *)
LEMMA TableNone ==
  ASSUME NEW o, NEW ref, IsReference(ref), Called(o, ref) = {}, NEW j, NEW p,
         NEW w, w = TableSql(o, j, ref, p)
  PROVE  w \in {o, Aborted}
<1>1. ASSUME NEW u \in {o, Aborted}
      PROVE  /\ \A f, v : Given1(u, ref, f, v) \in {o, Aborted}
             /\ ReplicaSql(u, ref, p) \in {o, Aborted} /\ PrimaryKeysSql(u, j, ref, p) \in {o, Aborted}
             /\ TableSchemaSql(u, ref, p) \in IF p.schema = Undefined THEN {o, Aborted} ELSE {Aborted}
             /\ p.schema = Undefined => TableNameSql(u, ref, p) \in {o, Aborted}
             /\ TableNameSql(Aborted, ref, p) = Aborted
  <2>0. u = Aborted \/ Called(u, ref) = {}
    BY <1>1
  <2>1. /\ \A f, v : SetAttr(u, ref, f, v) = Aborted /\ Given1(u, ref, f, v) \in {o, Aborted}
        /\ \A ns : Move(u, ref, ns) = Aborted
    BY <1>1, <2>0, NoneCalled
  <2>2. ReplicaSql(u, ref, p) \in {o, Aborted}
    BY <1>1, <2>0, <2>1 DEF ReplicaSql
  <2>3. PrimaryKeysSql(u, j, ref, p) \in {o, Aborted}
    BY <1>1, <2>0 DEF PrimaryKeysSql, DropPrimaryKey, AddPrimaryKey
  <2>4. TableSchemaSql(u, ref, p) \in IF p.schema = Undefined THEN {o, Aborted} ELSE {Aborted}
    BY <1>1, <2>1 DEF TableSchemaSql
  <2>5. TableNameSql(Aborted, ref, p) = Aborted
    BY DEF TableNameSql, Rename
  <2>6. ASSUME p.schema = Undefined PROVE TableNameSql(u, ref, p) \in {o, Aborted}
    <3>1. Given(p.schema, ref.ns) = ref.ns
      BY <2>6 DEF Given
    <3>2. Called(u, Moved(ref, ref.ns)) = Called(u, ref)
      <4>1. SameName(Moved(ref, ref.ns), ref)
        BY ReferenceFields DEF SameName
      <4>2. QED
        BY <4>1, CalledAlike
    <3>3. Rename(u, Moved(ref, ref.ns), p.name) = Aborted
      BY <2>0, <3>2 DEF Rename
    <3>4. QED
      BY <1>1, <3>1, <3>3 DEF TableNameSql, Moved
  <2>7. QED
    BY <2>1, <2>2, <2>3, <2>4, <2>5, <2>6
<1>2. TableAttributes(o, j, ref, p) \in {o, Aborted}
  <2>1. Given1(o, ref, "rls", p.rls_enabled) \in {o, Aborted}
    BY <1>1
  <2> DEFINE a == Given1(o, ref, "rls", p.rls_enabled)
             b == Given1(a, ref, "forced", p.rls_forced)
             c == ReplicaSql(b, ref, p)
             d == PrimaryKeysSql(c, j, ref, p)
             e == Given1(d, ref, "comment", p.comment)
  <2>2. a \in {o, Aborted}
    BY <2>1
  <2>3. b \in {o, Aborted}
    <3> HIDE DEF a
    <3>1. QED
      BY <1>1, <2>2
  <2>4. c \in {o, Aborted}
    <3> HIDE DEF b
    <3>1. QED
      BY <1>1, <2>3
  <2>5. d \in {o, Aborted}
    <3> HIDE DEF c
    <3>1. QED
      BY <1>1, <2>4
  <2>6. e \in {o, Aborted}
    <3> HIDE DEF d
    <3>1. QED
      BY <1>1, <2>5
  <2>7. QED
    BY <2>6 DEF TableAttributes
<1> DEFINE a == TableAttributes(o, j, ref, p)
           s == TableSchemaSql(a, ref, p)
<1>3. a \in {o, Aborted}
  BY <1>2
<1>4. w = TableNameSql(s, ref, p)
  BY DEF TableSql
<1> HIDE DEF a
<1>5. s \in IF p.schema = Undefined THEN {o, Aborted} ELSE {Aborted}
  BY <1>1, <1>3
<1> HIDE DEF s
<1>6. QED
  BY <1>1, <1>4, <1>5

-------------------------------------------------------------------------------
(* The updates, of whatever kind, of objects that are read by id.          *)
ById == {"table", "function", "role", "schema", "policy", "trigger"}

UpdateSql(k, o, j, ref, p) ==
  CASE k = "table" -> TableSql(o, j, ref, p)
    [] k = "function" -> FunctionSql(o, j, ref, p)
    [] k = "role" -> RoleSql(o, ref, p)
    [] k = "schema" -> SchemaSql(o, ref, p)
    [] k = "policy" -> PolicySql(o, ref, p)
    [] OTHER -> TriggerSql(o, ref, p)

UpdateAsked(k, o, w, j, p) ==
  CASE k = "table" -> TableAsked(o[j], w[j], p)
    [] k = "function" -> FunctionAsked(w[j], o[j], o[j].at, p)
    [] k = "role" -> RoleAsked(w[j], o[j].name, o[j].at, p)
    [] OTHER -> NamedAsked(k, o[j], w[j], p)

Impossible(k, o, j, p) ==
  CASE k = "table" -> ~TablePossible(o, j, p)
    [] k = "function" -> FunctionTaken(o, j, o[j], p)
    [] k = "role" -> Called(o, Ref("role", Database, p.name)) # {} \/ UnfitOp(p.config)
    [] OTHER -> NamedTaken(k, o, j, p)

(* w is made of o by an update of the object j, which was read as ref.     *)
Updated(k, o, w, j, ref, p) ==
  \/ w = Aborted /\ (ref = o[j] => Impossible(k, o, j, p))
  \/ w = o /\ ref # o[j] /\ (k = "function" => p.definition = Undefined)
  \/ \E i, new, now :
       /\ Does(o, w, i, new, now)
       /\ k = "function" /\ p.definition # Undefined => i = j /\ now = Generated(p.definition)
       /\ ref = o[j] => i = j /\ UpdateAsked(k, o, w, j, p)

(* An object is the one that its own address finds.                        *)
LEMMA OwnCalled ==
  ASSUME NEW o, Stored(o), NEW j \in Oid, Sound(o[j])
  PROVE  j \in Called(o, o[j]) /\ j \in Made(o) /\ \A i \in Called(o, o[j]) : i = j
<1>1. j \in Called(o, o[j]) /\ j \in Made(o)
  BY SoundMade DEF Called, Made
<1>2. QED
  BY <1>1, CalledOne

(* For every kind that is updated by id: what the statements of the body   *)
(* make of the catalog.                                                    *)
LEMMA UpdateSqlDoes ==
  ASSUME NEW o, Stored(o), NEW k \in ById, NEW ref, Sound(ref), ref.kind = k, NEW j \in Oid,
         NEW p \in Bodies[k], k = "role" => \A c \in ToSet(p.config) : Known(c),
         NEW w, w = UpdateSql(k, o, j, ref, p)
  PROVE  Updated(k, o, w, j, ref, p)
<1>1. IsReference(ref) /\ AddressSound(ref)
  BY SoundReference DEF Sound
<1>t. CASE k = "table"
  <2>1. w = TableSql(o, j, ref, p)
    BY <1>t DEF UpdateSql
  <2>2. ASSUME NEW i \in Called(o, ref) PROVE Updated(k, o, w, j, ref, p)
    <3>1. \/ w = Aborted /\ (ref = o[j] => ~TablePossible(o, j, p))
          \/ \E new, now : /\ Does(o, w, i, new, now)
                           /\ ref = o[j] => TableAsked(o[j], w[j], p)
      BY <1>1, <1>t, <2>1, TableSqlDoes
    <3>2. ref = o[j] => i = j
      BY OwnCalled
    <3>3. QED
      BY <1>t, <3>1, <3>2 DEF Updated, Impossible, UpdateAsked
  <2>3. CASE Called(o, ref) = {}
    <3>1. w \in {o, Aborted}
      BY <1>1, <2>1, <2>3, TableNone
    <3>2. ref # o[j]
      BY <2>3, OwnCalled
    <3>3. QED
      BY <1>t, <3>1, <3>2 DEF Updated
  <2>4. QED
    BY <2>2, <2>3
<1>f. CASE k = "function"
  <2>1. w = FunctionSql(o, j, ref, p)
    BY <1>f DEF UpdateSql
  <2>2. \/ w = Aborted /\ (ref = o[j] => FunctionTaken(o, j, ref, p))
        \/ w = o /\ p.definition = Undefined /\ ref # o[j]
        \/ \E i, new, now :
             /\ Does(o, w, i, new, now)
             /\ p.definition # Undefined => i = j /\ now = Generated(p.definition)
             /\ ref = o[j] => i = j /\ FunctionAsked(w[j], o[j], o[j].at, p)
    BY <1>1, <1>f, <2>1, FunctionSqlDoes
  <2>3. QED
    BY <1>f, <2>2 DEF Updated, Impossible, UpdateAsked
<1>r. CASE k = "role"
  <2>1. w = RoleSql(o, ref, p)
    BY <1>r DEF UpdateSql
  <2>2. \/ /\ w = Aborted
           /\ ref = o[j] => Called(o, Ref("role", Database, p.name)) # {} \/ UnfitOp(p.config)
        \/ w = o /\ ref # o[j]
        \/ \E i, new, now : /\ Does(o, w, i, new, now)
                            /\ ref = o[j] => i = j /\ RoleAsked(w[j], o[j].name, o[j].at, p)
    BY <1>1, <1>r, <2>1, RoleSqlDoes
  <2>3. QED
    BY <1>r, <2>2 DEF Updated, Impossible, UpdateAsked
<1>n. CASE k \in {"schema", "policy", "trigger"}
  <2>1. PICK u, skip : /\ AttributesDone(o, u, k, ref, p) /\ skip \in BOOLEAN
                       /\ skip <=> p.name = Undefined \/ (k = "trigger" /\ p.name = ref.name)
                       /\ w = IF skip THEN u ELSE Rename(u, ref, p.name)
    <3>1. CASE k = "schema"
      <4> DEFINE u == Given1(o, ref, "owner", p.owner)
                 skip == p.name = Undefined
      <4>1. AttributesDone(o, u, k, ref, p)
        BY <3>1, SchemaDoes
      <4>2. w = IF skip THEN u ELSE Rename(u, ref, p.name)
        BY <3>1 DEF UpdateSql, SchemaSql
      <4> HIDE DEF u
      <4>3. QED
        BY <3>1, <4>1, <4>2
    <3>2. CASE k = "policy"
      <4> DEFINE u == PolicyAttributes(o, ref, p)
                 skip == p.name = Undefined
      <4>1. AttributesDone(o, u, k, ref, p)
        BY <3>2, PolicyDoes
      <4>2. w = IF skip THEN u ELSE Rename(u, ref, p.name)
        BY <3>2 DEF UpdateSql, PolicySql
      <4> HIDE DEF u
      <4>3. QED
        BY <3>2, <4>1, <4>2
    <3>3. CASE k = "trigger"
      <4> DEFINE u == Given1(o, ref, "enabled_mode", p.enabled_mode)
                 skip == p.name \in {Undefined, ref.name}
      <4>1. AttributesDone(o, u, k, ref, p)
        BY <3>3, TriggerDoes
      <4>2. w = IF skip THEN u ELSE Rename(u, ref, p.name)
        BY <3>3 DEF UpdateSql, TriggerSql
      <4> HIDE DEF u
      <4>3. QED
        BY <3>3, <4>1, <4>2
    <3>4. QED
      BY <1>n, <3>1, <3>2, <3>3
  <2>2. \/ w = Aborted /\ (ref = o[j] => NamedTaken(k, o, j, p))
        \/ w = o /\ ref # o[j]
        \/ \E i, new, now : /\ Does(o, w, i, new, now)
                            /\ ref = o[j] => i = j /\ NamedAsked(k, o[j], w[j], p)
    BY <1>1, <1>n, <2>1, NamedSqlDoes
  <2>3. QED
    BY <1>n, <2>2 DEF Updated, Impossible, UpdateAsked
<1>q. QED
  BY <1>t, <1>f, <1>r, <1>n DEF ById

-------------------------------------------------------------------------------
(* CREATE.                                                                 *)

(* An object that was made leaves a stored catalog.                        *)
LEMMA AddedStored ==
  ASSUME NEW o, Stored(o), NEW ref, NEW at, AddressSound(ref), AttributesSound(ref.kind, at),
         NEW w, w = Add(o, ref, at), w # Aborted
  PROVE  Stored(w)
BY AddDoes DEF Does

(* The address of a new object is sound.                                   *)
LEMMA RefSound ==
  ASSUME NEW k \in Kinds, NEW ns, k \in DatabaseKinds => ns = Database, NEW n \in Name
  PROVE  /\ AddressSound(Ref(k, ns, n)) /\ Ref(k, ns, n).kind = k
         /\ IsReference(Ref(k, ns, n))
BY DEF AddressSound, Ref, IsReference

(* The attributes of a new publication are sound.                          *)
LEMMA NewPublicationSound ==
  ASSUME NEW all \in BOOLEAN, NEW tables, all => tables = {}, NEW ops
  PROVE  AttributesSound("publication", NewPublication(all, tables, ops))
BY DEF AttributesSound, AttributesOf, NewPublication

Creatable == Kinds \ Read

CreateSql(k, o, p) ==
  CASE k = "table" -> Add(o, Ref("table", p.schema, p.name), NewTable(p))
    [] k = "function" -> Add(o, Ref("function", p.schema, p.name), Generated(p.definition))
    [] k = "role" ->
         NewConfigSqls(Add(o, Ref("role", Database, p.name),
                           [can_login |-> p.can_login, config |-> [l \in Key |-> <<>>]]),
                       Ref("role", Database, p.name), p.config)
    [] k = "publication" ->
         Add(o, Ref("publication", Database, p.name),
             NewPublication(p.tables \in {Undefined, Null},
                            IF p.tables \in {Undefined, Null} THEN {} ELSE p.tables, Published(p, {})))
    [] k = "schema" -> Add(o, InDatabase("schema", p.name), [owner |-> p.owner])
    [] k = "policy" ->
         Add(o, Ref("policy", p.table, p.name),
             [definition |-> p.definition, check |-> p.check, roles |-> p.roles])
    [] k = "trigger" -> Add(o, Ref("trigger", p.table, p.name), [enabled_mode |-> "ORIGIN"])
    [] OTHER -> Add(o, InDatabase("extension", p.name), [version |-> p.version, schema |-> p.schema])

(* For every kind: the statements of create() leave a stored catalog, or   *)
(* abort.                                                                  *)
LEMMA CreateSqlStored ==
  ASSUME NEW o, Stored(o), NEW k \in Creatable, NEW p \in NewBodies[k],
         NEW w, w = CreateSql(k, o, p), w # Aborted
  PROVE  Stored(w)
<1>n. p.name \in Name /\ k \in Kinds
  BY BodiesAssumption DEF Creatable
<1>1. CASE k \in {"table", "function"}
  <2> DEFINE ref == Ref(k, p.schema, p.name)
             at == IF k = "table" THEN NewTable(p) ELSE Generated(p.definition)
  <2>1. AddressSound(ref) /\ ref.kind = k
    BY <1>1, <1>n, RefSound DEF DatabaseKinds, ByName
  <2>2. AttributesSound(k, at)
    BY <1>1 DEF AttributesSound, AttributesOf, NewTable, Generated
  <2>3. w = Add(o, ref, at)
    BY <1>1 DEF CreateSql
  <2> HIDE DEF ref, at
  <2>4. QED
    BY <2>1, <2>2, <2>3, AddedStored
<1>2. CASE k = "role"
  <2> DEFINE ref == Ref("role", Database, p.name)
             at == [can_login |-> p.can_login, config |-> [l \in Key |-> <<>>]]
             u == Add(o, ref, at)
  <2>1. AddressSound(ref) /\ ref.kind = "role"
    BY <1>2, <1>n, RefSound
  <2>2. AttributesSound("role", at)
    BY DEF AttributesSound, AttributesOf
  <2>3. w = NewConfigSqls(u, ref, p.config)
    BY <1>2 DEF CreateSql
  <2>4. IsList(p.config) /\ \A c \in ToSet(p.config) : c.path \in Key \cup {NoKey}
    BY <1>2, RoleBodiesAssumption
  <2>5. u # Aborted
    BY <2>3, <2>4, NewConfigAborted
  <2> HIDE DEF at, ref
  <2>6. PICK i : Does(o, u, i, ref, at)
    BY <2>1, <2>2, <2>5, AddDoes
  <2> HIDE DEF u
  <2>7. w = Aborted \/ \E now : Does(o, w, i, ref, now)
    BY <2>1, <2>3, <2>4, <2>6, NewConfigDoes
  <2>8. QED
    BY <2>7 DEF Does
<1>3. CASE k = "publication"
  <2> DEFINE ref == Ref("publication", Database, p.name)
             all == p.tables \in {Undefined, Null}
             tables == IF all THEN {} ELSE p.tables
             at == NewPublication(all, tables, Published(p, {}))
  <2>1. AddressSound(ref) /\ ref.kind = "publication"
    BY <1>3, <1>n, RefSound
  <2>2. AttributesSound("publication", at)
    <3>1. all \in BOOLEAN /\ (all => tables = {})
      OBVIOUS
    <3> HIDE DEF all, tables
    <3>2. QED
      BY <3>1, NewPublicationSound
  <2>3. w = Add(o, ref, at)
    BY <1>3 DEF CreateSql
  <2> HIDE DEF ref, at
  <2>4. QED
    BY <2>1, <2>2, <2>3, AddedStored
<1>4. CASE k \in {"policy", "trigger"}
  <2> DEFINE ref == Ref(k, p.table, p.name)
             at == IF k = "policy" THEN [definition |-> p.definition, check |-> p.check, roles |-> p.roles]
                   ELSE [enabled_mode |-> "ORIGIN"]
  <2>1. AddressSound(ref) /\ ref.kind = k
    BY <1>4, <1>n, RefSound DEF DatabaseKinds, ByName
  <2>2. AttributesSound(k, at)
    BY <1>4 DEF AttributesSound, AttributesOf
  <2>3. w = Add(o, ref, at)
    BY <1>4 DEF CreateSql
  <2> HIDE DEF ref, at
  <2>4. QED
    BY <2>1, <2>2, <2>3, AddedStored
<1>5. CASE k \in {"schema", "extension"}
  <2> DEFINE ref == InDatabase(k, p.name)
             at == IF k = "schema" THEN [owner |-> p.owner] ELSE [version |-> p.version, schema |-> p.schema]
  <2>1. AddressSound(ref) /\ ref.kind = k
    BY <1>5, <1>n, RefSound DEF InDatabase
  <2>2. AttributesSound(k, at)
    BY <1>5 DEF AttributesSound, AttributesOf
  <2>3. w = Add(o, ref, at)
    BY <1>5 DEF CreateSql
  <2> HIDE DEF ref, at
  <2>4. QED
    BY <2>1, <2>2, <2>3, AddedStored
<1>6. QED
  BY <1>1, <1>2, <1>3, <1>4, <1>5 DEF Creatable, Kinds, Read, ByName

-------------------------------------------------------------------------------
(* The steps of a request, by what they do.                                *)

Begins ==
  \/ \E k \in ById, i \in Oid : \E p \in Bodies[k] : Retrieve(k, "update", i, p)
  \/ \E k \in ById \cup {"publication"}, i \in Oid : Retrieve(k, "remove", i, Null)
  \/ \E n \in Name : RetrieveExtension(n)
  \/ \E k \in Creatable : \E p \in NewBodies[k] : Post(k, p)
  \/ \E i \in Oid, p \in Bodies["publication"] : PatchPublication(i, p)
  \/ \E n \in Name, p \in Bodies["extension"] : PatchExtension(n, p)
  \/ \E op \in {"grant", "revoke"}, p \in Bodies["relation"] : Privileging(op, p)
  \/ ReadersNext

Creates == \E k \in Creatable : Applying(k, "create") /\ Commit(CreateSql(k, objs, req.body))

Updates ==
  \E k \in ById : /\ Applying(k, "update")
                  /\ k = "role" => \A c \in ToSet(req.body.config) : Known(c)
                  /\ Commit(UpdateSql(k, objs, req.id, req.old, req.body))

Grants ==
  \E op \in {"grant", "revoke"}, level \in {"table", "column"} :
    ApplyingTo(op, level) /\ Commit(PrivilegeSqls(level, op, objs, req.body.items))

Removes == (\E k \in ById \cup {"extension"} : Delete(k)) \/ RemovePublication

ReadsBack ==
  \/ \E k \in ById : ReadById(k)
  \/ \E k \in Creatable : \E ns : Reading(k, "create") /\ ReadByName(Ref(k, ns, req.body.name))
  \/ Reading("extension", "update") /\ ReadByName(req.old)

(* The actions of all modules, by what they do.                            *)
LEMMA NextSteps ==
  ASSUME Next
  PROVE  \/ Begins \/ Creates \/ Updates \/ UpdateExtension \/ UpdatePublication \/ ThrowConfig
         \/ Grants \/ Removes \/ ReadsBack \/ ReadPrivileges \/ Refuse \/ Elsewhere
<1> USE DEF ById, Creatable, Kinds, Read, ByName
<1>1. CASE TableNext
  <2>1. ASSUME CreateTable PROVE Creates
    BY <2>1 DEF CreateTable, Creates, CreateSql
  <2>2. ASSUME UpdateTable PROVE Updates
    BY <2>2 DEF UpdateTable, Updates, UpdateSql
  <2>3. ASSUME ReadTable PROVE ReadsBack
    BY <2>3 DEF ReadTable, ReadsBack
  <2>4. QED
    BY <1>1, <2>1, <2>2, <2>3 DEF TableNext, RetrieveTable, RemoveTable, Begins, Removes
<1>2. CASE FunctionNext
  <2>1. ASSUME CreateFunction PROVE Creates
    BY <2>1 DEF CreateFunction, Creates, CreateSql
  <2>2. ASSUME UpdateFunction PROVE Updates
    BY <2>2 DEF UpdateFunction, Updates, UpdateSql
  <2>3. ASSUME ReadFunction PROVE ReadsBack
    BY <2>3 DEF ReadFunction, ReadsBack
  <2>4. QED
    BY <1>2, <2>1, <2>2, <2>3 DEF FunctionNext, RetrieveFunction, RemoveFunction, Begins, Removes
<1>3. CASE RoleNext
  <2>1. ASSUME CreateRole PROVE Creates
    BY <2>1 DEF CreateRole, Creates, CreateSql
  <2>2. ASSUME UpdateRole PROVE Updates
    BY <2>2 DEF UpdateRole, Updates, UpdateSql
  <2>3. ASSUME ReadRole PROVE ReadsBack
    BY <2>3 DEF ReadRole, ReadsBack
  <2>4. QED
    BY <1>3, <2>1, <2>2, <2>3 DEF RoleNext, RetrieveRole, RemoveRole, Begins, Removes
<1>4. CASE PublicationNext
  <2>1. ASSUME CreatePublication PROVE Creates
    BY <2>1 DEF CreatePublication, Creates, CreateSql
  <2>2. ASSUME ReadPublication PROVE ReadsBack
    BY <2>2 DEF ReadPublication, ReadsBack
  <2>3. QED
    BY <1>4, <2>1, <2>2 DEF PublicationNext, RetrievePublication, Begins, Removes
<1>5. CASE SchemaNext
  <2>1. ASSUME CreateSchema PROVE Creates
    BY <2>1 DEF CreateSchema, Creates, CreateSql
  <2>2. ASSUME UpdateSchema PROVE Updates
    BY <2>2 DEF UpdateSchema, Updates, UpdateSql
  <2>3. QED
    BY <1>5, <2>1, <2>2 DEF SchemaNext, RetrieveSchema, RemoveSchema, Begins, Removes
<1>6. CASE PolicyNext
  <2>1. ASSUME CreatePolicy PROVE Creates
    BY <2>1 DEF CreatePolicy, Creates, CreateSql
  <2>2. ASSUME UpdatePolicy PROVE Updates
    BY <2>2 DEF UpdatePolicy, Updates, UpdateSql
  <2>3. QED
    BY <1>6, <2>1, <2>2 DEF PolicyNext, RetrievePolicy, RemovePolicy, Begins, Removes
<1>7. CASE TriggerNext
  <2>1. ASSUME CreateTrigger PROVE Creates
    BY <2>1 DEF CreateTrigger, Creates, CreateSql
  <2>2. ASSUME UpdateTrigger PROVE Updates
    BY <2>2 DEF UpdateTrigger, Updates, UpdateSql
  <2>3. QED
    BY <1>7, <2>1, <2>2 DEF TriggerNext, RetrieveTrigger, RemoveTrigger, Begins, Removes
<1>8. CASE ExtensionNext
  <2>1. ASSUME CreateExtension PROVE Creates
    BY <2>1 DEF CreateExtension, Creates, CreateSql
  <2>2. QED
    BY <1>8, <2>1 DEF ExtensionNext, RemoveExtension, Begins, Removes
<1>9. CASE ReadNamed
  BY <1>9 DEF ReadNamed, ReadsBack, InDatabase
<1>10. CASE PrivilegesNext
  <2>1. ASSUME GrantTablePrivileges \/ RevokeTablePrivileges \/ GrantColumnPrivileges \/ RevokeColumnPrivileges
        PROVE  Grants
    BY <2>1 DEF GrantTablePrivileges, RevokeTablePrivileges, GrantColumnPrivileges,
                RevokeColumnPrivileges, Grants, PrivilegeSqls
  <2>2. QED
    BY <1>10, <2>1 DEF PrivilegesNext, Begins
<1>11. QED
  BY <1>1, <1>2, <1>3, <1>4, <1>5, <1>6, <1>7, <1>8, <1>9, <1>10 DEF Next, NamedNext, Begins

-------------------------------------------------------------------------------
(* The inductive invariant.                                                *)

(* What a request knows on its way.                                        *)
Form(r) ==
  /\ {"kind", "op", "body", "at"} \subseteq DOMAIN r
  /\ r.op \in {"create", "update", "remove", "grant", "revoke"}
  /\ r.op = "create" => r.kind \in Creatable /\ r.body \in NewBodies[r.kind]
  /\ r.op = "update" =>
       /\ "old" \in DOMAIN r /\ r.body \in Bodies[r.kind] /\ r.old.kind = r.kind
       /\ r.kind \in ById \cup {"publication", "extension"}
       /\ r.kind # "extension" => "id" \in DOMAIN r /\ r.id \in Oid
       /\ r.kind \in ById => Sound(r.old)
       /\ r.kind = "extension" => AddressSound(r.old)
  /\ r.op = "remove" =>
       /\ {"id", "old"} \subseteq DOMAIN r /\ r.id \in Oid /\ Sound(r.old)
       /\ r.kind \in Creatable
  /\ r.op \in {"grant", "revoke"} => r.kind = "relation" /\ r.body \in Bodies["relation"]

Going(r) == r.at \in {"apply", "read"}

(* While nobody acts, what was read is what there is.                      *)
Undisturbed ==
  req.at = "apply" /\ req.op = "update" /\ req.kind \in ById /\ others = 0 => req.old = objs[req.id]

(* Until it is answered, the relations that are left have, or have not,    *)
(* what the request asks.                                                  *)
PrivilegesMade ==
  req.at = "read" /\ req.op \in {"grant", "revoke"} =>
    /\ req.body.level \in {"table", "column"}
    /\ \A n \in DOMAIN req.body.items :
         OfTable(req.body.level, req.body.items[n].id) \in Relations(objs) =>
           Fulfilled(objs, req.body.level, req.op, req.body.items[n])

RowSound ==
  /\ answer \in {"none", "data", "missing", "aborted", "refused", "threw"}
  /\ req.at # "done" => answer = "none" /\ row = Null
  /\ req.at = "done" /\ req.kind \notin Read => row \in Oid \cup {Null}

AbortSound ==
  req.at = "done" /\ answer = "aborted" /\ req.op = "update" /\ req.kind \in ById /\ others = 0 =>
    Impossible(req.kind, objs, req.id, req.body)

OperationsInv ==
  /\ Stored(objs)
  /\ req.at \in {"idle", "apply", "read", "done"} /\ (Going(req) => Form(req))
  /\ others \in 0..MaxOthers
  /\ RowSound /\ Undisturbed /\ PrivilegesMade
  /\ AbortSound /\ AnswersTrue

(* A request that goes a step on knows what it knew.                       *)
LEMMA OpAtDone ==
  ASSUME NEW r, Form(r), NEW x, NEW s, s = [r EXCEPT !.at = x]
  PROVE  /\ Form(s) /\ s.at = x /\ s.kind = r.kind /\ s.op = r.op /\ s.body = r.body
         /\ "id" \in DOMAIN r => s.id = r.id
         /\ "old" \in DOMAIN r => s.old = r.old
<1>1. DOMAIN s = DOMAIN r /\ \A f \in DOMAIN r \ {"at"} : s[f] = r[f]
  OBVIOUS
<1>2. {"kind", "op", "body", "at"} \subseteq DOMAIN r
  BY DEF Form
<1>3. /\ s.at = x /\ s.kind = r.kind /\ s.op = r.op /\ s.body = r.body
      /\ "id" \in DOMAIN r => s.id = r.id
      /\ "old" \in DOMAIN r => s.old = r.old
  BY <1>1, <1>2
<1>4. Form(s)
  BY <1>1, <1>3 DEF Form
<1>5. QED
  BY <1>3, <1>4

(* An answer that is not one of a list of grants, or of a read.            *)
LEMMA PlainAnswersTrue ==
  ASSUME req'.at = "done" => /\ req'.op \notin {"get", "list"}
                             /\ req'.op \in {"grant", "revoke"} => answer' # "data"
  PROVE  AnswersTrue'
BY DEF AnswersTrue, RowsAsked, PrivilegesShown, GotById, GotByName

(* At the start the invariant holds: CatalogsAssumption.                   *)
LEMMA InitInv == ASSUME Init PROVE OperationsInv
<1>1. Stored(objs)
  <2>1. /\ objs = [i \in Oid |-> objs[i]] /\ \A i \in Oid : IsObject(objs[i])
        /\ LegalCatalog(objs) /\ objs \in Catalogs
    BY CatalogsAssumption DEF Init
  <2>2. \A i \in Oid : objs[i] # NoObject => i \in Made(objs)
    <3>1. "none" \notin Kinds
      BY DEF Kinds, Read, ByName
    <3>2. QED
      BY <2>1, <3>1 DEF Made, IsObject
  <2>3. ASSUME NEW i \in Made(objs) PROVE Sound(objs[i])
    <3> DEFINE x == objs[i]
    <3>1. i \in Oid /\ x.kind \in Kinds /\ x.name \in Name /\ DOMAIN x.at = AttributesOf[x.kind]
          /\ (x.kind \in DatabaseKinds => x.ns = Database)
      BY <2>1 DEF LegalCatalog, Made
    <3>2. x = Object(x, x.at)
      BY <2>1, <3>1 DEF IsObject, NoObject, Object, Made
    <3>3. x.kind = "role" => DOMAIN x.at.config = Key
      BY <2>1, RoleBodiesAssumption
    <3>4. x.kind = "publication" => x.at.all \in BOOLEAN /\ (x.at.all => x.at.tables = {})
      BY <2>1, PublicationsAssumption
    <3> HIDE DEF x
    <3>5. Sound(x)
      BY <3>1, <3>2, <3>3, <3>4 DEF Sound, AddressSound, AttributesSound
    <3>6. QED
      BY <3>5 DEF x
  <2>4. \A i, j \in Oid : Sound(objs[i]) /\ Sound(objs[j]) /\ SameName(objs[i], objs[j]) => i = j
    BY <2>1, SoundMade DEF LegalCatalog, Called, Made, SameName
  <2>5. QED
    BY <2>1, <2>2, <2>3, <2>4 DEF Stored
<1>2. req.at = "idle" /\ answer = "none" /\ row = Null /\ others = 0
  BY DEF Init
<1>3. QED
  BY <1>1, <1>2, CatalogAssumption
     DEF OperationsInv, Going, RowSound, Undisturbed, PrivilegesMade, AbortSound, AnswersTrue, RowsAsked,
         PrivilegesShown, GotById, GotByName

-------------------------------------------------------------------------------
(* Each kind of step.                                                      *)

(* A request that was not there goes on, or is answered that what it is    *)
(* about is missing.                                                       *)
LEMMA BeginInv ==
  ASSUME OperationsInv, req.at = "idle", UNCHANGED <<objs, others, row>>, NEW r, req' = r,
         \/ /\ r.at = "apply" /\ Form(r) /\ answer' = answer
            /\ r.op = "update" /\ r.kind \in ById => r.old = objs[r.id]
         \/ r.at = "done" /\ answer' = "missing" /\ r.op \in {"update", "remove"}
  PROVE  OperationsInv'
<1>1. answer = "none" /\ row = Null
  BY DEF OperationsInv, RowSound
<1>2. AnswersTrue'
  BY PlainAnswersTrue
<1>3. QED
  BY <1>1, <1>2 DEF OperationsInv, Going, RowSound, Undisturbed, PrivilegesMade, AbortSound

(* The read by id that an update or a removal begins with.                 *)
LEMMA RetrieveInv ==
  ASSUME OperationsInv, NEW op \in {"update", "remove"},
         NEW k \in IF op = "update" THEN ById ELSE ById \cup {"publication", "extension"},
         NEW i \in Oid, NEW p, op = "update" => p \in Bodies[k], Retrieve(k, op, i, p)
  PROVE  OperationsInv'
<1>1. req.at = "idle" /\ UNCHANGED <<objs, others, row>>
  BY DEF Retrieve
<1>2. CASE i \in Made(objs) /\ objs[i].kind = k
  <2> DEFINE r == [kind |-> k, op |-> op, id |-> i, body |-> p, at |-> "apply", old |-> objs[i]]
  <2>1. req' = r /\ answer' = answer
    BY <1>2 DEF Retrieve
  <2>2. Sound(objs[i])
    BY <1>2, MadeSound DEF OperationsInv
  <2>3. Form(r)
    BY <1>2, <2>2 DEF Form, ById, Creatable, Kinds, Read, ByName
  <2>4. r.at = "apply" /\ r.old = objs[r.id]
    OBVIOUS
  <2> HIDE DEF r
  <2>5. QED
    BY <1>1, <2>1, <2>3, <2>4, BeginInv
<1>3. CASE ~(i \in Made(objs) /\ objs[i].kind = k)
  <2> DEFINE r == [kind |-> k, op |-> op, id |-> i, body |-> p, at |-> "done"]
  <2>1. req' = r /\ answer' = "missing"
    BY <1>3 DEF Retrieve
  <2>2. r.at = "done" /\ r.op = op
    OBVIOUS
  <2> HIDE DEF r
  <2>5. QED
    BY <1>1, <2>1, <2>2, BeginInv
<1>4. QED
  BY <1>2, <1>3

(* What is only read is answered at once, by the rows there are.           *)
ReadersTrue ==
  /\ req'.at = "done" /\ req'.op \in {"get", "list"} /\ req'.kind \in Read
  /\ answer' \in {"data", "missing"} /\ RowsAsked'
  /\ UNCHANGED <<objs, others>>

(* A request that only reads changes nothing but the answer.               *)
LEMMA ReadInv ==
  ASSUME OperationsInv, ReadersTrue PROVE OperationsInv'
<1>1. AnswersTrue'
  BY DEF ReadersTrue, AnswersTrue, PrivilegesShown
<1>2. QED
  BY <1>1 DEF ReadersTrue, OperationsInv, Going, RowSound, Undisturbed, PrivilegesMade, AbortSound

(* One row, or none, of the objects S.                                     *)
LEMMA GetShows ==
  ASSUME NEW k, NEW by, NEW x, NEW S, Get(k, by, x, {OwnRow(objs, i) : i \in S})
  PROVE  /\ UNCHANGED <<objs, others>>
         /\ req'.at = "done" /\ req'.op = "get" /\ req'.kind = k /\ req'.by = by /\ req'.of = x
         /\ answer' \in {"data", "missing"}
         /\ IF S = {} THEN answer' = "missing"
            ELSE answer' = "data" /\ \E i \in S : row' = OwnRow(objs, i)
BY DEF Get

(* Views by id.                                                            *)
LEMMA ViewsTrue ==
  ASSUME NEW k \in {"view", "matview"}, NEW i, Get(k, "id", i, RowsById(objs, k, i))
  PROVE  ReadersTrue
<1> DEFINE S == OfKind(objs, k) \cap {i}
<1>1. Get(k, "id", i, {OwnRow(objs, j) : j \in S})
  BY DEF RowsById
<1> HIDE DEF S
<1>2. /\ UNCHANGED <<objs, others>>
      /\ req'.at = "done" /\ req'.op = "get" /\ req'.kind = k /\ req'.by = "id" /\ req'.of = i
      /\ answer' \in {"data", "missing"}
      /\ IF S = {} THEN answer' = "missing"
         ELSE answer' = "data" /\ \E j \in S : row' = OwnRow(objs, j)
  BY <1>1, GetShows
<1>3. Shows(OfKind(objs, k) \cap {req.of})'
  BY <1>2 DEF Shows, OwnRow, OfKind, Made, S
<1>4. RowsAsked'
  BY <1>2, <1>3 DEF RowsAsked, GotById, GotByName
<1>5. QED
  BY <1>2, <1>4 DEF ReadersTrue, Read

(* Views and foreign tables by name.                                       *)
LEMMA NamesTrue ==
  ASSUME NEW k \in WithColumns, NEW ns, NEW n, GetByName(k, ns, n)
  PROVE  ReadersTrue
<1> DEFINE ref == Ref(k, ns, n)
           S == Called(objs, ref)
<1>1. Get(k, "name", ref, {OwnRow(objs, j) : j \in S})
  BY DEF RowsByName, GetByName
<1> HIDE DEF S, ref
<1>2. /\ UNCHANGED <<objs, others>>
      /\ req'.at = "done" /\ req'.op = "get" /\ req'.kind = k /\ req'.by = "name" /\ req'.of = ref
      /\ answer' \in {"data", "missing"}
      /\ IF S = {} THEN answer' = "missing"
         ELSE answer' = "data" /\ \E j \in S : row' = OwnRow(objs, j)
  BY <1>1, GetShows
<1>3. Shows(Called(objs, req.of))'
  BY <1>2 DEF Shows, OwnRow, Called, Made, S
<1>4. RowsAsked'
  BY <1>2, <1>3 DEF RowsAsked, GotById, GotByName
<1>5. QED
  BY <1>2, <1>4 DEF ReadersTrue, Read, WithColumns

(* Foreign tables by id, of which RowsAsked says nothing: the run foreign  *)
(* shows why.                                                              *)
LEMMA ForeignTrue ==
  ASSUME NEW i, GetForeignTable(i) PROVE ReadersTrue
<1>1. /\ UNCHANGED <<objs, others>>
      /\ req'.at = "done" /\ req'.op = "get" /\ req'.kind = "foreign" /\ req'.by = "id"
      /\ answer' \in {"data", "missing"}
  BY DEF GetForeignTable, Get
<1>2. RowsAsked'
  BY <1>1 DEF RowsAsked, GotById, GotByName
<1>3. QED
  BY <1>1, <1>2 DEF ReadersTrue, Read

(* Indexes by id.                                                          *)
LEMMA IndexesTrue ==
  ASSUME NEW i, GetIndex(i) PROVE ReadersTrue
<1>1. /\ UNCHANGED <<objs, others>>
      /\ req'.at = "done" /\ req'.op = "get" /\ req'.kind = "index" /\ req'.by = "id" /\ req'.of = i
      /\ \/ IndexRows(objs, i) = {} /\ answer' = "missing"
         \/ \E r \in IndexRows(objs, i) : answer' = "data" /\ row' = r
  BY DEF GetIndex, Get
<1>2. ASSUME i \in OfKind(objs, "index"), Attributes(objs[i].at) = {} PROVE answer' = "missing"
  BY <1>1, <1>2 DEF IndexRows
<1>3. ASSUME i \in OfKind(objs, "index"), Attributes(objs[i].at) # {}
      PROVE  answer' = "data" /\ row'.id = i /\ (Namesake(objs, i) \/ row'.definition = i)
  <2>1. [id |-> i, definition |-> i] \in IndexRows(objs, i)
    BY <1>3 DEF IndexRows
  <2>2. PICK r \in IndexRows(objs, i) : answer' = "data" /\ row' = r
    BY <1>1, <2>1
  <2>3. PICK h \in OfKind(objs, "index") : r = [id |-> i, definition |-> h] /\ objs[i].name = objs[h].name
    BY <2>2 DEF IndexRows
  <2>4. QED
    BY <2>2, <2>3 DEF Namesake
<1>4. RowsAsked'
  <2>1. objs' = objs /\ req'.of = i
    BY <1>1
  <2>2. GotById("index")' /\ req'.of \in OfKind(objs, "index")' =>
          IF Attributes(objs[req.of].at)' = {} THEN answer' = "missing"
          ELSE answer' = "data" /\ row'.id = req'.of /\ (Namesake(objs, req.of)' \/ row'.definition = req'.of)
    BY <1>2, <1>3, <2>1 DEF OfKind, Made, Attributes, Namesake
  <2>3. QED
    BY <1>1, <2>2 DEF RowsAsked, GotById, GotByName
<1>5. QED
  BY <1>1, <1>4 DEF ReadersTrue, Read

(* The rows of a list are those of the objects.                            *)
LEMMA ListsTrue ==
  ASSUME NEW k \in Read, NEW limit, NEW rows, List(k, limit, rows),
         k # "matview" \/ limit = 0 => \A R \in rows : \A r \in R : \E i : r = OwnRow(objs, i)
  PROVE  ReadersTrue
<1>1. /\ UNCHANGED <<objs, others>>
      /\ req'.at = "done" /\ req'.op = "list" /\ req'.kind = k /\ req'.limit = limit
      /\ answer' = "data" /\ row' \in rows
  BY DEF List
<1>2. ASSUME k # "matview" \/ limit = 0, NEW r \in row' PROVE r = OwnRow(objs, r.id)
  BY <1>1, <1>2 DEF OwnRow
<1>3. RowsAsked'
  BY <1>1, <1>2 DEF RowsAsked, GotById, GotByName, OwnRow
<1>4. QED
  BY <1>1, <1>3 DEF ReadersTrue

(* All readers answer with rows of what was asked for.                     *)
LEMMA ReadersDo == ASSUME ReadersNext PROVE ReadersTrue
<1>1. ASSUME NEW i \in Oid, GetView(i) \/ GetMaterializedView(i) \/ GetForeignTable(i) \/ GetIndex(i)
      PROVE  ReadersTrue
  BY <1>1, ViewsTrue, ForeignTrue, IndexesTrue DEF GetView, GetMaterializedView
<1>2. ASSUME NEW k \in {"view", "foreign"}, NEW limit,
             List(k, limit, {{OwnRow(objs, i) : i \in P} : P \in Pages(OfKind(objs, k), limit)})
      PROVE  ReadersTrue
  <2> DEFINE rows == {{OwnRow(objs, i) : i \in P} : P \in Pages(OfKind(objs, k), limit)}
  <2>1. \A R \in rows : \A r \in R : \E i : r = OwnRow(objs, i)
    OBVIOUS
  <2>2. List(k, limit, rows)
    BY <1>2
  <2> HIDE DEF rows
  <2>3. QED
    BY <2>1, <2>2, ListsTrue DEF Read
<1>3. ASSUME NEW limit, ListMaterializedViews(limit) PROVE ReadersTrue
  <2> DEFINE views == OfKind(objs, "matview")
             columns == UNION {{<<i, c>> : c \in objs[i].at.cols} : i \in UNION {OfKind(objs, k) : k \in WithColumns}}
             rowOf(i, C) == [id |-> i, cols |-> {c \in objs[i].at.cols : <<i, c>> \in C}]
             rowsOf(P, C) == {rowOf(i, C) : i \in P}
             rows == {rowsOf(P, C) : P \in Pages(views, limit), C \in Pages(columns, limit)}
  <2>1. List("matview", limit, rows)
    BY <1>3 DEF ListMaterializedViews
  <2>2. ASSUME limit = 0, NEW R \in rows, NEW r \in R PROVE \E i : r = OwnRow(objs, i)
    <3>1. Pages(views, limit) = {views} /\ Pages(columns, limit) = {columns}
      BY <2>2 DEF Pages
    <3>2. PICK P \in Pages(views, limit), C \in Pages(columns, limit) : R = rowsOf(P, C)
      <4> HIDE DEF rowsOf, views, columns
      <4>1. QED
        BY <2>2
    <3>3. PICK i \in P : r = rowOf(i, C)
      <4> HIDE DEF rowOf
      <4>1. QED
        BY <2>2, <3>2
    <3>4. i \in views /\ C = columns
      BY <3>1, <3>2, <3>3
    <3>5. ASSUME NEW c \in objs[i].at.cols PROVE <<i, c>> \in columns
      <4>1. i \in UNION {OfKind(objs, k) : k \in WithColumns}
        BY <3>4 DEF WithColumns
      <4>2. QED
        BY <4>1
    <3> HIDE DEF columns
    <3>6. {c \in objs[i].at.cols : <<i, c>> \in C} = objs[i].at.cols
      BY <3>4, <3>5
    <3> DEFINE Z == {c \in objs[i].at.cols : <<i, c>> \in C}
    <3>a. Z = objs[i].at.cols /\ r = [id |-> i, cols |-> Z]
      BY <3>3, <3>6
    <3> HIDE DEF Z
    <3>7. r = OwnRow(objs, i)
      BY <3>a DEF OwnRow
    <3>8. QED
      BY <3>7
  <2> HIDE DEF rows
  <2>3. QED
    BY <2>1, <2>2, ListsTrue DEF Read
<1>4. QED
  BY <1>1, <1>2, <1>3, NamesTrue DEF ReadersNext, ListViews, ListForeignTables

(* A request is answered.                                                  *)
LEMMA AnswerInv ==
  ASSUME OperationsInv, Going(req), UNCHANGED others, Stored(objs'),
         NEW a \in {"data", "missing", "aborted", "refused", "threw"}, NEW r \in Oid \cup {Null},
         Answer(a, r), req.op \in {"grant", "revoke"} => a # "data",
         a = "aborted" /\ req.op = "update" /\ req.kind \in ById /\ others = 0 =>
           objs' = objs /\ Impossible(req.kind, objs, req.id, req.body)
  PROVE  OperationsInv'
<1>1. Form(req)
  BY DEF OperationsInv
<1>2. /\ req' = [req EXCEPT !.at = "done"] /\ answer' = a /\ row' = r
  BY DEF Answer
<1>3. /\ Form(req') /\ req'.at = "done" /\ req'.kind = req.kind /\ req'.op = req.op /\ req'.body = req.body
      /\ "id" \in DOMAIN req => req'.id = req.id
  BY <1>1, <1>2, OpAtDone
<1>4. AnswersTrue'
  <2>1. req'.op \notin {"get", "list"} /\ (req'.op \in {"grant", "revoke"} => answer' # "data")
    BY <1>1, <1>2, <1>3 DEF Form
  <2>2. QED
    BY <2>1, PlainAnswersTrue
<1>5. AbortSound'
  <2>1. SUFFICES ASSUME answer' = "aborted", req'.op = "update", req'.kind \in ById, others' = 0
                 PROVE  Impossible(req.kind, objs, req.id, req.body)'
    BY DEF AbortSound
  <2>2. objs' = objs /\ Impossible(req.kind, objs, req.id, req.body)
    BY <1>2, <1>3, <2>1
  <2>3. req'.id = req.id
    BY <1>1, <1>3, <2>1 DEF Form, ById
  <2>4. Impossible(req'.kind, objs, req'.id, req'.body)
    BY <1>3, <2>2, <2>3
  <2>5. QED
    BY <2>2, <2>4 DEF Impossible, TablePossible, FunctionTaken, NamedTaken, UnfitOp, Called, Made
<1>6. Undisturbed' /\ PrivilegesMade' /\ ~Going(req')
  BY <1>3 DEF Undisturbed, PrivilegesMade, Going
<1>7. RowSound'
  BY <1>2, <1>3 DEF RowSound
<1>8. QED
  BY <1>3, <1>4, <1>5, <1>6, <1>7 DEF OperationsInv

(* A transaction is committed or aborted.                                  *)
LEMMA CommitInv ==
  ASSUME OperationsInv, req.at = "apply", NEW o, Commit(o), o = Aborted \/ Stored(o),
         o = Aborted /\ req.op = "update" /\ req.kind \in ById /\ others = 0 =>
           Impossible(req.kind, objs, req.id, req.body),
         o # Aborted /\ req.op \in {"grant", "revoke"} =>
           /\ req.body.level \in {"table", "column"}
           /\ \A n \in DOMAIN req.body.items : Fulfilled(o, req.body.level, req.op, req.body.items[n])
  PROVE  OperationsInv'
<1>0. Going(req) /\ Form(req)
  BY DEF OperationsInv, Going
<1>1. CASE o = Aborted
  <2>1. Answer("aborted", Null) /\ UNCHANGED <<objs, others>>
    BY <1>1 DEF Commit
  <2>2. Stored(objs')
    BY <2>1 DEF OperationsInv
  <2>3. QED
    BY <1>0, <1>1, <2>1, <2>2, AnswerInv
<1>2. CASE o # Aborted
  <2>1. objs' = o /\ req' = [req EXCEPT !.at = "read"] /\ UNCHANGED <<answer, row, others>>
    BY <1>2 DEF Commit
  <2>2. /\ Form(req') /\ req'.at = "read" /\ req'.kind = req.kind /\ req'.op = req.op /\ req'.body = req.body
    BY <1>0, <2>1, OpAtDone
  <2>3. PrivilegesMade'
    <3>1. SUFFICES ASSUME req'.op \in {"grant", "revoke"}
                   PROVE  /\ req'.body.level \in {"table", "column"}
                          /\ \A n \in DOMAIN req'.body.items :
                               Fulfilled(objs, req.body.level, req.op, req.body.items[n])'
      BY DEF PrivilegesMade
    <3>2. \A n \in DOMAIN req.body.items : Fulfilled(objs', req.body.level, req.op, req.body.items[n])
      BY <1>2, <2>1, <2>2, <3>1
    <3>3. QED
      BY <1>2, <2>2, <3>1, <3>2
  <2>4. Undisturbed' /\ AbortSound' /\ RowSound'
    BY <2>1, <2>2 DEF Undisturbed, AbortSound, RowSound, OperationsInv
  <2>5. AnswersTrue'
    BY <2>2, PlainAnswersTrue
  <2>6. QED
    BY <1>2, <2>1, <2>2, <2>3, <2>4, <2>5 DEF OperationsInv, Going
<1>3. QED
  BY <1>1, <1>2

(* Other sessions act.                                                     *)
LEMMA ListedKept ==
  ASSUME NEW o, NEW u, Persist(o, u), NEW level \in {"table", "column"}, NEW op, NEW g,
         OfTable(level, g.id) \in Relations(u),
         OfTable(level, g.id) \in Relations(o) => Fulfilled(o, level, op, g)
  PROVE  Fulfilled(u, level, op, g)
<1> DEFINE i == OfTable(level, g.id)
<1>1. i \in Made(u) /\ u[i].kind = "relation" /\ i \in Made(o) /\ u[i].at = o[i].at /\ o[i].kind = u[i].kind
  BY DEF Relations, Persist
<1>2. Fulfilled(o, level, op, g)
  BY <1>1 DEF Relations
<1>3. Listed(u, level, g) /\ EntriesOf(u, level, g) = EntriesOf(o, level, g)
  BY <1>1, <1>2 DEF Fulfilled, Listed, EntriesOf, OfTable
<1>4. QED
  BY <1>2, <1>3 DEF Fulfilled

(* Other sessions keep the invariant.                                      *)
LEMMA ElsewhereInv == ASSUME OperationsInv, Elsewhere PROVE OperationsInv'
<1>1. /\ req.at \in {"apply", "read"} /\ others < MaxOthers /\ others' = others + 1
      /\ UNCHANGED <<req, answer, row>>
  BY DEF Elsewhere
<1>2. Stored(objs') /\ Persist(objs, objs')
  BY ElsewhereStored DEF OperationsInv
<1>3. others \in Nat /\ others' # 0 /\ others' \in 0..MaxOthers
  BY <1>1, CatalogAssumption DEF OperationsInv
<1>4. PrivilegesMade'
  <2>1. SUFFICES ASSUME req.at = "read", req.op \in {"grant", "revoke"}, NEW n \in DOMAIN req.body.items,
                        OfTable(req.body.level, req.body.items[n].id) \in Relations(objs')
                 PROVE  Fulfilled(objs', req.body.level, req.op, req.body.items[n])
    <3>1. PrivilegesMade
      BY DEF OperationsInv
    <3>2. QED
      BY <1>1, <3>1 DEF PrivilegesMade
  <2>2. /\ req.body.level \in {"table", "column"}
        /\ OfTable(req.body.level, req.body.items[n].id) \in Relations(objs) =>
             Fulfilled(objs, req.body.level, req.op, req.body.items[n])
    BY <2>1 DEF OperationsInv, PrivilegesMade
  <2>3. QED
    BY <1>2, <2>1, <2>2, ListedKept
<1>5. Undisturbed' /\ AbortSound' /\ RowSound'
  BY <1>1, <1>3 DEF Undisturbed, AbortSound, RowSound, OperationsInv
<1>6. AnswersTrue'
  BY <1>1, PlainAnswersTrue
<1>7. QED
  BY <1>1, <1>2, <1>3, <1>4, <1>5, <1>6 DEF OperationsInv, Going

(* The publication of the answer.                                          *)
PublicationUpdated(r) ==
  /\ req.id \in Made(objs)
  /\ \E base, new, now :
       /\ Remade(objs, req.id, base, r) /\ Does(base, objs', r, new, now)
       /\ PublicationAsked(objs'[r], objs[req.id].name, objs[req.id].at, req.body)
       /\ r = req.id => objs'[r].at.viaroot = objs[req.id].at.viaroot

(* The one transaction of publications update() is aborted, or leaves the  *)
(* publication asked for.                                                  *)
LEMMA UpdatePublicationDoes ==
  ASSUME OperationsInv, UpdatePublication
  PROVE  /\ Going(req) /\ UNCHANGED others /\ req.op = "update" /\ req.kind = "publication"
         /\ \/ objs' = objs /\ Answer("aborted", Null)
            \/ \E r \in Oid : Answer("data", r) /\ Stored(objs') /\ PublicationUpdated(r)
<1> DEFINE i == req.id
           p == req.body
           there == i \in Made(objs) /\ objs[i].kind = "publication"
           w == IF there THEN PublicationSql(objs, i, p) ELSE Aborted
           ref == Ref("publication", Database, Given(p.name, objs[i].name))
<1>1. /\ req.at = "apply" /\ req.kind = "publication" /\ req.op = "update" /\ UNCHANGED others
      /\ Going(req) /\ Form(req) /\ Stored(objs)
  BY DEF UpdatePublication, Applying, OperationsInv, Going
<1>2. IF w = Aborted THEN objs' = objs /\ Answer("aborted", Null)
      ELSE objs' = w /\ Answer("data", The(Called(w, ref)))
  BY DEF UpdatePublication
<1>3. i \in Oid /\ p \in Bodies["publication"]
  BY <1>1 DEF Form
<1>4. CASE w # Aborted
  <2>1. there /\ w = PublicationSql(objs, i, p)
    BY <1>4
  <2> HIDE DEF w
  <2>2. PICK base, r, new, now :
          /\ Remade(objs, i, base, r) /\ Does(base, w, r, new, now)
          /\ PublicationAsked(w[r], objs[i].name, objs[i].at, p)
          /\ r = i => w[r].at.viaroot = objs[i].at.viaroot
    <3> HIDE DEF p, i
    <3>1. QED
      BY <1>1, <1>3, <1>4, <2>1, PublicationSqlDoes
  <2>3. r \in Oid /\ Called(w, new) = {r} /\ The(Called(w, new)) = r /\ w[r] = Object(new, now)
    BY <2>2, DoesCalled
  <2>4. SameName(new, ref)
    BY <2>2, <2>3 DEF PublicationAsked, Object, SameName, Ref
  <2>5. The(Called(w, ref)) = r
    <3> HIDE DEF ref
    <3>1. QED
      BY <2>3, <2>4, CalledAlike
  <2>6. Answer("data", r) /\ objs' = w
    BY <1>2, <1>4, <2>5
  <2>7. Stored(w)
    BY <2>2 DEF Does
  <2>8. PublicationUpdated(r)
    BY <2>1, <2>2, <2>6 DEF PublicationUpdated
  <2>9. QED
    BY <1>1, <2>3, <2>6, <2>7, <2>8
<1>5. QED
  BY <1>1, <1>2, <1>4

(* Every request that comes keeps the invariant.                           *)
LEMMA BeginsInv == ASSUME OperationsInv, Begins PROVE OperationsInv'
<1>1. ASSUME NEW k \in ById, NEW i \in Oid, NEW p \in Bodies[k], Retrieve(k, "update", i, p)
      PROVE  OperationsInv'
  BY <1>1, RetrieveInv
<1>2. ASSUME NEW k \in ById \cup {"publication"}, NEW i \in Oid, Retrieve(k, "remove", i, Null)
      PROVE  OperationsInv'
  BY <1>2, RetrieveInv
<1>3. ASSUME NEW n \in Name, RetrieveExtension(n) PROVE OperationsInv'
  <2> DEFINE found == Called(objs, InDatabase("extension", n))
  <2>1. CASE found # {}
    <3>1. The(found) \in found
      BY <2>1 DEF The
    <3>2. The(found) \in Oid
      BY <3>1 DEF Called, Made
    <3>3. Retrieve("extension", "remove", The(found), Null)
      BY <1>3, <2>1 DEF RetrieveExtension
    <3> HIDE DEF found
    <3>4. QED
      BY <3>2, <3>3, RetrieveInv
  <2>2. CASE found = {}
    <3> DEFINE r == [kind |-> "extension", op |-> "remove", at |-> "done"]
    <3>1. req.at = "idle" /\ req' = r /\ answer' = "missing" /\ UNCHANGED <<objs, others, row>>
      BY <1>3, <2>2 DEF RetrieveExtension
    <3>2. r.at = "done" /\ r.op = "remove"
      OBVIOUS
    <3> HIDE DEF r
    <3>3. QED
      BY <3>1, <3>2, BeginInv
  <2>3. QED
    BY <2>1, <2>2
<1>4. ASSUME NEW k \in Creatable, NEW p \in NewBodies[k], Post(k, p) PROVE OperationsInv'
  <2> DEFINE r == [kind |-> k, op |-> "create", body |-> p, at |-> "apply"]
  <2>1. req.at = "idle" /\ req' = r /\ answer' = answer /\ UNCHANGED <<objs, others, row>>
    BY <1>4 DEF Post
  <2>2. r.at = "apply" /\ Form(r) /\ r.op # "update"
    BY DEF Form
  <2> HIDE DEF r
  <2>3. QED
    BY <2>1, <2>2, BeginInv
<1>5. ASSUME NEW i \in Oid, NEW p \in Bodies["publication"], PatchPublication(i, p)
      PROVE  OperationsInv'
  <2> DEFINE r == [kind |-> "publication", op |-> "update", id |-> i, body |-> p, at |-> "apply",
                   old |-> [kind |-> "publication"]]
  <2>1. req.at = "idle" /\ req' = r /\ answer' = answer /\ UNCHANGED <<objs, others, row>>
    BY <1>5 DEF PatchPublication
  <2>2. r.at = "apply" /\ Form(r) /\ r.kind \notin ById
    BY DEF Form, ById
  <2> HIDE DEF r
  <2>3. QED
    BY <2>1, <2>2, BeginInv
<1>6. ASSUME NEW n \in Name, NEW p \in Bodies["extension"], PatchExtension(n, p)
      PROVE  OperationsInv'
  <2> DEFINE old == InDatabase("extension", n)
             r == [kind |-> "extension", op |-> "update", body |-> p, at |-> "apply", old |-> old]
  <2>1. req.at = "idle" /\ req' = r /\ answer' = answer /\ UNCHANGED <<objs, others, row>>
    BY <1>6 DEF PatchExtension
  <2>2. AddressSound(old) /\ old.kind = "extension"
    BY RefSound DEF InDatabase, Kinds, ByName
  <2> HIDE DEF old
  <2>3. r.at = "apply" /\ Form(r) /\ r.kind \notin ById
    BY <2>2 DEF Form, ById
  <2> HIDE DEF r
  <2>4. QED
    BY <2>1, <2>3, BeginInv
<1>7. ASSUME NEW op \in {"grant", "revoke"}, NEW p \in Bodies["relation"], Privileging(op, p)
      PROVE  OperationsInv'
  <2> DEFINE r == [kind |-> "relation", op |-> op, body |-> p, at |-> "apply"]
  <2>1. req.at = "idle" /\ req' = r /\ answer' = answer /\ UNCHANGED <<objs, others, row>>
    BY <1>7 DEF Privileging
  <2>2. r.at = "apply" /\ Form(r) /\ r.op # "update"
    BY DEF Form
  <2> HIDE DEF r
  <2>3. QED
    BY <2>1, <2>2, BeginInv
<1>8. ASSUME ReadersNext PROVE OperationsInv'
  BY <1>8, ReadersDo, ReadInv
<1>9. QED
  BY <1>1, <1>2, <1>3, <1>4, <1>5, <1>6, <1>7, <1>8 DEF Begins

(* Every transaction of create(), update() and of grants and revokes keeps *)
(* it.                                                                     *)
LEMMA CommitsInv ==
  ASSUME OperationsInv, Creates \/ Updates \/ UpdateExtension \/ Grants PROVE OperationsInv'
<1>0. Stored(objs)
  BY DEF OperationsInv
<1>1. ASSUME NEW k \in Creatable, Applying(k, "create"), Commit(CreateSql(k, objs, req.body))
      PROVE  OperationsInv'
  <2> DEFINE w == CreateSql(k, objs, req.body)
  <2>1. req.at = "apply" /\ req.op = "create" /\ req.body \in NewBodies[k] /\ Commit(w)
    BY <1>1 DEF Applying, OperationsInv, Going, Form
  <2>2. w = Aborted \/ Stored(w)
    BY <1>0, <2>1, CreateSqlStored
  <2> HIDE DEF w
  <2>3. QED
    BY <2>1, <2>2, CommitInv
<1>2. ASSUME NEW k \in ById, Applying(k, "update"),
             k = "role" => \A c \in ToSet(req.body.config) : Known(c),
             Commit(UpdateSql(k, objs, req.id, req.old, req.body))
      PROVE  OperationsInv'
  <2> DEFINE j == req.id
             ref == req.old
             p == req.body
             w == UpdateSql(k, objs, j, ref, p)
  <2>1. /\ req.at = "apply" /\ req.op = "update" /\ req.kind = k /\ Commit(w)
        /\ p \in Bodies[k] /\ j \in Oid /\ Sound(ref) /\ ref.kind = k
        /\ others = 0 => ref = objs[j]
    BY <1>2 DEF Applying, OperationsInv, Going, Form, Undisturbed, ById
  <2>2. Updated(k, objs, w, j, ref, p)
    <3> HIDE DEF j, ref
    <3>1. k = "role" => \A c \in ToSet(p.config) : Known(c)
      BY <1>2
    <3> HIDE DEF p
    <3>2. QED
      BY <1>0, <2>1, <3>1, UpdateSqlDoes
  <2> HIDE DEF w
  <2>3. /\ w = Aborted \/ Stored(w)
        /\ w = Aborted /\ others = 0 => Impossible(k, objs, j, p)
    <3>1. Stored(objs) /\ ~Stored(Aborted)
      BY <1>0, StoredLegal
    <3>2. CASE w # Aborted
      BY <1>0, <2>2, <3>2 DEF Updated, Does
    <3>3. CASE w = Aborted
      BY <2>1, <2>2, <3>1, <3>3 DEF Updated, Does
    <3>4. QED
      BY <3>2, <3>3
  <2>4. QED
    BY <2>1, <2>3, CommitInv
<1>3. ASSUME UpdateExtension PROVE OperationsInv'
  <2> DEFINE w == ExtensionSql(objs, req.old, req.body)
  <2>1. req.at = "apply" /\ req.op = "update" /\ req.kind = "extension" /\ Commit(w) /\ req.old.kind = "extension"
    BY <1>3 DEF UpdateExtension, Applying, OperationsInv, Going, Form
  <2>2. w \in {objs, Aborted} \/ \E i, now : Does(objs, w, i, req.old, now)
    BY <1>0, <2>1, ExtensionDoes
  <2> HIDE DEF w
  <2>3. w = Aborted \/ Stored(w)
    BY <1>0, <2>2 DEF Does
  <2>4. QED
    BY <2>1, <2>3, CommitInv DEF ById
<1>4. ASSUME NEW op \in {"grant", "revoke"}, NEW level \in {"table", "column"},
             ApplyingTo(op, level), Commit(PrivilegeSqls(level, op, objs, req.body.items))
      PROVE  OperationsInv'
  <2> DEFINE items == req.body.items
             w == PrivilegeSqls(level, op, objs, items)
  <2>1. req.at = "apply" /\ req.op = op /\ req.body.level = level /\ Commit(w) /\ req.body \in Bodies["relation"]
    BY <1>4 DEF ApplyingTo, Applying, OperationsInv, Going, Form
  <2>2. Len(items) \in Nat /\ DOMAIN items = 1..Len(items)
    BY <2>1, PrivilegeBodiesAssumption
  <2>3. w = Aborted \/ (Stored(w) /\ \A n \in DOMAIN items : Fulfilled(w, level, op, items[n]))
    <3> HIDE DEF items
    <3>1. QED
      BY <1>0, <2>2, PrivilegesDone
  <2> HIDE DEF w
  <2>4. QED
    BY <2>1, <2>3, CommitInv
<1>5. QED
  BY <1>1, <1>2, <1>3, <1>4 DEF Creates, Updates, Grants

(* Every other step that answers keeps it.                                 *)
LEMMA AnswersInv ==
  ASSUME OperationsInv, UpdatePublication \/ ThrowConfig \/ Removes \/ ReadsBack \/ Refuse
  PROVE  OperationsInv'
<1>0. Stored(objs)
  BY DEF OperationsInv
<1>1. ASSUME UpdatePublication PROVE OperationsInv'
  <2>1. /\ Going(req) /\ UNCHANGED others /\ req.op = "update" /\ req.kind = "publication"
        /\ \/ objs' = objs /\ Answer("aborted", Null)
           \/ \E r \in Oid : Answer("data", r) /\ Stored(objs')
    BY <1>1, UpdatePublicationDoes
  <2>2. req.kind \notin ById
    BY <2>1 DEF ById
  <2>3. QED
    BY <1>0, <2>1, <2>2, AnswerInv
<1>2. ASSUME ThrowConfig PROVE OperationsInv'
  <2>1. Going(req) /\ Answer("threw", Null) /\ UNCHANGED <<objs, others>>
    BY <1>2 DEF ThrowConfig, Applying, Going
  <2>2. QED
    BY <1>0, <2>1, AnswerInv
<1>3. ASSUME Refuse PROVE OperationsInv'
  <2>1. Going(req) /\ Answer("refused", Null) /\ UNCHANGED <<objs, others>>
    BY <1>3 DEF Refuse, Going
  <2>2. QED
    BY <1>0, <2>1, AnswerInv
<1>4. ASSUME NEW k, Delete(k) PROVE OperationsInv'
  <2> DEFINE w == DropObject(objs, req.old)
  <2>1. /\ Going(req) /\ req.op = "remove" /\ UNCHANGED others
        /\ IF w = Aborted THEN objs' = objs /\ Answer("aborted", Null)
           ELSE objs' = w /\ Answer("data", req.id)
    BY <1>4 DEF Delete, Applying, Going
  <2>2. req.id \in Oid
    BY <2>1 DEF OperationsInv, Form
  <2>3. w = Aborted \/ Stored(w)
    BY <1>0, DropStored
  <2> HIDE DEF w
  <2>4. QED
    BY <1>0, <2>1, <2>2, <2>3, AnswerInv
<1>5. ASSUME RemovePublication PROVE OperationsInv'
  <2> DEFINE w == DropObject(objs, req.old)
  <2>1. /\ Going(req) /\ req.op = "remove" /\ UNCHANGED others /\ Answer("data", req.id)
        /\ objs' = IF Called(objs, req.old) = {} THEN objs ELSE w
    BY <1>5 DEF RemovePublication, Applying, Going
  <2>2. req.id \in Oid
    BY <2>1 DEF OperationsInv, Form
  <2>3. Called(objs, req.old) # {} => Stored(w)
    <3>1. SUFFICES ASSUME Called(objs, req.old) # {} PROVE w # Aborted
      BY <1>0, DropStored
    <3>2. PICK i \in Called(objs, req.old) : TRUE
      BY <3>1
    <3>3. i \in Oid /\ The(Called(objs, req.old)) = i
      BY <1>0, <3>2, CalledOne
    <3>4. objs # Aborted
      BY <1>0, StoredLegal
    <3>5. w = [objs EXCEPT ![i] = NoObject]
      BY <3>1, <3>3, <3>4 DEF DropObject
    <3>6. Stored([objs EXCEPT ![i] = NoObject])
      BY <1>0, <3>3, ClearStored
    <3>7. QED
      BY <3>5, <3>6, StoredLegal
  <2> HIDE DEF w
  <2>4. QED
    BY <1>0, <2>1, <2>2, <2>3, AnswerInv
<1>6. ASSUME NEW k \in ById, ReadById(k) PROVE OperationsInv'
  <2>1. /\ Going(req) /\ req.op = "update" /\ req.kind = k /\ UNCHANGED <<objs, others>>
        /\ Answer("data", req.id) \/ Answer("missing", Null)
    BY <1>6 DEF ReadById, Reading, Going
  <2>2. req.id \in Oid
    BY <2>1 DEF OperationsInv, Form, ById
  <2>3. QED
    BY <1>0, <2>1, <2>2, AnswerInv
<1>7. ASSUME NEW ref, ReadByName(ref), Going(req), req.op \in {"create", "update"} PROVE OperationsInv'
  <2> DEFINE found == Called(objs, ref)
  <2>1. /\ UNCHANGED <<objs, others>>
        /\ Answer("missing", Null) \/ (found # {} /\ Answer("data", The(found)))
    BY <1>7 DEF ReadByName
  <2>2. found # {} => The(found) \in Oid
    BY DEF The, Called, Made
  <2> HIDE DEF found
  <2>3. QED
    BY <1>0, <1>7, <2>1, <2>2, AnswerInv
<1>8. ASSUME ReadsBack PROVE OperationsInv'
  BY <1>6, <1>7, <1>8 DEF ReadsBack, Reading, Going
<1>9. QED
  BY <1>1, <1>2, <1>3, <1>4, <1>5, <1>8 DEF Removes

(* The entries that the rows R show for an item.                           *)
ShownOf(R, g) == UNION {r.privileges : r \in {x \in R : x.id = g.id}}

(* The rows of an answer are of relations, or columns, of the list.        *)
LEMMA RowsModified ==
  ASSUME NEW p \in Bodies["relation"], p.items # <<>>, NEW o,
         NEW R \in {TableRows(o, Modified(p)), ColumnRows(o, Modified(p))}
  PROVE  {r.id : r \in R} \subseteq Modified(p)
<1>1. p.items \in Seq(ToSet(p.items))
  BY PrivilegeBodiesAssumption
<1>2. PICK n \in DOMAIN p.items : TRUE
  <2>1. Len(p.items) \in Nat /\ DOMAIN p.items = 1..Len(p.items)
    BY <1>1
  <2>2. Len(p.items) # 0
    <3>1. SUFFICES ASSUME Len(p.items) = 0 PROVE p.items = <<>>
      OBVIOUS
    <3>2. QED
      BY <1>1, <3>1
  <2>3. 1 \in DOMAIN p.items
    BY <2>1, <2>2
  <2>4. QED
    BY <2>3
<1>3. p.items[n].id \in Modified(p)
  BY DEF Modified
<1> DEFINE M == Modified(p)
<1>4. M # {}
  BY <1>3
<1> HIDE DEF M
<1>5. \A r \in TableRows(o, M) : r.id \in M
  BY <1>4 DEF TableRows
<1>6. \A r \in ColumnRows(o, M) : r.id \in M
  BY <1>4 DEF ColumnRows
<1>7. QED
  BY <1>5, <1>6 DEF M

(* The rows of relations show the entries of a relation.                   *)
LEMMA TableShows ==
  ASSUME NEW o, NEW p, NEW g, g.id \in Modified(p), g.id \in Relations(o)
  PROVE  ShownOf(TableRows(o, Modified(p)), g) = o[g.id].at.acl
<1> DEFINE M == Modified(p)
           x == [id |-> g.id, privileges |-> o[g.id].at.acl]
           R == TableRows(o, M)
<1>1. g.id \in M
  OBVIOUS
<1> HIDE DEF M
<1>2. x \in R /\ x.id = g.id /\ x.privileges = o[g.id].at.acl
  BY <1>1 DEF TableRows
<1>3. \A r \in R : r.id = g.id => r.privileges = o[g.id].at.acl
  BY DEF TableRows
<1> HIDE DEF R, x
<1>4. ShownOf(R, g) = o[g.id].at.acl
  BY <1>2, <1>3 DEF ShownOf
<1>5. QED
  BY <1>4 DEF R, M

ColumnEntries(o, i, c) ==
  {e \in o[i].at.acl \cup o[i].at.cols[c] : e.privilege \in ColumnPrivilege}

(* The rows of columns show the entries of a column and of its relation.   *)
LEMMA ColumnShows ==
  ASSUME NEW o, NEW p, NEW g, g.id \in Modified(p),
         NEW i \in Relations(o), NEW c \in DOMAIN o[i].at.cols, g.id = <<i, c>>
  PROVE  ShownOf(ColumnRows(o, Modified(p)), g) = ColumnEntries(o, i, c)
<1> DEFINE M == Modified(p)
           E == ColumnEntries(o, i, c)
           R == ColumnRows(o, M)
           x == ColumnRow(o, i, c)
<1>1. g.id \in M
  OBVIOUS
<1>2. x.id = g.id /\ x.privileges = E
  BY DEF ColumnRow, ColumnEntries
<1>3. ASSUME NEW r \in R, r.id = g.id PROVE r.privileges = E
  <2>0. PICK j \in Relations(o) : \E d \in DOMAIN o[j].at.cols : r = ColumnRow(o, j, d)
    BY <1>3 DEF ColumnRows
  <2>1. PICK d \in DOMAIN o[j].at.cols : r = ColumnRow(o, j, d)
    BY <2>0
  <2>2. r.id = <<j, d>>
    BY <2>1 DEF ColumnRow
  <2>3. j = i /\ d = c
    BY <1>3, <2>2
  <2>4. QED
    BY <1>2, <2>1, <2>3
<1>4. E # {} => x \in R
  BY <1>1, <1>2 DEF ColumnRows
<1> HIDE DEF R, x, E, M
<1>5. ShownOf(R, g) = E
  <2>1. \A e : e \in ShownOf(R, g) <=> e \in E
    BY <1>2, <1>3, <1>4 DEF ShownOf
  <2>2. QED
    BY <2>1
<1>6. QED
  BY <1>5 DEF R, E, M

(* What an item of a body was shown to have done.                          *)
ItemShown(o, op, level, g, shown) ==
  \A q \in Wanted(level, g) :
    LET entries == {e \in shown : e.grantee = Grantee(g) /\ e.privilege = q} IN
    IF op = "grant" THEN \E e \in entries : g.grantable => e.grantable
    ELSE \A e \in entries :
           e.grantor # Self \/ (level = "column" /\ e \in o[OfTable(level, g.id)].at.acl)

(* An item that is fulfilled is shown so by the rows.                      *)
LEMMA FulfilledShown ==
  ASSUME NEW o, NEW p \in Bodies["relation"], p.level \in {"table", "column"},
         NEW op \in {"grant", "revoke"}, NEW n \in DOMAIN p.items, NEW g, g = p.items[n],
         Fulfilled(o, p.level, op, g),
         NEW R, R = IF p.level = "table" THEN TableRows(o, Modified(p)) ELSE ColumnRows(o, Modified(p))
  PROVE  ItemShown(o, op, p.level, g, ShownOf(R, g))
<1>1. Listed(o, p.level, g) /\ Has(EntriesOf(o, p.level, g), p.level, op, g)
  BY DEF Fulfilled
<1>m. g.id \in Modified(p)
  BY DEF Modified
<1>2. CASE p.level = "table"
  <2>1. ShownOf(R, g) = o[g.id].at.acl
    BY <1>1, <1>m, <1>2, TableShows DEF Listed, OfTable
  <2>2. Has(ShownOf(R, g), "table", op, g)
    BY <1>1, <1>2, <2>1 DEF EntriesOf
  <2>3. CASE op = "grant"
    BY <1>2, <2>2, <2>3 DEF Has, ItemShown
  <2>4. CASE op = "revoke"
    BY <1>2, <2>2, <2>4 DEF Has, ItemShown, SameGrant
  <2>5. QED
    BY <2>3, <2>4
<1>3. CASE p.level = "column"
  <2> DEFINE i == g.id[1]
             c == g.id[2]
             L == o[i].at.cols[c]
             S == ShownOf(R, g)
  <2>1. i \in Relations(o) /\ c \in DOMAIN o[i].at.cols
    BY <1>1, <1>3 DEF Listed, OfTable
  <2>2. g \in ToSet(p.items)
    BY DEF ToSet
  <2>3. g.id = <<i, c>> /\ g.privilege \in ColumnPrivilege \cup {"ALL"}
    BY <1>3, <2>2, PrivilegeBodiesAssumption
  <2>4. S = {e \in o[i].at.acl \cup L : e.privilege \in ColumnPrivilege}
    <3>1. R = ColumnRows(o, Modified(p))
      BY <1>3
    <3> HIDE DEF i, c
    <3>2. ShownOf(ColumnRows(o, Modified(p)), g) = ColumnEntries(o, i, c)
      BY <1>m, <2>1, <2>3, ColumnShows
    <3>3. QED
      BY <3>1, <3>2 DEF ColumnEntries
  <2>5. Has(L, "column", op, g)
    BY <1>1, <1>3 DEF EntriesOf
  <2>6. Wanted("column", g) \subseteq ColumnPrivilege
    BY <2>3 DEF Wanted
  <2>7. OfTable(p.level, g.id) = i
    BY <1>3 DEF OfTable
  <2> HIDE DEF S, L
  <2>8. CASE op = "grant"
    <3>1. ASSUME NEW q \in Wanted("column", g)
          PROVE  \E e \in S : e.grantee = Grantee(g) /\ e.privilege = q /\ (g.grantable => e.grantable)
      <4>1. PICK e \in L : e.grantee = Grantee(g) /\ e.privilege = q /\ (g.grantable => e.grantable)
        BY <2>5, <2>8 DEF Has
      <4>2. e \in S
        BY <2>4, <2>6, <4>1
      <4>3. QED
        BY <4>1, <4>2
    <3>2. ItemShown(o, op, "column", g, S)
      BY <2>8, <3>1 DEF ItemShown
    <3>3. QED
      BY <1>3, <3>2 DEF S
  <2>9. CASE op = "revoke"
    <3>1. ASSUME NEW q \in Wanted("column", g), NEW e \in S, e.grantee = Grantee(g), e.privilege = q
          PROVE  e.grantor # Self \/ e \in o[i].at.acl
      <4>1. e \in L => e.grantor # Self
        BY <2>5, <2>9, <3>1 DEF Has, SameGrant
      <4>2. QED
        BY <2>4, <4>1
    <3>2. ItemShown(o, op, p.level, g, S)
      BY <1>3, <2>7, <2>9, <3>1 DEF ItemShown
    <3>3. QED
      BY <3>2 DEF S
  <2>10. QED
    BY <2>8, <2>9
<1>4. QED
  BY <1>2, <1>3

(* PrivilegesShown, of any state.                                          *)
AllShown(o, r, a, R) ==
  r.at = "done" /\ r.op \in {"grant", "revoke"} /\ a = "data" =>
    /\ r.body.items # <<>> => {x.id : x \in R} \subseteq Modified(r.body)
    /\ \A n \in DOMAIN r.body.items :
         OfTable(r.body.level, r.body.items[n].id) \in Relations(o) =>
           ItemShown(o, r.op, r.body.level, r.body.items[n], ShownOf(R, r.body.items[n]))

(* PrivilegesShown, with what it speaks of as parameters.                  *)
LEMMA AllShownIs ==
  /\ PrivilegesShown <=> AllShown(objs, req, answer, row)
  /\ PrivilegesShown' <=> AllShown(objs', req', answer', row')
<1>1. PrivilegesShown <=> AllShown(objs, req, answer, row)
  BY DEF PrivilegesShown, AllShown, ItemShown, ShownOf
<1>2. PrivilegesShown' <=> AllShown(objs', req', answer', row')
  BY DEF PrivilegesShown, AllShown, ItemShown, ShownOf
<1>3. QED
  BY <1>1, <1>2

(* The read after a list of grants or revokes shows all of them done.      *)
LEMMA ReadPrivilegesInv ==
  ASSUME OperationsInv, ReadPrivileges PROVE OperationsInv'
<1> DEFINE p == req.body
           R == IF p.level = "table" THEN TableRows(objs, Modified(p)) ELSE ColumnRows(objs, Modified(p))
<1>1. /\ req.at = "read" /\ req.kind = "relation" /\ req.op \in {"grant", "revoke"}
      /\ Answer("data", R) /\ UNCHANGED <<objs, others>>
  BY DEF ReadPrivileges, Reading
<1>2. Form(req) /\ p \in Bodies["relation"]
  BY <1>1 DEF OperationsInv, Going, Form
<1>3. answer' = "data" /\ row' = R /\ objs' = objs /\ others' = others
      /\ req' = [req EXCEPT !.at = "done"]
  BY <1>1 DEF Answer
<1>4. /\ req'.at = "done" /\ req'.kind = "relation" /\ req'.op = req.op /\ req'.body = p
  BY <1>1, <1>2, <1>3, OpAtDone
<1>5. /\ p.level \in {"table", "column"}
      /\ \A n \in DOMAIN p.items : OfTable(p.level, p.items[n].id) \in Relations(objs) =>
           Fulfilled(objs, p.level, req.op, p.items[n])
  BY <1>1 DEF OperationsInv, PrivilegesMade
<1> HIDE DEF R, p
<1>6. p.items # <<>> => {r.id : r \in R} \subseteq Modified(p)
  BY <1>2, RowsModified DEF R
<1>7. ASSUME NEW n \in DOMAIN p.items, OfTable(p.level, p.items[n].id) \in Relations(objs)
      PROVE  ItemShown(objs, req.op, p.level, p.items[n], ShownOf(R, p.items[n]))
  BY <1>1, <1>2, <1>5, <1>7, FulfilledShown DEF R
<1>8. PrivilegesShown'
  <2>1. AllShown(objs', req', answer', row')
    BY <1>3, <1>4, <1>6, <1>7 DEF AllShown
  <2>2. QED
    BY <2>1, AllShownIs
<1>9. RowsAsked'
  BY <1>1, <1>4 DEF RowsAsked, GotById, GotByName
<1>10. RowSound' /\ Undisturbed' /\ PrivilegesMade' /\ AbortSound'
  BY <1>1, <1>3, <1>4 DEF RowSound, Undisturbed, PrivilegesMade, AbortSound, Read
<1>11. QED
  BY <1>3, <1>4, <1>8, <1>9, <1>10 DEF OperationsInv, AnswersTrue, Going

-------------------------------------------------------------------------------
(* A step that changes nothing keeps the invariant.                        *)
LEMMA StutterInv == ASSUME OperationsInv, UNCHANGED catalogVars PROVE OperationsInv'
<1>1. objs' = objs /\ req' = req /\ answer' = answer /\ row' = row /\ others' = others
  BY DEF catalogVars
<1>2. /\ Stored(objs)' <=> Stored(objs)
      /\ Form(req)' <=> Form(req)
      /\ Going(req)' <=> Going(req)
  BY <1>1 DEF Going
<1>3. RowSound' /\ Undisturbed'
  BY <1>1 DEF OperationsInv, RowSound, Undisturbed
<1>4. PrivilegesMade'
  BY <1>1 DEF OperationsInv, PrivilegesMade
<1>5. AbortSound'
  BY <1>1 DEF OperationsInv, AbortSound
<1>6. RowsAsked'
  BY <1>1 DEF OperationsInv, AnswersTrue, RowsAsked, GotById, GotByName, Shows
<1>7. PrivilegesShown'
  <2>1. PrivilegesShown
    BY DEF OperationsInv, AnswersTrue
  <2>2. PrivilegesShown <=> PrivilegesShown'
    BY <1>1, AllShownIs
  <2>3. QED
    BY <2>1, <2>2
<1>8. QED
  BY <1>1, <1>2, <1>3, <1>4, <1>5, <1>6, <1>7 DEF OperationsInv, AnswersTrue

(* OperationsInv is inductive.                                             *)
LEMMA NextInv == ASSUME OperationsInv, [Next]_catalogVars PROVE OperationsInv'
BY NextSteps, BeginsInv, CommitsInv, AnswersInv, ReadPrivilegesInv, ElsewhereInv, StutterInv

(* What every reachable state satisfies, however the steps of a request    *)
(* and those of other sessions interleave: the catalog is one that         *)
(* Postgres can keep, a request knows the object it read, and the answers  *)
(* so far are true.                                                        *)
THEOREM OperationsInvariant == Spec => []OperationsInv
<1>1. Init => OperationsInv
  BY InitInv
<1>2. OperationsInv /\ [Next]_catalogVars => OperationsInv'
  BY NextInv
<1>3. QED
  BY <1>1, <1>2, PTL DEF Spec

-------------------------------------------------------------------------------
(* The invariants that the runs check.                                     *)

(* Names stay unique in their place, every object has the attributes of    *)
(* its kind and a request that goes on knows its object (Catalog).         *)
THEOREM TypeCorrect == Spec => []TypeOK
<1>1. ASSUME OperationsInv PROVE TypeOK
  <2>1. LegalCatalog(objs)
    BY <1>1, StoredLegal DEF OperationsInv
  <2>2. req.at \in {"apply", "read"} /\ req.op = "update" => req.old.kind = req.kind
    BY <1>1 DEF OperationsInv, Going, Form
  <2>3. req.at = "idle" \/ req.kind \notin Read => row \in Oid \cup {Null}
    BY <1>1 DEF OperationsInv, RowSound
  <2>4. QED
    BY <1>1, <2>1, <2>2, <2>3 DEF TypeOK, OperationsInv, RowSound
<1>2. OperationsInv => TypeOK
  BY <1>1
<1>3. QED
  BY <1>2, OperationsInvariant, PTL

(* A PATCH that nobody disturbs is aborted only for what its kind cannot   *)
(* do at once (Operations).                                                *)
THEOREM AbortsJustified == Spec => []UpdatesAccepted
<1>1. ASSUME OperationsInv PROVE UpdatesAccepted
  <2>1. ASSUME answer = "aborted", req.op = "update", others = 0, req.kind \in ById
        PROVE  Impossible(req.kind, objs, req.id, req.body)
    BY <1>1, <2>1 DEF OperationsInv, RowSound, AbortSound
  <2>2. TableAccepted
    BY <2>1 DEF TableAccepted, Impossible, ById
  <2>3. FunctionAccepted
    BY <2>1 DEF FunctionAccepted, Impossible, FunctionTaken, ById
  <2>4. RoleAccepted
    <3>1. SUFFICES ASSUME answer = "aborted", req.kind = "role", req.op = "update", others = 0
                   PROVE  \/ Called(objs, Ref("role", Database, req.body.name)) # {}
                          \/ \E c \in ToSet(req.body.config) :
                               /\ c.op # "remove"
                               /\ Len(c.value) # 1 /\ ~(c.path \in ListKey /\ Len(c.value) > 1)
      BY DEF RoleAccepted
    <3>2. \/ Called(objs, Ref("role", Database, req.body.name)) # {}
          \/ UnfitOp(req.body.config)
      BY <2>1, <3>1 DEF Impossible, ById
    <3>3. ASSUME NEW k, NEW v, Unfit(k, v) PROVE Len(v) # 1 /\ ~(k \in ListKey /\ Len(v) > 1)
      <4>1. CASE Len(v) = 0
        BY <4>1
      <4>2. CASE Len(v) > 1 /\ k \notin ListKey
        <5>1. Len(v) # 1
          <6>1. SUFFICES ASSUME Len(v) = 1 PROVE FALSE
            OBVIOUS
          <6>2. QED
            BY <4>2, <6>1
        <5>2. QED
          BY <4>2, <5>1
      <4>3. QED
        BY <3>3, <4>1, <4>2 DEF Unfit
    <3>4. QED
      BY <3>2, <3>3 DEF UnfitOp
  <2>5. NamedAccepted
    BY <2>1 DEF NamedAccepted, Impossible, NamedTaken, ById
  <2>6. QED
    BY <2>2, <2>3, <2>4, <2>5 DEF UpdatesAccepted
<1>2. OperationsInv => UpdatesAccepted
  BY <1>1
<1>3. QED
  BY <1>2, OperationsInvariant, PTL

(* An answer carries the rows that were asked for, and a list of grants or *)
(* revokes is shown done (Operations).                                     *)
THEOREM AnswersAlwaysTrue == Spec => []AnswersTrue
<1>1. OperationsInv => AnswersTrue
  BY DEF OperationsInv
<1>2. QED
  BY <1>1, OperationsInvariant, PTL

-------------------------------------------------------------------------------
(* What a step may do.                                                     *)

(* A request comes when none is on its way.                                *)
LEMMA BeginsIdle == ASSUME Begins PROVE req.at = "idle"
<1>1. ReadersNext => req.at = "idle"
  BY DEF ReadersNext, GetView, GetMaterializedView, GetForeignTable, GetIndex, GetByName, Get,
         ListViews, ListMaterializedViews, ListForeignTables, List
<1>2. QED
  BY <1>1 DEF Begins, Retrieve, RetrieveExtension, Post, PatchPublication, PatchExtension, Privileging

(* An answer ends a request.                                               *)
LEMMA DoneAt == ASSUME OperationsInv, Going(req), NEW a, NEW r, Answer(a, r) PROVE req'.at = "done"
<1>1. Form(req)
  BY DEF OperationsInv
<1>2. QED
  BY <1>1, OpAtDone DEF Answer

(* The steps of an update that waits for its transaction.                  *)
LEMMA ApplySteps ==
  ASSUME OperationsInv, [Next]_catalogVars, req.at = "apply", req.op = "update"
  PROVE  \/ Updates \/ UpdateExtension \/ UpdatePublication
         \/ req'.at = "done" /\ answer' \notin {"data", "missing"}
         \/ req' = req /\ answer' = answer
<1>1. Going(req)
  BY DEF Going
<1>2. ~Begins
  BY BeginsIdle
<1>3. ~Creates /\ ~Grants /\ ~Removes
  BY DEF Creates, Grants, Removes, Applying, ApplyingTo, Delete, RemovePublication
<1>4. ~ReadsBack /\ ~ReadPrivileges
  BY DEF ReadsBack, ReadById, Reading, ReadPrivileges
<1>5. ThrowConfig => req'.at = "done" /\ answer' = "threw"
  BY <1>1, DoneAt DEF ThrowConfig, Answer
<1>6. Refuse => req'.at = "done" /\ answer' = "refused"
  BY <1>1, DoneAt DEF Refuse, Answer
<1>7. Elsewhere \/ UNCHANGED catalogVars => req' = req /\ answer' = answer
  BY DEF Elsewhere, catalogVars
<1>8. QED
  BY <1>2, <1>3, <1>4, <1>5, <1>6, <1>7, NextSteps

(* A transaction that is followed by a read was not aborted.               *)
LEMMA CommitReads ==
  ASSUME OperationsInv, Going(req), NEW o, Commit(o), req'.at = "read" PROVE o # Aborted /\ objs' = o
BY DoneAt DEF Commit

(* An update by id whose transaction commits: Updated.                     *)
LEMMA UpdatingDoes ==
  ASSUME OperationsInv, [Next]_catalogVars, NEW k \in ById, Updating(k)
  PROVE  /\ Updated(k, objs, objs', req.id, req.old, req.body) /\ objs' # Aborted
         /\ Stored(objs) /\ req.id \in Oid
         /\ others = 0 => req.old = objs[req.id]
<1>1. /\ req.at = "apply" /\ req.op = "update" /\ req.kind = k /\ req'.at = "read" /\ Going(req)
  BY DEF Updating, Applying, Going
<1>2. ~UpdateExtension /\ ~UpdatePublication
  BY <1>1 DEF UpdateExtension, UpdatePublication, Applying, ById
<1>3. Updates
  BY <1>1, <1>2, ApplySteps
<1>4. /\ k = "role" => \A c \in ToSet(req.body.config) : Known(c)
      /\ Commit(UpdateSql(k, objs, req.id, req.old, req.body))
  BY <1>1, <1>3 DEF Updates, Applying
<1> DEFINE w == UpdateSql(k, objs, req.id, req.old, req.body)
<1>5. w # Aborted /\ objs' = w
  BY <1>1, <1>4, CommitReads
<1>6. /\ req.body \in Bodies[k] /\ req.id \in Oid /\ Sound(req.old) /\ req.old.kind = k
      /\ others = 0 => req.old = objs[req.id]
      /\ Stored(objs)
  BY <1>1 DEF OperationsInv, Form, Undisturbed, ById
<1>7. Updated(k, objs, w, req.id, req.old, req.body)
  <2> DEFINE j == req.id
             ref == req.old
             p == req.body
  <2>1. k = "role" => \A c \in ToSet(p.config) : Known(c)
    BY <1>4
  <2>2. w = UpdateSql(k, objs, j, ref, p)
    OBVIOUS
  <2>3. Sound(ref) /\ ref.kind = k /\ j \in Oid /\ p \in Bodies[k]
    BY <1>6
  <2> HIDE DEF w, j, ref, p
  <2>4. Updated(k, objs, w, j, ref, p)
    BY <1>6, <2>1, <2>2, <2>3, UpdateSqlDoes
  <2>5. QED
    BY <2>4 DEF j, ref, p
<1>8. QED
  BY <1>5, <1>6, <1>7

(* The same when nobody else acted since the read.                         *)
LEMMA UndisturbedDone ==
  ASSUME OperationsInv, [Next]_catalogVars, NEW k \in ById, Updating(k), others = 0
  PROVE  UpdateAsked(k, objs, objs', req.id, req.body) /\ OthersKept(objs, objs', req.id)
BY UpdatingDoes DEF Updated, Does

(* A PATCH that nobody disturbs does all its body asks and nothing else    *)
(* (Operations).                                                           *)
THEOREM UpdatesAlwaysDone == Spec => UpdatesDone
<1>1. ASSUME OperationsInv, [Next]_catalogVars
      PROVE  [Updating("table") /\ others = 0 =>
                /\ TableAsked(objs[req.id], objs'[req.id], req.body)
                /\ OthersKept(objs, objs', req.id)]_catalogVars
  BY <1>1, UndisturbedDone DEF UpdateAsked, ById
<1>2. ASSUME OperationsInv, [Next]_catalogVars
      PROVE  [Updating("function") /\ others = 0 =>
                LET f == objs[req.id]
                    g == objs'[req.id]
                    p == req.body
                IN /\ g.kind = "function" /\ g.name = Given(p.name, f.name) /\ g.ns = Given(p.schema, f.ns)
                   /\ g.at = IF p.definition = Undefined THEN f.at ELSE Generated(p.definition)
                   /\ OthersKept(objs, objs', req.id)]_catalogVars
  BY <1>2, UndisturbedDone DEF UpdateAsked, FunctionAsked, ById
<1>3. ASSUME OperationsInv, [Next]_catalogVars
      PROVE  [Updating("role") /\ others = 0 =>
                LET r == objs[req.id]
                    s == objs'[req.id]
                    p == req.body
                IN /\ s.kind = "role" /\ s.name = Given(p.name, r.name)
                   /\ s.at.can_login = Given(p.can_login, r.at.can_login)
                   /\ \A k \in Key : s.at.config[k] = LastValue(p.config, k, r.at.config[k])
                   /\ OthersKept(objs, objs', req.id)]_catalogVars
  BY <1>3, UndisturbedDone DEF UpdateAsked, RoleAsked, ById
<1>4. ASSUME OperationsInv, [Next]_catalogVars
      PROVE  [\A k \in {"schema", "policy", "trigger"} :
                Updating(k) /\ others = 0 =>
                  LET x == objs[req.id]
                      y == objs'[req.id]
                  IN /\ y.name = Given(req.body.name, x.name) /\ y.ns = x.ns
                     /\ \A f \in Settable[k] : y.at[f] = Given(req.body[f], x.at[f])
                     /\ OthersKept(objs, objs', req.id)]_catalogVars
  BY <1>4, UndisturbedDone DEF UpdateAsked, NamedAsked, ById
<1>5. Spec => TableDone
  BY <1>1, OperationsInvariant, PTL DEF Spec, TableDone
<1>6. Spec => FunctionDone
  BY <1>2, OperationsInvariant, PTL DEF Spec, FunctionDone
<1>7. Spec => RoleDone
  BY <1>3, OperationsInvariant, PTL DEF Spec, RoleDone
<1>8. Spec => NamedDone
  BY <1>4, OperationsInvariant, PTL DEF Spec, NamedDone
<1>9. QED
  BY <1>5, <1>6, <1>7, <1>8 DEF UpdatesDone

(* What leaves the others as they were changes one object at most.         *)
LEMMA OneChanged ==
  ASSUME NEW o, NEW w, NEW i, OthersKept(o, w, i)
  PROVE  Cardinality({j \in Oid : w[j] # o[j]}) <= 1
<1> DEFINE S == {j \in Oid : w[j] # o[j]}
<1>1. S \subseteq {i}
  BY DEF OthersKept
<1>2. IsFiniteSet({i}) /\ Cardinality({i}) = 1
  BY FS_Singleton
<1> HIDE DEF S
<1>3. Cardinality(S) <= 1
  BY <1>1, <1>2, FS_Subset
<1>4. QED
  BY <1>3 DEF S

(* A step that leaves the catalog changes no object.                       *)
LEMMA NoneChanged ==
  ASSUME NEW o, NEW w, o = w
  PROVE  Cardinality({j \in Oid : w[j] # o[j]}) <= 1
BY OneChanged DEF OthersKept

(* The statements of one PATCH, which find the object by its name each     *)
(* time, never reach two objects (Operations).                             *)
THEOREM OneObjectOnly == Spec => OneObject
<1>1. ASSUME OperationsInv, [Next]_catalogVars, NEW k \in Kinds \ {"publication"}, Updating(k)
      PROVE  Cardinality({i \in Oid : objs'[i] # objs[i]}) <= 1
  <2>1. /\ req.at = "apply" /\ req.op = "update" /\ req.kind = k /\ req'.at = "read" /\ Going(req) /\ Form(req)
    BY <1>1 DEF Updating, Applying, Going, OperationsInv
  <2>2. CASE k \in ById
    <3>1. Updated(k, objs, objs', req.id, req.old, req.body) /\ objs' # Aborted
      BY <1>1, <2>2, UpdatingDoes
    <3>2. objs' = objs \/ \E i : OthersKept(objs, objs', i)
      BY <3>1 DEF Updated, Does
    <3>3. QED
      BY <3>2, OneChanged, NoneChanged
  <2>3. CASE k = "extension"
    <3>1. ~Updates /\ ~UpdatePublication
      BY <2>1, <2>3 DEF Updates, UpdatePublication, Applying, ById
    <3>2. UpdateExtension
      BY <1>1, <2>1, <3>1, ApplySteps
    <3> DEFINE w == ExtensionSql(objs, req.old, req.body)
    <3>3. w # Aborted /\ objs' = w
      BY <1>1, <2>1, <3>2, CommitReads DEF UpdateExtension
    <3>4. w \in {objs, Aborted} \/ \E i, now : Does(objs, w, i, req.old, now)
      BY <1>1, <2>1, <2>3, ExtensionDoes DEF OperationsInv, Form
    <3>5. objs' = objs \/ \E i : OthersKept(objs, objs', i)
      BY <3>3, <3>4 DEF Does
    <3>6. QED
      BY <3>5, OneChanged, NoneChanged
  <2>4. QED
    BY <1>1, <2>1, <2>2, <2>3 DEF Form
<1>2. ASSUME OperationsInv, [Next]_catalogVars
      PROVE  [\A k \in Kinds \ {"publication"} :
                Updating(k) => Cardinality({i \in Oid : objs'[i] # objs[i]}) <= 1]_catalogVars
  BY <1>1, <1>2
<1>3. QED
  BY <1>2, OperationsInvariant, PTL DEF Spec, OneObject

(* A new definition goes to the function of the id, whatever became of its *)
(* name (StoredFunctions).                                                 *)
THEOREM AlwaysRedefinesOwn == Spec => RedefinesOwn
<1>1. ASSUME OperationsInv, [Next]_catalogVars, Updating("function"), req.body.definition # Undefined
      PROVE  /\ objs'[req.id].at.definition = req.body.definition
             /\ OthersKept(objs, objs', req.id)
  <2>1. Updated("function", objs, objs', req.id, req.old, req.body) /\ objs' # Aborted
    BY <1>1, UpdatingDoes DEF ById
  <2>2. PICK new, now : Does(objs, objs', req.id, new, now) /\ now = Generated(req.body.definition)
    BY <1>1, <2>1 DEF Updated
  <2>3. objs'[req.id].at = Generated(req.body.definition)
    BY <2>2 DEF Does, Object
  <2>4. QED
    BY <2>2, <2>3 DEF Does, Generated
<1>2. ASSUME OperationsInv, [Next]_catalogVars
      PROVE  [Updating("function") /\ req.body.definition # Undefined =>
                /\ objs'[req.id].at.definition = req.body.definition
                /\ OthersKept(objs, objs', req.id)]_catalogVars
  BY <1>1, <1>2
<1>3. QED
  BY <1>2, OperationsInvariant, PTL DEF Spec, RedefinesOwn

(* The publication that an update leaves is what its body asks, also when  *)
(* it was made again, and no other one changes (Publications).             *)
THEOREM PublicationsKept == Spec => PublicationKept
<1>1. ASSUME OperationsInv, [Next]_catalogVars, Patched
      PROVE  LET t == objs[req.id]
                 u == objs'[row']
                 p == req.body
             IN /\ row' \in Made(objs') /\ u.name = Given(p.name, t.name)
                /\ u.at.owner = Given(p.owner, t.at.owner)
                /\ u.at.ops = Published(p, t.at.ops)
                /\ u.at.all = (p.tables = Null \/ (p.tables = Undefined /\ t.at.all))
                /\ u.at.tables = CASE p.tables = Undefined -> t.at.tables
                                   [] p.tables = Null -> {}
                                   [] OTHER -> p.tables
                /\ row' = req.id => u.at.viaroot = t.at.viaroot
                /\ \A j \in Oid \ {req.id, row'} : objs'[j] = objs[j]
  <2>1. /\ req.at = "apply" /\ req.op = "update" /\ req.kind = "publication" /\ answer' \in {"data", "missing"}
        /\ answer = "none" /\ Stored(objs)
    BY <1>1 DEF Patched, Applying, OperationsInv, RowSound
  <2>2. ~Updates /\ ~UpdateExtension
    BY <2>1 DEF Updates, UpdateExtension, Applying, ById
  <2>3. UpdatePublication
    BY <1>1, <2>1, <2>2, ApplySteps
  <2>4. PICK r \in Oid : Answer("data", r) /\ Stored(objs') /\ PublicationUpdated(r)
    <3>1. ~Answer("aborted", Null)
      BY <2>1 DEF Answer
    <3>2. QED
      BY <1>1, <2>3, <3>1, UpdatePublicationDoes
  <2>5. row' = r
    BY <2>4 DEF Answer
  <2>6. PICK base, new, now :
          /\ Remade(objs, req.id, base, r) /\ Does(base, objs', r, new, now)
          /\ PublicationAsked(objs'[r], objs[req.id].name, objs[req.id].at, req.body)
          /\ r = req.id => objs'[r].at.viaroot = objs[req.id].at.viaroot
    BY <2>4 DEF PublicationUpdated
  <2>7. row' \in Made(objs')
    BY <2>5, <2>6, DoesCalled
  <2>8. \A j \in Oid \ {req.id, row'} : objs'[j] = objs[j]
    BY <2>5, <2>6 DEF Remade, Does, OthersKept
  <2>9. objs'[r].at.all = (req.body.tables = Null \/ (req.body.tables = Undefined /\ objs[req.id].at.all))
    <3>1. objs'[r].at.all \in BOOLEAN
      <4>1. objs'[r] = Object(new, now) /\ AttributesSound(new.kind, now)
        BY <2>6 DEF Does
      <4>2. new.kind = "publication"
        BY <2>6, <4>1 DEF PublicationAsked, Object
      <4>3. QED
        BY <4>1, <4>2 DEF AttributesSound, Object
    <3>2. objs'[r].at.all <=> AllAsked(req.body.tables, objs[req.id].at)
      BY <2>6 DEF PublicationAsked, TablesAsked
    <3>3. objs'[r].at.all = AllAsked(req.body.tables, objs[req.id].at)
      BY <3>1, <3>2 DEF AllAsked
    <3>4. QED
      BY <3>3 DEF AllAsked
  <2>10. QED
    BY <2>5, <2>6, <2>7, <2>8, <2>9 DEF PublicationAsked, TablesAsked
<1>2. ASSUME OperationsInv, [Next]_catalogVars
      PROVE  [Patched =>
                LET t == objs[req.id]
                    u == objs'[row']
                    p == req.body
                IN /\ row' \in Made(objs') /\ u.name = Given(p.name, t.name)
                   /\ u.at.owner = Given(p.owner, t.at.owner)
                   /\ u.at.ops = Published(p, t.at.ops)
                   /\ u.at.all = (p.tables = Null \/ (p.tables = Undefined /\ t.at.all))
                   /\ u.at.tables = CASE p.tables = Undefined -> t.at.tables
                                      [] p.tables = Null -> {}
                                      [] OTHER -> p.tables
                   /\ row' = req.id => u.at.viaroot = t.at.viaroot
                   /\ \A j \in Oid \ {req.id, row'} : objs'[j] = objs[j]]_catalogVars
  BY <1>1, <1>2
<1>3. QED
  BY <1>2, OperationsInvariant, PTL DEF Spec, PublicationKept

===============================================================================
