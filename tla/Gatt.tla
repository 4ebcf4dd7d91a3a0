-------------------------------- MODULE Gatt --------------------------------
(***************************************************************************)
(* A server puts its services together: the attribute registry of          *)
(* src/lib/att.js, the constructors of src/lib/characteristic.js and       *)
(* src/lib/service.js, the ready-made services of src/lib/gap.js and       *)
(* src/lib/gatt.js, and the constructor of src/lib/peripheral.js.          *)
(*                                                                         *)
(* createAttribute takes (type, value, handle, endHandle), and its callers *)
(* give it (handle, type, value, endHandle): what becomes the handle of an *)
(* attribute is its value, whatever that is.  The registry is an array     *)
(* used as a map, where such a handle is turned into a string, the name of *)
(* a property.  The model keeps the set of the names in use; a constructor *)
(* that throws leaves there what it has registered until then.             *)
(***************************************************************************)
EXTENDS Naturals, Sequences, FiniteSets, SequencesExt

CONSTANTS
  Uuids,   \* the UUIDs the program gives its characteristics and services
  Values,  \* the values it gives to characteristics; "falsy" is no handle
  Garbage  \* what two bytes of a Buffer may hold that are not written to

VARIABLES
  handles,          \* the names under which the array handles has an attribute
  characteristics,  \* the UUIDs of the Characteristics built
  services,         \* the UUIDs of the Services built
  peripheral,       \* the services of the Peripheral built, <<>> before
  thrown            \* what a constructor has thrown, or "none"

vars == <<handles, characteristics, services, peripheral, thrown>>

GAP  == "1800"
GATT == "1801"
INFO == "180A"
ServiceUuids == Uuids \cup {GAP, GATT}

Init ==
  /\ handles = {}
  /\ characteristics = {}
  /\ services = {}
  /\ peripheral = <<>>
  /\ thrown = "none"

----------------------------------------------------------------------------
(* The registry                                                            *)

\* The declaration of a characteristic is registered under its value, in which
\* two bytes are the handle of the value, or as they were without a handle; the
\* value of the characteristic under itself, unless it is falsy.
NamesOf(bytes, u, v) ==
  <<<<"declaration", bytes, u>>>> \o (IF v = "falsy" THEN <<>> ELSE <<<<"value", v>>>>)

\* The declaration of a service, under the service's UUID.
ServiceName(u) == <<"service", u>>

\* How many of some attributes are created before one has a name in use.
Created(names) ==
  CHOOSE n \in 0 .. Len(names) :
    LET taken(i) == names[i] \in handles \/ \E j \in 1 .. i - 1 : names[j] = names[i]
    IN  /\ \A i \in 1 .. n : ~taken(i)
        /\ n < Len(names) => taken(n + 1)

\* A constructor creates attributes, until an exception, and goes on with the
\* rest, which throws or does not.
Construct(names, rest) ==
  /\ thrown = "none"
  /\ handles' = handles \cup ToSet(SubSeq(names, 1, Created(names)))
  /\ thrown' = IF Created(names) = Len(names) THEN rest ELSE "alreadyExists"

\* Characteristic.setHandle writes two bytes from the second on into the value
\* of the declaration.  As things are, that is the UUID of declarations, which
\* is two bytes long: writeUInt16LE throws.
Numbering(chars) == IF chars = 0 THEN "none" ELSE "beyondBuffer"

----------------------------------------------------------------------------
(* The constructors                                                        *)

\* characteristic.create without a handle.
CreateCharacteristic(u, v) ==
  /\ \E bytes \in Garbage : Construct(NamesOf(bytes, u, v), "none")
  /\ characteristics' = IF thrown' = "none" THEN characteristics \cup {u} ELSE characteristics
  /\ UNCHANGED <<services, peripheral>>

\* service.create with some characteristics.
CreateService(u, chars) ==
  /\ chars <= Cardinality(characteristics)
  /\ Construct(<<ServiceName(u)>>, Numbering(chars))
  /\ services' = IF thrown' = "none" THEN services \cup {u} ELSE services
  /\ UNCHANGED <<characteristics, peripheral>>

\* The attributes createGATTService creates: one characteristic, at handle 2,
\* whose value is a Buffer of zeros; and those of createGAPService, of whose
\* values the name and the address are not falsy.
GattNames == NamesOf(3, "2A05", "zeros") \o <<ServiceName(GATT)>>
GapNames  == NamesOf(3, "2A00", "name") \o NamesOf(4, "2A01", "falsy")
               \o NamesOf(5, "2A02", "falsy") \o NamesOf(6, "2A03", "address")
               \o <<ServiceName(GAP)>>

\* createDeviceInfoService, with up to two of the nine values it takes: a
\* characteristic without a handle for each.
CreateDeviceInfoService(given) ==
  /\ LET names(i) == NamesOf(given[i][1], <<"2A29", "2A24">>[i], given[i][2])
     IN  Construct(FlattenSeq([i \in 1 .. Len(given) |-> names(i)]) \o <<ServiceName(INFO)>>,
                   Numbering(Len(given)))
  /\ services' = IF thrown' = "none" THEN services \cup {INFO} ELSE services
  /\ UNCHANGED <<characteristics, peripheral>>

\* Peripheral.create puts the GATT and the GAP service where they are not, and
\* takes no options.
CreatePeripheral(given, options) ==
  /\ peripheral = <<>>
  /\ IF options
     THEN thrown = "none" /\ thrown' = "notAnObject" /\ UNCHANGED <<handles, peripheral>>
     ELSE IF Len(given) < 2 \/ given[2] # GATT
     THEN Construct(GattNames, Numbering(1)) /\ UNCHANGED peripheral
     ELSE IF given[1] # GAP
     THEN Construct(GapNames, Numbering(4)) /\ UNCHANGED peripheral
     ELSE Construct(<<>>, "none") /\ peripheral' = given
  /\ UNCHANGED <<characteristics, services>>

Next ==
  \/ \E u \in Uuids, v \in Values : CreateCharacteristic(u, v)
  \/ \E u \in ServiceUuids, chars \in 0 .. 2 : CreateService(u, chars)
  \/ \E given \in SeqOf(Garbage \X (Values \ {"falsy"}), 2) : CreateDeviceInfoService(given)
  \/ \E given \in SeqOf(services, 3), options \in BOOLEAN : CreatePeripheral(given, options)

Spec == Init /\ [][Next]_vars

----------------------------------------------------------------------------
(* Properties                                                              *)

\* Services can be built of characteristics, as src/startAdv.js does under "Create
\* the services" and src/lib/peripheral.js to "make sure we have a GATT service":
\* numbering them throws nothing.
ServicesAreBuilt == thrown # "beyondBuffer"

=============================================================================
