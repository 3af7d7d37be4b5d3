------------------------------ MODULE Governance ------------------------------
(***************************************************************************)
(* lib/govobject/: proposals and triggers, read from JSON, checked and     *)
(* written.  An object is a function from names to values, a value its     *)
(* JavaScript type and what it is.  The hex text of an object is the JSON  *)
(* in it: an object, or the array that dashd gives, with the object in its *)
(* first element.  What the names and addresses of a web page may look     *)
(* like is a record of what the two regular expressions ask.               *)
(***************************************************************************)
EXTENDS Keys

CONSTANTS MAX_URL, MAX_NAME,                       \* 255 and 40
          SUPERBLOCK_CYCLE, TEST_SUPERBLOCK_CYCLE  \* 16616 and 24

ThrownGov == <<>>
ProposalTypes ==
  [end_epoch |-> "number", name |-> "string", payment_address |-> "string", payment_amount |-> "number",
   start_epoch |-> "number", type |-> "number", url |-> "string"]
TriggerTypes ==
  [event_block_height |-> "number", payment_addresses |-> "string", payment_amounts |-> "string",
   proposal_hashes |-> "string", type |-> "number"]
GovTypes(number) == IF number = 1 THEN ProposalTypes ELSE TriggerTypes

\* fromObject of Proposal and of Trigger: each field is there, of its type and no NaN;
\* a type of zero passes; what is not named is left out.
TypedFromObject(number, obj) ==
  LET Types == GovTypes(number)
  IN  IF \/ ~(DOMAIN Types \subseteq DOMAIN obj)
         \/ \E name \in DOMAIN Types : obj[name][1] # Types[name]
         \/ obj["type"][2] \notin {0, number}
        THEN ThrownGov
      ELSE [name \in DOMAIN Types |-> obj[name]]

\* GovObject.fromObject
GovFromObject(obj) ==
  IF "type" \notin DOMAIN obj THEN ThrownGov
  ELSE IF obj["type"] \notin {<<"number", 1>>, <<"number", 2>>} THEN ThrownGov
  ELSE TypedFromObject(obj["type"][2], obj)

\* dataHex, of the fields of the class, in the form of an object
GovText(number, gov) == [array |-> FALSE, object |-> [name \in DOMAIN GovTypes(number) |-> gov[name]]]

\* fromBufferReader: of a GovObject, which goes on to fromObject
GovFromText(text) == GovFromObject(text.object)
\* ... and of the two classes, which take over whatever is there, unchecked
EmptyGov(number) == [name \in DOMAIN GovTypes(number) |-> <<"string", "">>]
TypedFromText(number, text) == text.object @@ EmptyGov(number)

ValidUrl(url) == url.scheme \in {"http", "https"} /\ url.length \in 1 .. MAX_URL /\ url.plain
ValidName(name) == name.length \in 1 .. MAX_NAME /\ name.plain
\* _verifyAddress, of no network or of the one that was set
ValidAddress(text, network) == AddressFromString(text, network, "") # ThrownKey

\* getSerializationError of a proposal, as of a time: the first that is wrong
ProposalError(gov, network, now) ==
  IF \E name \in {"start_epoch", "end_epoch"} : gov[name][1] = "nan" THEN "invalidDate"
  ELSE IF gov["start_epoch"][2] >= gov["end_epoch"][2] \/ gov["end_epoch"][2] < now THEN "invalidDateWindow"
  ELSE IF ~ValidAddress(gov["payment_address"][2], network) THEN "invalidAddress"
  ELSE IF gov["payment_amount"][1] = "nan" \/ gov["payment_amount"][2] <= 0 THEN "invalidPayment"
  ELSE IF ~ValidUrl(gov["url"][2]) THEN "invalidUrl"
  ELSE IF ~ValidName(gov["name"][2]) THEN "invalidName"
  ELSE ""

\* ... and of a trigger.  What the two loops over addresses and amounts return is
\* returned to forEach: it is not looked at, and neither is what they check.
TriggerError(gov, network) ==
  LET cycle == IF network \in {NoNetwork, livenet} THEN SUPERBLOCK_CYCLE ELSE TEST_SUPERBLOCK_CYCLE
      count(field) == Len(gov[field][2])
  IN  IF gov["event_block_height"][1] = "nan" THEN "invalidEBH"
      ELSE IF gov["event_block_height"][2] % cycle # 0 THEN "invalidEBH"
      ELSE IF \/ count("payment_addresses") # count("payment_amounts")
              \/ count("payment_amounts") # count("proposal_hashes")
        THEN "fieldsMismatch"
      ELSE ""

GovError(number, gov, network, now) ==
  IF number = 1 THEN ProposalError(gov, network, now) ELSE TriggerError(gov, network)

\* checkedSerialize
CheckedSerialize(number, gov, network, now) ==
  IF GovError(number, gov, network, now) # "" THEN ThrownGov ELSE GovText(number, gov)
=============================================================================
