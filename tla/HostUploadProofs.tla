-------------------------- MODULE HostUploadProofs --------------------------
(***************************************************************************)
(* What holds of HostUpload for all uploads.  The argument: the devices    *)
(* passed are split between the two lists by whether their element is      *)
(* good; the device being parsed is good as far as it has been parsed; and *)
(* the response is a status and one pair of elements per failure written.  *)
(***************************************************************************)
EXTENDS HostUpload, SequenceTheorems, TLAPS

Parsing  == {"device", "model", "point"}
Answered == {"respond", "results", "output", "exited"}

GoodModel(e) ==
    /\ e.fault = ""
    /\ \A k \in 1 .. Len(e.points) : e.points[k] = ""

\* What EndModel attaches for model element k of a device element.
DatasetOf(e, k) ==
    [model |-> k, values |-> [j \in 1 .. Len(e.models[k].points) |-> j]]

Devices  == [element : Nat, datasets : Seq([model : Nat, values : Seq(Nat)])]
Fails    == [element : Nat, status : {"UNDEF", "FAILURE"},
             code : {"INVALID_MESSAGE", "UNKNOWN_DEVICE"}]
Statuses == {"UNDEF", "SUCCESS", "FAILURE", "DR_FAILURE"}

CursorInv ==
    /\ upload \in Uploads
    /\ pc \in Parsing \union Answered \union {"root"}
    /\ d \in Nat \ {0} /\ m \in Nat \ {0} /\ p \in Nat \ {0}
    /\ pc = "root" => d = 1
    /\ pc = "device" => d <= Len(upload.devices) + 1
    /\ pc \in {"model", "point"} => d <= Len(upload.devices)
    /\ pc \in Parsing => upload.fault = ""

\* The models and points before the cursor are good, and all there.
BuildingInv ==
    /\ device \in Seq([model : Nat, values : Seq(Nat)]) /\ data \in Seq(Nat)
    /\ pc \in {"model", "point"} =>
          /\ Element.fault = ""
          /\ m <= Len(Element.models) + 1
          /\ Len(device) = m - 1
          /\ \A k \in 1 .. m - 1 :
                GoodModel(Element.models[k]) /\ device[k] = DatasetOf(Element, k)
    /\ pc = "point" =>
          /\ m <= Len(Element.models)
          /\ ModelElement.fault = ""
          /\ p <= Len(ModelElement.points) + 1
          /\ \A k \in 1 .. p - 1 : ModelElement.points[k] = ""
          /\ Len(data) = p - 1
          /\ \A k \in 1 .. p - 1 : data[k] = k

\* The devices the parser has passed.
Passed == IF pc \in Parsing THEN d - 1
          ELSE IF pc = "root" \/ upload.fault # "" THEN 0
          ELSE Len(upload.devices)

DecidedInv ==
    /\ devices \in Seq(Devices) /\ dr_fails \in Seq(Fails)
    /\ Ascending(devices) /\ Ascending(dr_fails)
    /\ ElementsOf(devices) = {k \in 1 .. Passed : Good(upload.devices[k])}
    /\ ElementsOf(dr_fails) = {k \in 1 .. Passed : ~Good(upload.devices[k])}
    /\ DevicesComplete

ResultInv ==
    /\ result.status = IF pc = "root" THEN "UNDEF"
                       ELSE IF upload.fault # "" THEN "FAILURE"
                       ELSE IF dr_fails = <<>> THEN "SUCCESS" ELSE "DR_FAILURE"
    /\ result \in [status : Statuses, code : Codes]
    /\ rc \in {-1, 0}

\* The response up to failure n: its status, then two elements for each.
Lists(n) ==
    /\ Len(response) = 2 * n + 1
    /\ \A k \in 1 .. n :
          /\ response[2 * k].kind = "dResult"
          /\ response[2 * k].element = dr_fails[k].element
          /\ response[2 * k + 1].kind = "detail"

ResponseElements ==
    [kind : {"status"}, status : Statuses]
    \union [kind : {"detail"}, code : Codes]
    \union [kind : {"dResult"}, element : Nat, status : Statuses]

ResponseInv ==
    /\ response \in Seq(ResponseElements)
    /\ pc \in {"results", "output", "exited"} =>
          /\ Len(response) >= 1
          /\ response[1].kind = "status" /\ response[1].status = result.status
    /\ pc = "results" => d <= Len(dr_fails) + 1 /\ Lists(d - 1) /\ rc = 0
                         /\ upload.fault = "" /\ dr_fails # <<>>
    /\ pc \in {"output", "exited"} /\ upload.fault = "" /\ rc = 0 => Lists(Len(dr_fails))

EndInv ==
    /\ pc = "exited" => printed = devices /\ (status = "success" <=> rc = 0)
    /\ status \in {"running", "success", "failure"}

IInv == CursorInv /\ BuildingInv /\ DecidedInv /\ ResultInv /\ ResponseInv /\ EndInv

-----------------------------------------------------------------------------
\* Uploads and lists

\* The shape of an upload.
LEMMA UploadFacts ==
    ASSUME upload \in Uploads
    PROVE  /\ Len(upload.devices) \in Nat
           /\ \A n \in 1 .. Len(upload.devices) :
                /\ Len(upload.devices[n].models) \in Nat
                /\ \A k \in 1 .. Len(upload.devices[n].models) :
                     Len(upload.devices[n].models[k].points) \in Nat
<1>1. upload.devices \in Seq(DeviceForms)
  BY UploadsAssumption DEF UploadForms
<1>2. ASSUME NEW n \in 1 .. Len(upload.devices)
      PROVE  /\ Len(upload.devices[n].models) \in Nat
             /\ \A k \in 1 .. Len(upload.devices[n].models) :
                   Len(upload.devices[n].models[k].points) \in Nat
  <2>1. upload.devices[n] \in DeviceForms
    BY <1>1
  <2>2. upload.devices[n].models \in Seq(ModelForms)
    BY <2>1 DEF DeviceForms
  <2>3. ASSUME NEW k \in 1 .. Len(upload.devices[n].models)
        PROVE  Len(upload.devices[n].models[k].points) \in Nat
    <3>1. upload.devices[n].models[k] \in ModelForms
      BY <2>2
    <3>2. upload.devices[n].models[k].points \in Seq(PointFaults \union {""})
      BY <3>1 DEF ModelForms
    <3> QED
      BY <3>2, LenProperties
  <2> QED
    BY <2>2, <2>3
<1> QED
  BY <1>1, <1>2

\* An element is good if it and its models are.
LEMMA GoodDevice ==
    ASSUME NEW e
    PROVE  Good(e) <=> /\ e.fault = ""
                       /\ \A k \in 1 .. Len(e.models) : GoodModel(e.models[k])
  BY DEF Good, GoodModel

\* Appending an element to a list of elements.
LEMMA AppendedElement ==
    ASSUME NEW S, NEW list \in Seq(S), NEW x \in S
    PROVE  /\ ElementsOf(Append(list, x)) = ElementsOf(list) \union {x.element}
           /\ /\ Ascending(list)
              /\ \A e \in ElementsOf(list) : e < x.element
              => Ascending(Append(list, x))
<1>1. /\ Len(list) \in Nat /\ Len(Append(list, x)) = Len(list) + 1
      /\ \A n \in 1 .. Len(list) : Append(list, x)[n] = list[n]
      /\ Append(list, x)[Len(list) + 1] = x
  OBVIOUS
<1>2. 1 .. Len(list) + 1 = (1 .. Len(list)) \union {Len(list) + 1}
  BY <1>1
<1>3. ElementsOf(Append(list, x)) = ElementsOf(list) \union {x.element}
  BY <1>1, <1>2 DEF ElementsOf
<1>4. ASSUME Ascending(list), \A e \in ElementsOf(list) : e < x.element
      PROVE  Ascending(Append(list, x))
  <2>1. ASSUME NEW j \in 1 .. Len(list) + 1, NEW k \in 1 .. Len(list) + 1, j < k
        PROVE  Append(list, x)[j].element < Append(list, x)[k].element
    <3>1. j \in 1 .. Len(list) /\ Append(list, x)[j] = list[j]
      BY <1>1, <2>1
    <3>2. CASE k = Len(list) + 1
      BY <1>1, <1>4, <3>1, <3>2 DEF ElementsOf
    <3>3. CASE k \in 1 .. Len(list)
      BY <1>1, <1>4, <2>1, <3>1, <3>3 DEF Ascending
    <3> QED
      BY <1>2, <3>2, <3>3
  <2> QED
    BY <1>1, <2>1 DEF Ascending
<1> QED
  BY <1>3, <1>4

-----------------------------------------------------------------------------
\* Steps

\* The places that a step of the parser leaves alone.
LEMMA ParsingStep ==
    ASSUME IInv, pc' \in Parsing, upload.fault = "", UNCHANGED <<upload, response>>,
           result'.status = IF dr_fails' = <<>> THEN "SUCCESS" ELSE "DR_FAILURE",
           result' \in [status : Statuses, code : Codes], rc' \in {-1, 0}, status' = status
    PROVE  ResultInv' /\ ResponseInv' /\ EndInv'
<1>1. ResultInv'
  BY DEF ResultInv, Parsing
<1>2. ResponseInv'
  BY DEF IInv, ResponseInv, Parsing
<1>3. EndInv'
  BY DEF IInv, EndInv, Parsing
<1> QED
  BY <1>1, <1>2, <1>3

\* The devices passed do not change with the cursors below them.
LEMMA DecidedUnchanged ==
    ASSUME IInv, UNCHANGED <<upload, devices, dr_fails>>, Passed' = Passed
    PROVE  DecidedInv'
  BY DEF IInv, DecidedInv, DevicesComplete

\* A device that is rejected, wherever, is not good.
LEMMA FailStep ==
    ASSUME IInv, pc \in Parsing, d <= Len(upload.devices), ~Good(Element),
           NEW st \in {"UNDEF", "FAILURE"},
           NEW code \in {"INVALID_MESSAGE", "UNKNOWN_DEVICE"},
           FailDevice(st, code)
    PROVE  IInv'
<1> DEFINE record == [element |-> d, status |-> st, code |-> code]
<1>1. /\ dr_fails' = Append(dr_fails, record)
      /\ result' = [result EXCEPT !.status = "DR_FAILURE"]
      /\ rc' = -1 /\ pc' = "device" /\ d' = d + 1
      /\ UNCHANGED <<upload, m, p, device, data, devices, response, printed, status>>
  BY DEF FailDevice, building
<1>2. upload \in Uploads /\ upload.fault = ""
  BY DEF IInv, CursorInv
<1>7. d \in Nat \ {0} /\ m \in Nat \ {0} /\ p \in Nat \ {0}
  BY DEF IInv, CursorInv
<1>8. Len(upload.devices) \in Nat
  BY <1>2, UploadFacts
<1>9. d \in 1 .. Len(upload.devices)
  BY <1>7, <1>8
<1>3. CursorInv'
  <2>1. d' \in Nat \ {0} /\ m' \in Nat \ {0} /\ p' \in Nat \ {0}
    BY <1>1, <1>7
  <2>2. d' <= Len(upload.devices) + 1
    BY <1>1, <1>9, <1>8
  <2>3. upload' \in Uploads /\ pc' = "device" /\ upload'.fault = "" /\ upload' = upload
    BY <1>1, <1>2
  <2> QED
    BY <2>1, <2>2, <2>3 DEF CursorInv, Parsing
<1>4. BuildingInv'
  BY <1>1 DEF IInv, BuildingInv
<1>5. DecidedInv'
  <2>1. record \in Fails /\ dr_fails \in Seq(Fails)
    <3>1. d \in Nat
      BY <1>7
    <3>2. record \in Fails
      BY <3>1 DEF Fails
    <3> QED
      BY <3>2 DEF IInv, DecidedInv
  <2>2. Passed = d - 1 /\ Passed' = d
    BY <1>1, <1>7 DEF Passed, Parsing
  <2>3. \A e \in ElementsOf(dr_fails) : e < record.element
    BY <1>7, <2>2 DEF IInv, DecidedInv
  <2>4. /\ ElementsOf(dr_fails') = ElementsOf(dr_fails) \union {d}
        /\ Ascending(dr_fails') /\ dr_fails' \in Seq(Fails)
    BY <1>1, <2>1, <2>3, AppendedElement DEF IInv, DecidedInv
  <2>5. 1 .. d = (1 .. d - 1) \union {d}
    BY <1>7
  <2>8. ~Good(upload.devices[d])
    BY DEF Element
  <2>6. /\ ElementsOf(devices) = {k \in 1 .. d : Good(upload.devices[k])}
        /\ ElementsOf(dr_fails') = {k \in 1 .. d : ~Good(upload.devices[k])}
    BY <2>2, <2>4, <2>5, <2>8 DEF IInv, DecidedInv
  <2>7. /\ ElementsOf(devices)' = ElementsOf(devices)
        /\ ElementsOf(dr_fails)' = ElementsOf(dr_fails')
        /\ Ascending(devices)' = Ascending(devices)
        /\ Ascending(dr_fails)' = Ascending(dr_fails')
    BY <1>1 DEF ElementsOf, Ascending
  <2> QED
    BY <1>1, <2>2, <2>4, <2>6, <2>7 DEF IInv, DecidedInv, DevicesComplete
<1>6. ResultInv' /\ ResponseInv' /\ EndInv'
  <2>1. dr_fails' # <<>>
    <3>1. Len(dr_fails') # 0
      BY <1>1 DEF IInv, DecidedInv
    <3> QED
      BY <3>1
  <2>2. result' \in [status : Statuses, code : Codes] /\ result'.status = "DR_FAILURE"
    BY <1>1 DEF IInv, ResultInv, Statuses
  <2> QED
    BY <1>1, <1>2, <2>1, <2>2, ParsingStep DEF Parsing
<1> QED
  BY <1>3, <1>4, <1>5, <1>6 DEF IInv

\* A step below the devices leaves all but the device being parsed alone.
LEMMA QuietStep ==
    ASSUME IInv, pc \in Parsing, pc' \in Parsing,
           UNCHANGED <<upload, d, devices, result, dr_fails, response, rc, printed, status>>
    PROVE  DecidedInv' /\ ResultInv' /\ ResponseInv' /\ EndInv'
<1>1. upload.fault = ""
  BY DEF IInv, CursorInv
<1>2. DecidedInv'
  <2>1. Passed' = Passed
    BY DEF Passed
  <2> QED
    BY <2>1, DecidedUnchanged
<1>3. ResultInv' /\ ResponseInv' /\ EndInv'
  <2>1. /\ result.status = IF dr_fails = <<>> THEN "SUCCESS" ELSE "DR_FAILURE"
        /\ result \in [status : Statuses, code : Codes] /\ rc \in {-1, 0}
    BY <1>1 DEF IInv, ResultInv, Parsing
  <2> QED
    BY <1>1, <2>1, ParsingStep
<1> QED
  BY <1>2, <1>3

\* The cursors are natural numbers, and those of the loops that run are inside
\* the upload.
LEMMA CursorFacts ==
    ASSUME IInv
    PROVE  /\ d \in Nat \ {0} /\ m \in Nat \ {0} /\ p \in Nat \ {0}
           /\ Len(upload.devices) \in Nat
           /\ pc \in {"model", "point"} =>
                 /\ d \in 1 .. Len(upload.devices)
                 /\ Len(Element.models) \in Nat
           /\ pc = "point" =>
                 /\ m \in 1 .. Len(Element.models)
                 /\ Len(ModelElement.points) \in Nat
<1>1. /\ d \in Nat \ {0} /\ m \in Nat \ {0} /\ p \in Nat \ {0}
      /\ upload \in Uploads
  BY DEF IInv, CursorInv
<1>2. Len(upload.devices) \in Nat
  BY <1>1, UploadFacts
<1>3. ASSUME pc \in {"model", "point"}
      PROVE  d \in 1 .. Len(upload.devices) /\ Len(Element.models) \in Nat
  <2>1. d <= Len(upload.devices)
    BY <1>3 DEF IInv, CursorInv
  <2>2. d \in 1 .. Len(upload.devices)
    BY <1>1, <1>2, <2>1
  <2> QED
    BY <1>1, <2>2, UploadFacts DEF Element
<1>4. ASSUME pc = "point"
      PROVE  m \in 1 .. Len(Element.models) /\ Len(ModelElement.points) \in Nat
  <2>1. m <= Len(Element.models)
    BY <1>4 DEF IInv, BuildingInv
  <2>2. m \in 1 .. Len(Element.models)
    BY <1>1, <1>3, <1>4, <2>1
  <2> QED
    BY <1>1, <1>3, <1>4, <2>2, UploadFacts DEF Element, ModelElement
<1> QED
  BY <1>1, <1>2, <1>3, <1>4

\* A step inside a device keeps its cursor.
LEMMA CursorStep ==
    ASSUME IInv, pc \in Parsing, pc' \in {"model", "point"}, d <= Len(upload.devices),
           UNCHANGED <<upload, d>>, m' \in Nat \ {0}, p' \in Nat \ {0}
    PROVE  CursorInv'
<1>1. upload \in Uploads /\ upload.fault = "" /\ d \in Nat \ {0}
  BY DEF IInv, CursorInv
<1> QED
  BY <1>1 DEF CursorInv, Parsing

LEMMA BeginDeviceStep == ASSUME IInv, BeginDevice PROVE IInv'
<1>1. /\ pc = "device" /\ d <= Len(upload.devices) /\ Element.fault = ""
      /\ device' = <<>> /\ m' = 1 /\ pc' = "model"
      /\ UNCHANGED <<upload, d, p, data, devices, result, dr_fails, response, rc, printed,
                     status>>
  BY DEF BeginDevice, AtDevice
<1>2. CursorInv'
  <2>1. m' \in Nat \ {0} /\ p' \in Nat \ {0}
    <3>1. m \in Nat \ {0} /\ p \in Nat \ {0}
      BY CursorFacts
    <3>2. m' \in {1, m, m + 1} /\ p' \in {1, p, p + 1}
      BY <1>1
    <3> QED
      BY <3>1, <3>2
  <2>2. d <= Len(upload.devices)
    BY <1>1 DEF IInv, CursorInv
  <2> QED
    BY <1>1, <2>1, <2>2, CursorStep DEF Parsing
<1>3. BuildingInv'
  <2>1. Len(Element.models) \in Nat
    <3>1. d \in Nat \ {0} /\ Len(upload.devices) \in Nat
      BY CursorFacts
    <3>2. d <= Len(upload.devices)
      BY <1>1
    <3>3. d \in 1 .. Len(upload.devices)
      BY <3>1, <3>2
    <3> QED
      BY <3>3, UploadFacts DEF Element, IInv, CursorInv
  <2>2. Element' = Element
    BY <1>1 DEF Element
  <2>7. device' = <<>> /\ m' = 1
    BY <1>1
  <2>3. /\ device' = <<>> /\ device' \in Seq([model : Nat, values : Seq(Nat)])
        /\ Len(device') = m' - 1 /\ m' = 1
    BY <2>7
  <2>4. m' <= Len(Element.models) + 1
    BY <2>1, <2>3
  <2>5. 1 .. m' - 1 = {}
    BY <2>3
  <2>6. data' \in Seq(Nat) /\ pc' = "model" /\ Element.fault = ""
    BY <1>1 DEF IInv, BuildingInv
  <2> QED
    BY <2>2, <2>3, <2>4, <2>5, <2>6 DEF BuildingInv
<1> QED
  BY <1>1, <1>2, <1>3, QuietStep DEF IInv, Parsing

LEMMA BeginModelStep == ASSUME IInv, BeginModel PROVE IInv'
<1>1. /\ pc = "model" /\ m <= Len(Element.models) /\ ModelElement.fault = ""
      /\ data' = <<>> /\ p' = 1 /\ pc' = "point"
      /\ UNCHANGED <<upload, d, m, device, devices, result, dr_fails, response, rc, printed,
                     status>>
  BY DEF BeginModel, AtModel
<1>2. CursorInv'
  <2>1. m' \in Nat \ {0} /\ p' \in Nat \ {0}
    <3>1. m \in Nat \ {0} /\ p \in Nat \ {0}
      BY CursorFacts
    <3>2. m' \in {1, m, m + 1} /\ p' \in {1, p, p + 1}
      BY <1>1
    <3> QED
      BY <3>1, <3>2
  <2>2. d <= Len(upload.devices)
    BY <1>1 DEF IInv, CursorInv
  <2> QED
    BY <1>1, <2>1, <2>2, CursorStep DEF Parsing
<1>3. BuildingInv'
  <2>1. Len(ModelElement.points) \in Nat
    <3>1. /\ m \in Nat \ {0} /\ Len(Element.models) \in Nat
          /\ d \in 1 .. Len(upload.devices)
      BY <1>1, CursorFacts
    <3>2. m <= Len(Element.models)
      BY <1>1
    <3>3. m \in 1 .. Len(Element.models)
      BY <3>1, <3>2
    <3> QED
      BY <3>1, <3>3, UploadFacts DEF Element, ModelElement, IInv, CursorInv
  <2>2. Element' = Element /\ ModelElement' = ModelElement
    BY <1>1 DEF Element, ModelElement
  <2>6. data' = <<>> /\ p' = 1
    BY <1>1
  <2>3. data' = <<>> /\ data' \in Seq(Nat) /\ Len(data') = p' - 1 /\ p' = 1
    BY <2>6
  <2>4. p' <= Len(ModelElement.points) + 1
    BY <2>1, <2>3
  <2>5. 1 .. p' - 1 = {}
    BY <2>3
  <2> QED
    BY <1>1, <2>2, <2>3, <2>4, <2>5 DEF IInv, BuildingInv
<1> QED
  BY <1>1, <1>2, <1>3, QuietStep DEF IInv, Parsing

LEMMA AddPointStep == ASSUME IInv, AddPoint PROVE IInv'
<1>1. /\ pc = "point" /\ p <= Len(ModelElement.points) /\ ModelElement.points[p] = ""
      /\ data' = Append(data, p) /\ p' = p + 1 /\ pc' = "point"
      /\ UNCHANGED <<upload, d, m, device, devices, result, dr_fails, response, rc, printed,
                     status>>
  BY DEF AddPoint, AtPoint
<1>2. CursorInv'
  <2>1. m' \in Nat \ {0} /\ p' \in Nat \ {0}
    <3>1. m \in Nat \ {0} /\ p \in Nat \ {0}
      BY CursorFacts
    <3>2. m' \in {1, m, m + 1} /\ p' \in {1, p, p + 1}
      BY <1>1
    <3> QED
      BY <3>1, <3>2
  <2>2. d <= Len(upload.devices)
    BY <1>1 DEF IInv, CursorInv
  <2> QED
    BY <1>1, <2>1, <2>2, CursorStep DEF Parsing
<1>3. BuildingInv'
  <2>1. p \in Nat \ {0} /\ Len(ModelElement.points) \in Nat
    BY <1>1, CursorFacts
  <2>11. /\ p' = p + 1 /\ p <= Len(ModelElement.points)
         /\ data' = Append(data, p) /\ ModelElement.points[p] = ""
    BY <1>1
  <2>12. p' = p + 1 /\ p <= Len(ModelElement.points)
    BY <2>11
  <2>2. Element' = Element /\ ModelElement' = ModelElement
    BY <1>1 DEF Element, ModelElement
  <2>3. data \in Seq(Nat) /\ Len(data) = p - 1
    BY <1>1 DEF IInv, BuildingInv
  <2>4. \A k \in 1 .. p - 1 : data[k] = k
    BY <1>1 DEF IInv, BuildingInv
  <2>5. \A k \in 1 .. p - 1 : ModelElement.points[k] = ""
    BY <1>1 DEF IInv, BuildingInv
  <2>6. 1 .. p' - 1 = (1 .. p - 1) \union {p}
    BY <2>1, <2>12
  <2>7. /\ data' \in Seq(Nat) /\ Len(data') = p' - 1 /\ data'[p] = p
        /\ \A k \in 1 .. p - 1 : data'[k] = data[k]
    <3>1. p \in Nat /\ data' = Append(data, p)
      BY <2>1, <2>11
    <3>2. /\ Len(data') = Len(data) + 1 /\ data' \in Seq(Nat)
          /\ data'[Len(data) + 1] = p
          /\ \A k \in 1 .. Len(data) : data'[k] = data[k]
      BY <2>3, <3>1
    <3>3. Len(data) + 1 = p /\ p' - 1 = p
      BY <2>1, <2>3, <2>12
    <3> QED
      BY <2>3, <3>2, <3>3
  <2>8. \A k \in 1 .. p' - 1 : data'[k] = k
    BY <2>4, <2>6, <2>7
  <2>9. \A k \in 1 .. p' - 1 : ModelElement.points[k] = ""
    BY <2>5, <2>6, <2>11
  <2>10. p' <= Len(ModelElement.points) + 1
    BY <2>1, <2>12
  <2> QED
    BY <1>1, <2>2, <2>7, <2>8, <2>9, <2>10 DEF IInv, BuildingInv
<1> QED
  BY <1>1, <1>2, <1>3, QuietStep DEF IInv, Parsing

LEMMA EndModelStep == ASSUME IInv, EndModel PROVE IInv'
<1>1. /\ pc = "point" /\ p > Len(ModelElement.points)
      /\ device' = Append(device, [model |-> m, values |-> data])
      /\ m' = m + 1 /\ pc' = "model"
      /\ UNCHANGED <<upload, d, p, data, devices, result, dr_fails, response, rc, printed,
                     status>>
  BY DEF EndModel
<1>2. CursorInv'
  <2>1. m' \in Nat \ {0} /\ p' \in Nat \ {0}
    <3>1. m \in Nat \ {0} /\ p \in Nat \ {0}
      BY CursorFacts
    <3>2. m' \in {1, m, m + 1} /\ p' \in {1, p, p + 1}
      BY <1>1
    <3> QED
      BY <3>1, <3>2
  <2>2. d <= Len(upload.devices)
    BY <1>1 DEF IInv, CursorInv
  <2> QED
    BY <1>1, <2>1, <2>2, CursorStep DEF Parsing
<1>3. BuildingInv'
  <2>1. /\ p \in Nat \ {0} /\ m \in Nat \ {0} /\ m \in 1 .. Len(Element.models)
        /\ Len(Element.models) \in Nat /\ Len(ModelElement.points) \in Nat
    BY <1>1, CursorFacts
  <2>2. Element' = Element
    BY <1>1 DEF Element
  <2>3. /\ data \in Seq(Nat) /\ Len(data) = p - 1
        /\ p <= Len(ModelElement.points) + 1
    BY <1>1 DEF IInv, BuildingInv
  <2>12. \A k \in 1 .. p - 1 : data[k] = k
    BY <1>1 DEF IInv, BuildingInv
  <2>13. \A k \in 1 .. p - 1 : ModelElement.points[k] = ""
    BY <1>1 DEF IInv, BuildingInv
  <2>14. Element.fault = "" /\ ModelElement.fault = ""
    BY <1>1 DEF IInv, BuildingInv
  <2>15. device \in Seq([model : Nat, values : Seq(Nat)]) /\ Len(device) = m - 1
    BY <1>1 DEF IInv, BuildingInv
  <2>16. \A k \in 1 .. m - 1 :
            GoodModel(Element.models[k]) /\ device[k] = DatasetOf(Element, k)
    BY <1>1 DEF IInv, BuildingInv
  <2>4. p - 1 = Len(ModelElement.points)
    <3>1. p > Len(ModelElement.points) /\ p <= Len(ModelElement.points) + 1
      BY <1>1, <2>3
    <3> QED
      BY <2>1, <3>1
  <2>5. GoodModel(Element.models[m])
    BY <2>13, <2>14, <2>4 DEF GoodModel, ModelElement
  <2>6. data = [j \in 1 .. Len(ModelElement.points) |-> j]
    <3>1. data \in [1 .. Len(data) -> Nat]
      BY <2>3
    <3> QED
      BY <2>3, <2>4, <2>12, <3>1
  <2>7. [model |-> m, values |-> data] = DatasetOf(Element, m)
    BY <2>6 DEF DatasetOf, ModelElement
  <2>8. /\ device' \in Seq([model : Nat, values : Seq(Nat)])
        /\ Len(device') = m' - 1
        /\ \A k \in 1 .. m - 1 : device'[k] = device[k]
        /\ device'[m] = [model |-> m, values |-> data]
    <3> DEFINE dataset == [model |-> m, values |-> data]
    <3>1. dataset \in [model : Nat, values : Seq(Nat)]
      BY <2>1, <2>3
    <3>2. device' = Append(device, dataset)
      BY <1>1
    <3> HIDE DEF dataset
    <3>3. /\ Len(device') = Len(device) + 1
          /\ device' \in Seq([model : Nat, values : Seq(Nat)])
          /\ device'[Len(device) + 1] = dataset
          /\ \A k \in 1 .. Len(device) : device'[k] = device[k]
      BY <2>15, <3>1, <3>2
    <3>4. m' - 1 = Len(device) + 1 /\ m = Len(device) + 1
      BY <1>1, <2>1, <2>15
    <3> QED
      BY <2>15, <3>3, <3>4 DEF dataset
  <2>17. 1 .. m' - 1 = (1 .. m - 1) \union {m}
    BY <1>1, <2>1
  <2>9. \A k \in 1 .. m' - 1 :
           GoodModel(Element.models[k]) /\ device'[k] = DatasetOf(Element, k)
    BY <2>5, <2>7, <2>8, <2>16, <2>17
  <2>10. m' <= Len(Element.models) + 1
    BY <1>1, <2>1
  <2>11. data' \in Seq(Nat) /\ pc' = "model" /\ Element.fault = ""
    BY <1>1, <2>3, <2>14
  <2> QED
    BY <2>2, <2>8, <2>9, <2>10, <2>11 DEF BuildingInv
<1> QED
  BY <1>1, <1>2, <1>3, QuietStep DEF IInv, Parsing

LEMMA RejectDeviceStep == ASSUME IInv, RejectDevice PROVE IInv'
<1>1. /\ pc = "device" /\ d <= Len(upload.devices) /\ Element.fault # ""
      /\ FailDevice("UNDEF", "INVALID_MESSAGE")
  BY DEF RejectDevice, AtDevice
<1>2. ~Good(Element)
  BY <1>1 DEF Good
<1> QED
  BY <1>1, <1>2, FailStep DEF Parsing

LEMMA RejectModelStep == ASSUME IInv, RejectModel PROVE IInv'
<1>1. pc = "model" /\ m <= Len(Element.models) /\ ModelElement.fault # ""
  BY DEF RejectModel, AtModel
<1>2. ~Good(Element)
  <2>1. m \in Nat \ {0} /\ Len(Element.models) \in Nat
    BY <1>1, CursorFacts
  <2>2. m <= Len(Element.models)
    BY <1>1
  <2>3. m \in 1 .. Len(Element.models)
    BY <2>1, <2>2
  <2> QED
    BY <1>1, <2>3 DEF Good, ModelElement
<1>3. d <= Len(upload.devices)
  BY <1>1 DEF IInv, CursorInv
<1>4. CASE ModelElement.fault = "did"
  <2>1. FailDevice("FAILURE", "UNKNOWN_DEVICE")
    BY <1>4 DEF RejectModel
  <2> QED
    BY <1>1, <1>2, <1>3, <2>1, FailStep DEF Parsing
<1>5. CASE ModelElement.fault # "did"
  <2>1. FailDevice("FAILURE", "INVALID_MESSAGE")
    BY <1>5 DEF RejectModel
  <2> QED
    BY <1>1, <1>2, <1>3, <2>1, FailStep DEF Parsing
<1> QED
  BY <1>4, <1>5

LEMMA RejectPointStep == ASSUME IInv, RejectPoint PROVE IInv'
<1>1. /\ pc = "point" /\ p <= Len(ModelElement.points) /\ ModelElement.points[p] # ""
      /\ FailDevice("FAILURE", "INVALID_MESSAGE")
  BY DEF RejectPoint, AtPoint
<1>2. ~Good(Element)
  <2>1. m \in 1 .. Len(Element.models)
    BY <1>1, CursorFacts
  <2>2. p \in Nat \ {0} /\ Len(ModelElement.points) \in Nat
    BY <1>1, CursorFacts
  <2>3. p <= Len(ModelElement.points)
    BY <1>1
  <2>4. p \in 1 .. Len(ModelElement.points)
    BY <2>2, <2>3
  <2> QED
    BY <1>1, <2>1, <2>4 DEF Good, ModelElement
<1>3. d <= Len(upload.devices)
  BY <1>1 DEF IInv, CursorInv
<1> QED
  BY <1>1, <1>2, <1>3, FailStep DEF Parsing

LEMMA EndDeviceStep == ASSUME IInv, EndDevice PROVE IInv'
<1> DEFINE record == [element |-> d, datasets |-> device]
<1>1. /\ pc = "model" /\ m > Len(Element.models)
      /\ devices' = Append(devices, record)
      /\ d' = d + 1 /\ pc' = "device"
      /\ UNCHANGED <<upload, m, p, device, data, result, dr_fails, response, rc, printed, status>>
  BY DEF EndDevice, building
<1>2. /\ upload \in Uploads /\ upload.fault = "" /\ d <= Len(upload.devices)
  <2>1. pc = "model"
    BY <1>1
  <2> QED
    BY <2>1 DEF IInv, CursorInv, Parsing
<1>3. /\ d \in Nat \ {0} /\ m \in Nat \ {0} /\ p \in Nat \ {0}
      /\ Len(upload.devices) \in Nat
  BY CursorFacts
<1>4. d \in 1 .. Len(upload.devices) /\ Len(Element.models) \in Nat
  BY <1>1, CursorFacts
<1>5. CursorInv'
  <2>1. d' = d + 1
    BY <1>1
  <2>2. d' \in Nat \ {0} /\ d' <= Len(upload.devices) + 1
    BY <1>3, <1>4, <2>1
  <2>3. m' \in Nat \ {0} /\ p' \in Nat \ {0}
    BY <1>1, <1>3
  <2>4. upload' \in Uploads /\ pc' = "device" /\ upload'.fault = "" /\ upload' = upload
    BY <1>1, <1>2
  <2> QED
    BY <2>2, <2>3, <2>4 DEF CursorInv, Parsing
<1>6. BuildingInv'
  BY <1>1 DEF IInv, BuildingInv
<1>7. m - 1 = Len(Element.models)
  <2>1. m > Len(Element.models)
    BY <1>1
  <2>2. m <= Len(Element.models) + 1
    BY <1>1 DEF IInv, BuildingInv
  <2> QED
    BY <1>3, <1>4, <2>1, <2>2
<1>8. /\ Good(Element)
      /\ device = [k \in 1 .. Len(Element.models) |-> DatasetOf(Element, k)]
  <2>1. /\ Element.fault = ""
        /\ \A k \in 1 .. Len(Element.models) : GoodModel(Element.models[k])
    BY <1>1, <1>7 DEF IInv, BuildingInv
  <2>2. \A k \in 1 .. Len(Element.models) : device[k] = DatasetOf(Element, k)
    BY <1>1, <1>7 DEF IInv, BuildingInv
  <2>3. device \in Seq([model : Nat, values : Seq(Nat)]) /\ Len(device) = Len(Element.models)
    BY <1>1, <1>7 DEF IInv, BuildingInv
  <2>4. device \in [1 .. Len(device) -> [model : Nat, values : Seq(Nat)]]
    BY <2>3, LenProperties
  <2> QED
    BY <2>1, <2>2, <2>3, <2>4, GoodDevice
<1>9. DecidedInv'
  <2>1. record \in Devices /\ devices \in Seq(Devices)
    <3>1. d \in Nat /\ device \in Seq([model : Nat, values : Seq(Nat)])
      BY <1>3 DEF IInv, BuildingInv
    <3>2. record \in Devices
      BY <3>1 DEF Devices
    <3> QED
      BY <3>2 DEF IInv, DecidedInv
  <2>2. Passed = d - 1 /\ Passed' = d
    <3>1. d' - 1 = d
      BY <1>1, <1>3
    <3> QED
      BY <1>1, <3>1 DEF Passed, Parsing
  <2>3. \A e \in ElementsOf(devices) : e < record.element
    BY <1>3, <2>2 DEF IInv, DecidedInv
  <2>4. /\ ElementsOf(devices') = ElementsOf(devices) \union {d}
        /\ Ascending(devices') /\ devices' \in Seq(Devices)
    BY <1>1, <2>1, <2>3, AppendedElement DEF IInv, DecidedInv
  <2>5. 1 .. d = (1 .. d - 1) \union {d}
    BY <1>3
  <2>6. Good(upload.devices[d])
    BY <1>8 DEF Element
  <2>7. /\ ElementsOf(devices') = {k \in 1 .. d : Good(upload.devices[k])}
        /\ ElementsOf(dr_fails) = {k \in 1 .. d : ~Good(upload.devices[k])}
    BY <2>2, <2>4, <2>5, <2>6 DEF IInv, DecidedInv
  <2>8. /\ ElementsOf(devices)' = ElementsOf(devices')
        /\ ElementsOf(dr_fails)' = ElementsOf(dr_fails)
        /\ Ascending(devices)' = Ascending(devices')
        /\ Ascending(dr_fails)' = Ascending(dr_fails)
    BY <1>1 DEF ElementsOf, Ascending
  <2>9. DevicesComplete'
    <3>1. /\ Len(devices') = Len(devices) + 1 /\ Len(devices) \in Nat
          /\ devices'[Len(devices) + 1] = record
          /\ \A n \in 1 .. Len(devices) : devices'[n] = devices[n]
      BY <1>1, <2>1
    <3>2. 1 .. Len(devices') = (1 .. Len(devices)) \union {Len(devices) + 1}
      BY <3>1
    <3>3. record.datasets = [k \in 1 .. Len(upload.devices[record.element].models) |->
             DatasetOf(upload.devices[record.element], k)]
      BY <1>8 DEF Element
    <3>4. \A n \in 1 .. Len(devices) :
             devices[n].datasets = [k \in 1 .. Len(upload.devices[devices[n].element].models) |->
                DatasetOf(upload.devices[devices[n].element], k)]
      BY DEF IInv, DecidedInv, DevicesComplete, DatasetOf
    <3> HIDE DEF record
    <3>5. \A n \in 1 .. Len(devices') :
             devices'[n].datasets = [k \in 1 .. Len(upload.devices[devices'[n].element].models) |->
                DatasetOf(upload.devices[devices'[n].element], k)]
      BY <3>1, <3>2, <3>3, <3>4
    <3>6. upload' = upload
      BY <1>1
    <3> QED
      BY <3>5, <3>6 DEF DevicesComplete, DatasetOf
  <2>10. dr_fails' \in Seq(Fails) /\ dr_fails' = dr_fails /\ upload' = upload
    BY <1>1 DEF IInv, DecidedInv
  <2>11. Ascending(dr_fails)
    BY DEF IInv, DecidedInv
  <2> QED
    BY <2>2, <2>4, <2>7, <2>8, <2>9, <2>10, <2>11 DEF DecidedInv
<1>10. ResultInv' /\ ResponseInv' /\ EndInv'
  <2>1. /\ result.status = IF dr_fails = <<>> THEN "SUCCESS" ELSE "DR_FAILURE"
        /\ result \in [status : Statuses, code : Codes] /\ rc \in {-1, 0}
    BY <1>1, <1>2 DEF IInv, ResultInv
  <2> QED
    BY <1>1, <1>2, <2>1, ParsingStep DEF Parsing
<1> QED
  BY <1>5, <1>6, <1>9, <1>10 DEF IInv

-----------------------------------------------------------------------------
\* Steps outside the parser's loops

\* A step that keeps the lists of devices, and the upload.
LEMMA ListsKept ==
    ASSUME IInv, UNCHANGED <<upload, m, p, device, data>>, d' \in Nat \ {0},
           pc' \in Answered
    PROVE  CursorInv' /\ BuildingInv'
<1>1. CursorInv'
  <2>1. upload \in Uploads /\ m \in Nat \ {0} /\ p \in Nat \ {0}
    BY DEF IInv, CursorInv
  <2> QED
    BY <2>1 DEF CursorInv, Answered, Parsing
<1>2. BuildingInv'
  BY DEF IInv, BuildingInv, Answered
<1> QED
  BY <1>1, <1>2

LEMMA RejectUploadStep == ASSUME IInv, RejectUpload PROVE IInv'
<1>1. /\ pc = "root" /\ upload.fault # "" /\ rc' = -1 /\ pc' = "respond"
      /\ result' = [status |-> "FAILURE", code |-> "INVALID_MESSAGE"]
      /\ UNCHANGED <<upload, d, m, p, device, data, devices, dr_fails, response, printed,
                     status>>
  BY DEF RejectUpload, cursors, building
<1>2. CursorInv' /\ BuildingInv'
  <2>1. d \in Nat \ {0}
    BY CursorFacts
  <2> QED
    BY <1>1, <2>1, ListsKept DEF Answered
<1>3. DecidedInv'
  <2>1. Passed' = Passed
    BY <1>1 DEF Passed, Parsing
  <2> QED
    BY <1>1, <2>1, DecidedUnchanged
<1>4. ResultInv'
  BY <1>1 DEF ResultInv, Statuses, Codes
<1>5. ResponseInv' /\ EndInv'
  BY <1>1 DEF IInv, ResponseInv, EndInv
<1> QED
  BY <1>2, <1>3, <1>4, <1>5 DEF IInv

LEMMA AcceptRootStep == ASSUME IInv, AcceptRoot PROVE IInv'
<1>1. /\ pc = "root" /\ upload.fault = "" /\ pc' = "device"
      /\ result' = [result EXCEPT !.status = "SUCCESS"]
      /\ UNCHANGED <<upload, d, m, p, device, data, devices, dr_fails, response, rc, printed,
                     status>>
  BY DEF AcceptRoot, cursors, building
<1>2. d = 1 /\ Len(upload.devices) \in Nat
  BY <1>1, CursorFacts DEF IInv, CursorInv
<1>3. CursorInv'
  <2>1. upload \in Uploads /\ m \in Nat \ {0} /\ p \in Nat \ {0}
    BY DEF IInv, CursorInv
  <2>2. d <= Len(upload.devices) + 1 /\ d \in Nat \ {0}
    BY <1>2
  <2> QED
    BY <1>1, <2>1, <2>2 DEF CursorInv, Parsing
<1>4. BuildingInv'
  BY <1>1 DEF IInv, BuildingInv
<1>5. Passed = 0 /\ Passed' = 0
  <2>1. d' = 1
    BY <1>1, <1>2
  <2>2. d' - 1 = 0
    BY <2>1
  <2> QED
    BY <1>1, <2>2 DEF Passed, Parsing
<1>6. DecidedInv'
  BY <1>1, <1>5, DecidedUnchanged
<1>7. dr_fails = <<>>
  <2>1. dr_fails \in Seq(Fails) /\ ElementsOf(dr_fails) = {}
    BY <1>5 DEF IInv, DecidedInv
  <2>2. Len(dr_fails) \in Nat
    BY <2>1
  <2>3. ASSUME Len(dr_fails) # 0 PROVE FALSE
    <3>1. 1 \in 1 .. Len(dr_fails)
      BY <2>2, <2>3
    <3>2. dr_fails[1].element \in ElementsOf(dr_fails)
      BY <3>1 DEF ElementsOf
    <3> QED
      BY <2>1, <3>2
  <2> QED
    BY <2>1, <2>3
<1>8. ResultInv' /\ ResponseInv' /\ EndInv'
  <2>1. /\ result'.status = "SUCCESS" /\ result' \in [status : Statuses, code : Codes]
        /\ rc \in {-1, 0}
    BY <1>1 DEF IInv, ResultInv, Statuses
  <2> QED
    BY <1>1, <1>7, <2>1, ParsingStep DEF Parsing
<1> QED
  BY <1>3, <1>4, <1>6, <1>8 DEF IInv

LEMMA EndUploadStep == ASSUME IInv, EndUpload PROVE IInv'
<1>1. /\ pc = "device" /\ d > Len(upload.devices) /\ pc' = "respond"
      /\ UNCHANGED <<upload, d, m, p, device, data, devices, result, dr_fails, response, rc,
                     printed, status>>
  BY DEF EndUpload, cursors, building
<1>2. d \in Nat \ {0} /\ Len(upload.devices) \in Nat
  BY CursorFacts
<1>3. CursorInv' /\ BuildingInv'
  BY <1>1, <1>2, ListsKept DEF Answered
<1>4. upload.fault = "" /\ d <= Len(upload.devices) + 1
  BY <1>1 DEF IInv, CursorInv, Parsing
<1>5. d - 1 = Len(upload.devices)
  <2>1. d > Len(upload.devices) /\ d <= Len(upload.devices) + 1
    BY <1>1, <1>4
  <2> QED
    BY <1>2, <2>1
<1>6. DecidedInv'
  <2>1. Passed' = Passed
    BY <1>1, <1>4, <1>5 DEF Passed, Parsing
  <2> QED
    BY <1>1, <2>1, DecidedUnchanged
<1>7. ResultInv'
  BY <1>1 DEF IInv, ResultInv
<1>8. ResponseInv' /\ EndInv'
  BY <1>1 DEF IInv, ResponseInv, EndInv
<1> QED
  BY <1>3, <1>6, <1>7, <1>8 DEF IInv

\* After the parse the decisions stand.
LEMMA AnsweredStep ==
    ASSUME IInv, pc \in Answered, pc' \in Answered, d' \in Nat \ {0},
           UNCHANGED <<upload, m, p, device, data, devices, result, dr_fails>>,
           rc' \in {-1, 0}
    PROVE  CursorInv' /\ BuildingInv' /\ DecidedInv' /\ ResultInv'
<1>1. CursorInv' /\ BuildingInv'
  BY ListsKept
<1>2. DecidedInv'
  <2>1. Passed' = Passed
    BY DEF Passed, Answered, Parsing
  <2> QED
    BY <2>1, DecidedUnchanged
<1>3. ResultInv'
  BY DEF IInv, ResultInv, Answered
<1> QED
  BY <1>1, <1>2, <1>3

LEMMA Singleton ==
    ASSUME NEW S, NEW x \in S
    PROVE  <<x>> \in Seq(S) /\ Len(<<x>>) = 1 /\ <<x>>[1] = x
  OBVIOUS

LEMMA RespondStep == ASSUME IInv, Respond PROVE IInv'
<1> DEFINE first == [kind |-> "status", status |-> result.status]
           why   == [kind |-> "detail", code |-> result.code]
<1>1. /\ pc = "respond" /\ rc' = 0 /\ d' = 1
      /\ response' = <<first>> \o (IF result.status = "FAILURE" THEN <<why>> ELSE <<>>)
      /\ pc' = IF result.status = "DR_FAILURE" THEN "results" ELSE "output"
      /\ UNCHANGED <<upload, m, p, device, data, devices, result, dr_fails, printed, status>>
  BY DEF Respond, building
<1>2. CursorInv' /\ BuildingInv' /\ DecidedInv' /\ ResultInv'
  <2>1. d' \in Nat \ {0} /\ rc' \in {-1, 0}
    BY <1>1
  <2> QED
    BY <1>1, <2>1, AnsweredStep DEF Answered
<1>3. /\ first \in ResponseElements /\ why \in ResponseElements
      /\ result.status = IF upload.fault # "" THEN "FAILURE"
                         ELSE IF dr_fails = <<>> THEN "SUCCESS" ELSE "DR_FAILURE"
  BY <1>1 DEF IInv, ResultInv, ResponseElements
<1>4. first.kind = "status" /\ first.status = result.status
  OBVIOUS
<1> HIDE DEF first, why
<1>5. /\ response' \in Seq(ResponseElements) /\ response'[1] = first
      /\ Len(response') >= 1
      /\ result.status # "FAILURE" => Len(response') = 1
  <2>1. CASE result.status = "FAILURE"
    <3>1. response' = <<first>> \o <<why>>
      BY <1>1, <2>1
    <3>2. /\ <<first>> \in Seq(ResponseElements) /\ <<why>> \in Seq(ResponseElements)
          /\ Len(<<first>>) = 1 /\ Len(<<why>>) = 1 /\ <<first>>[1] = first
      BY <1>3, Singleton
    <3>3. /\ response' \in Seq(ResponseElements)
          /\ Len(response') = Len(<<first>>) + Len(<<why>>)
          /\ \A i \in 1 .. Len(<<first>>) + Len(<<why>>) :
                response'[i] = IF i <= Len(<<first>>) THEN <<first>>[i]
                               ELSE <<why>>[i - Len(<<first>>)]
      BY <3>1, <3>2, ConcatProperties
    <3>4. Len(response') = 2 /\ 1 \in 1 .. 2 /\ 1 <= 1 /\ 2 >= 1
      BY <3>2, <3>3
    <3>5. response'[1] = first
      BY <3>2, <3>3, <3>4
    <3> QED
      BY <2>1, <3>3, <3>4, <3>5
  <2>2. CASE result.status # "FAILURE"
    <3>1. response' = <<first>> \o <<>>
      BY <1>1, <2>2
    <3>2. <<first>> \in Seq(ResponseElements) /\ Len(<<first>>) = 1 /\ <<first>>[1] = first
      BY <1>3, Singleton
    <3>3. response' = <<first>>
      BY <3>1, <3>2, ConcatEmptySeq
    <3>4. Len(response') = 1
      BY <3>2, <3>3
    <3>5. Len(response') >= 1
      BY <3>4
    <3> QED
      BY <3>2, <3>3, <3>4, <3>5
  <2> QED
    BY <2>1, <2>2
<1>6. ASSUME upload.fault = "" PROVE Len(response') = 1
  BY <1>3, <1>5, <1>6
<1>7. ResponseInv'
  <2>1. CASE pc' = "results"
    <3>1. result.status = "DR_FAILURE"
      BY <1>1, <2>1
    <3>2. upload.fault = "" /\ dr_fails # <<>>
      BY <1>3, <3>1
    <3>3. Len(dr_fails) \in Nat /\ d' = 1 /\ d' <= Len(dr_fails) + 1
      BY <1>1 DEF IInv, DecidedInv
    <3>5. d' - 1 = 0 /\ 2 * 0 + 1 = 1 /\ 1 .. 0 = {}
      BY <3>3
    <3>4. Lists(d - 1)'
      BY <1>6, <3>2, <3>5 DEF Lists
    <3> QED
      BY <1>1, <1>4, <1>5, <2>1, <3>2, <3>3, <3>4 DEF ResponseInv
  <2>2. CASE pc' = "output"
    <3>1. ASSUME upload.fault = "" PROVE Lists(Len(dr_fails))'
      <4>1. result.status # "DR_FAILURE"
        BY <1>1, <2>2
      <4>2. dr_fails' = <<>>
        BY <1>1, <1>3, <3>1, <4>1
      <4>3. Len(dr_fails') = 0 /\ 2 * 0 + 1 = 1 /\ 1 .. 0 = {}
        BY <4>2
      <4> QED
        BY <1>6, <3>1, <4>3 DEF Lists
    <3> QED
      BY <1>1, <1>4, <1>5, <2>2, <3>1 DEF ResponseInv
  <2> QED
    BY <1>1, <2>1, <2>2
<1>8. EndInv'
  BY <1>1 DEF IInv, EndInv
<1> QED
  BY <1>2, <1>7, <1>8 DEF IInv

\* A pair of elements at the end of a sequence.
LEMMA AppendedPair ==
    ASSUME NEW S, NEW s \in Seq(S), NEW x \in S, NEW y \in S
    PROVE  /\ s \o <<x, y>> \in Seq(S)
           /\ Len(s \o <<x, y>>) = Len(s) + 2
           /\ \A i \in 1 .. Len(s) : (s \o <<x, y>>)[i] = s[i]
           /\ (s \o <<x, y>>)[Len(s) + 1] = x
           /\ (s \o <<x, y>>)[Len(s) + 2] = y
<1>1. /\ <<x, y>> \in Seq(S) /\ Len(<<x, y>>) = 2
      /\ <<x, y>>[1] = x /\ <<x, y>>[2] = y
  OBVIOUS
<1>2. Len(s) \in Nat
  OBVIOUS
<1> DEFINE t == <<x, y>>
<1>3. /\ s \o t \in Seq(S) /\ Len(s \o t) = Len(s) + Len(t)
      /\ \A i \in 1 .. Len(s) + Len(t) :
            (s \o t)[i] = IF i <= Len(s) THEN s[i] ELSE t[i - Len(s)]
  BY <1>1, ConcatProperties
<1>4. t \in Seq(S) /\ Len(t) = 2 /\ t[1] = x /\ t[2] = y
  BY <1>1
<1> HIDE DEF t
<1>5. /\ s \o t \in Seq(S)
      /\ Len(s \o t) = Len(s) + 2
      /\ \A i \in 1 .. Len(s) : (s \o t)[i] = s[i]
      /\ (s \o t)[Len(s) + 1] = x
      /\ (s \o t)[Len(s) + 2] = y
  BY <1>2, <1>3, <1>4
<1> QED
  BY <1>5 DEF t

LEMMA AddResultStep == ASSUME IInv, AddResult PROVE IInv'
<1> DEFINE detail == [kind |-> "detail", code |-> dr_fails[d].code]
<1>1. /\ pc = "results" /\ d <= Len(dr_fails) /\ response' = response \o <<DResult, detail>>
      /\ rc' = 0 /\ d' = d + 1 /\ pc' = "results"
      /\ UNCHANGED <<upload, m, p, device, data, devices, result, dr_fails, printed, status>>
  BY DEF AddResult, building
<1>2. d \in Nat \ {0} /\ Len(dr_fails) \in Nat /\ dr_fails \in Seq(Fails)
  BY CursorFacts DEF IInv, DecidedInv
<1>3. d' = d + 1 /\ d <= Len(dr_fails)
  BY <1>1
<1>4. d \in 1 .. Len(dr_fails) /\ d' \in Nat \ {0}
  BY <1>2, <1>3
<1>5. CursorInv' /\ BuildingInv' /\ DecidedInv' /\ ResultInv'
  <2>1. rc' \in {-1, 0}
    BY <1>1
  <2> QED
    BY <1>1, <1>4, <2>1, AnsweredStep DEF Answered
<1>6. ResponseInv'
  <2>1. DResult \in ResponseElements /\ detail \in ResponseElements
    <3>1. dr_fails[d] \in Fails
      BY <1>2, <1>4
    <3> QED
      BY <3>1 DEF DResult, Fails, ResponseElements, Statuses, Codes
  <2>2. /\ response \in Seq(ResponseElements) /\ Len(response) >= 1
        /\ response[1].kind = "status" /\ response[1].status = result.status
        /\ upload.fault = "" /\ dr_fails # <<>>
    BY <1>1 DEF IInv, ResponseInv
  <2>3. /\ Len(response) = 2 * (d - 1) + 1
        /\ \A k \in 1 .. d - 1 :
              /\ response[2 * k].kind = "dResult"
              /\ response[2 * k].element = dr_fails[k].element
              /\ response[2 * k + 1].kind = "detail"
    BY <1>1 DEF IInv, ResponseInv, Lists
  <2>4. /\ DResult.kind = "dResult" /\ DResult.element = dr_fails[d].element
        /\ detail.kind = "detail"
    BY DEF DResult
  <2> HIDE DEF detail
  <2>14. response' = response \o <<DResult, detail>> /\ response \in Seq(ResponseElements)
    BY <1>1, <2>2
  <2>5. /\ response' \in Seq(ResponseElements) /\ Len(response') = Len(response) + 2
        /\ \A i \in 1 .. Len(response) : response'[i] = response[i]
        /\ response'[Len(response) + 1] = DResult
        /\ response'[Len(response) + 2] = detail
    BY <2>1, <2>14, AppendedPair
  <2>6. /\ Len(response) + 1 = 2 * d /\ Len(response) + 2 = 2 * d + 1
        /\ Len(response') = 2 * (d' - 1) + 1
    BY <1>2, <1>3, <2>3, <2>5
  <2>7. \A k \in 1 .. d - 1 : 2 * k \in 1 .. Len(response) /\ 2 * k + 1 \in 1 .. Len(response)
    BY <1>2, <2>3
  <2>8. 1 \in 1 .. Len(response)
    BY <1>2, <2>3
  <2>9. \A k \in 1 .. d - 1 :
           /\ response'[2 * k].kind = "dResult"
           /\ response'[2 * k].element = dr_fails[k].element
           /\ response'[2 * k + 1].kind = "detail"
    BY <2>3, <2>5, <2>7
  <2>10. 1 .. d' - 1 = (1 .. d - 1) \union {d}
    BY <1>2, <1>3
  <2>11. Lists(d - 1)'
    <3>1. /\ response'[2 * d].kind = "dResult"
          /\ response'[2 * d].element = dr_fails[d].element
          /\ response'[2 * d + 1].kind = "detail"
      BY <2>4, <2>5, <2>6
    <3>2. \A k \in 1 .. d' - 1 :
             /\ response'[2 * k].kind = "dResult"
             /\ response'[2 * k].element = dr_fails[k].element
             /\ response'[2 * k + 1].kind = "detail"
      BY <2>9, <2>10, <3>1
    <3>3. dr_fails' = dr_fails
      BY <1>1
    <3> QED
      BY <2>6, <3>2, <3>3 DEF Lists
  <2>12. Len(response') >= 1 /\ d' <= Len(dr_fails) + 1
    BY <1>2, <1>3, <2>6
  <2>13. response'[1].kind = "status" /\ response'[1].status = result.status
    BY <2>2, <2>5, <2>8
  <2> QED
    BY <1>1, <2>2, <2>5, <2>11, <2>12, <2>13 DEF ResponseInv
<1>7. EndInv'
  BY <1>1 DEF IInv, EndInv
<1> QED
  BY <1>5, <1>6, <1>7 DEF IInv

LEMMA CutResultsStep == ASSUME IInv, CutResults PROVE IInv'
<1>1. /\ pc = "results" /\ d <= Len(dr_fails) /\ response' = Append(response, DResult)
      /\ rc' = -1 /\ pc' = "output"
      /\ UNCHANGED <<upload, d, m, p, device, data, devices, result, dr_fails, printed, status>>
  BY DEF CutResults, cursors, building
<1>2. d \in Nat \ {0} /\ Len(dr_fails) \in Nat /\ dr_fails \in Seq(Fails)
  BY CursorFacts DEF IInv, DecidedInv
<1>3. d <= Len(dr_fails)
  BY <1>1
<1>4. d \in 1 .. Len(dr_fails)
  BY <1>2, <1>3
<1>5. CursorInv' /\ BuildingInv' /\ DecidedInv' /\ ResultInv'
  <2>1. rc' \in {-1, 0}
    BY <1>1
  <2> QED
    BY <1>1, <1>2, <2>1, AnsweredStep DEF Answered
<1>6. ResponseInv'
  <2>1. DResult \in ResponseElements
    <3>1. dr_fails[d] \in Fails
      BY <1>2, <1>4
    <3> QED
      BY <3>1 DEF DResult, Fails, ResponseElements, Statuses
  <2>2. /\ response \in Seq(ResponseElements) /\ Len(response) >= 1
        /\ response[1].kind = "status" /\ response[1].status = result.status
    BY <1>1 DEF IInv, ResponseInv
  <2>3. response' = Append(response, DResult)
    BY <1>1
  <2>4. /\ response' \in Seq(ResponseElements) /\ Len(response') >= 1
        /\ response'[1] = response[1]
    BY <2>1, <2>2, <2>3
  <2>5. rc' # 0
    BY <1>1
  <2> QED
    BY <1>1, <2>2, <2>4, <2>5 DEF ResponseInv
<1>7. EndInv'
  BY <1>1 DEF IInv, EndInv
<1> QED
  BY <1>5, <1>6, <1>7 DEF IInv

LEMMA EndResultsStep == ASSUME IInv, EndResults PROVE IInv'
<1>1. /\ pc = "results" /\ d > Len(dr_fails) /\ pc' = "output"
      /\ UNCHANGED <<upload, d, m, p, device, data, devices, result, dr_fails, response, rc,
                     printed, status>>
  BY DEF EndResults, cursors, building
<1>2. d \in Nat \ {0} /\ Len(dr_fails) \in Nat
  BY CursorFacts DEF IInv, DecidedInv
<1>3. CursorInv' /\ BuildingInv' /\ DecidedInv' /\ ResultInv'
  <2>1. rc' \in {-1, 0}
    BY <1>1 DEF IInv, ResultInv
  <2> QED
    BY <1>1, <1>2, <2>1, AnsweredStep DEF Answered
<1>4. d - 1 = Len(dr_fails)
  <2>1. d > Len(dr_fails) /\ d <= Len(dr_fails) + 1
    BY <1>1 DEF IInv, ResponseInv
  <2> QED
    BY <1>2, <2>1
<1>5. ResponseInv'
  <2>1. Lists(Len(dr_fails))
    BY <1>1, <1>4 DEF IInv, ResponseInv
  <2>2. Lists(Len(dr_fails))'
    BY <1>1, <2>1 DEF Lists
  <2>3. /\ response \in Seq(ResponseElements) /\ Len(response) >= 1
        /\ response[1].kind = "status" /\ response[1].status = result.status
    BY <1>1 DEF IInv, ResponseInv
  <2> QED
    BY <1>1, <2>2, <2>3 DEF ResponseInv
<1>6. EndInv'
  BY <1>1 DEF IInv, EndInv
<1> QED
  BY <1>3, <1>5, <1>6 DEF IInv

LEMMA OutputStep == ASSUME IInv, Output PROVE IInv'
<1>1. /\ pc = "output" /\ printed' = devices /\ pc' = "exited"
      /\ status' = IF rc < 0 THEN "failure" ELSE "success"
      /\ UNCHANGED <<upload, d, m, p, device, data, devices, result, dr_fails, response, rc>>
  BY DEF Output, cursors, building
<1>2. d \in Nat \ {0} /\ rc \in {-1, 0}
  BY CursorFacts DEF IInv, ResultInv
<1>3. CursorInv' /\ BuildingInv' /\ DecidedInv' /\ ResultInv'
  BY <1>1, <1>2, AnsweredStep DEF Answered
<1>4. ResponseInv'
  <2>1. Lists(Len(dr_fails))' <=> Lists(Len(dr_fails))
    BY <1>1 DEF Lists
  <2> QED
    BY <1>1, <2>1 DEF IInv, ResponseInv
<1>5. EndInv'
  <2>1. rc = -1 => rc < 0
    OBVIOUS
  <2>2. rc = 0 => ~(rc < 0)
    OBVIOUS
  <2>3. CASE rc = -1
    BY <1>1, <2>1, <2>3 DEF EndInv
  <2>4. CASE rc = 0
    BY <1>1, <2>2, <2>4 DEF EndInv
  <2> QED
    BY <1>2, <2>3, <2>4
<1> QED
  BY <1>3, <1>4, <1>5 DEF IInv

\* A step that changes nothing.
LEMMA StutterStep == ASSUME IInv, UNCHANGED vars PROVE IInv'
<1>1. UNCHANGED <<upload, pc, d, m, p, device, data, devices, result, dr_fails, response, rc,
                  printed, status>>
  BY DEF vars, cursors, building
<1>2. CursorInv' /\ BuildingInv'
  BY <1>1 DEF IInv, CursorInv, BuildingInv, Element, ModelElement
<1>3. DecidedInv'
  <2>1. Passed' = Passed
    BY <1>1 DEF Passed
  <2> QED
    BY <1>1, <2>1, DecidedUnchanged
<1>4. ResultInv' /\ ResponseInv' /\ EndInv'
  BY <1>1 DEF IInv, ResultInv, ResponseInv, EndInv, Lists
<1> QED
  BY <1>2, <1>3, <1>4 DEF IInv

-----------------------------------------------------------------------------
\* Theorems

\* The places of the pairs that follow the first of 2 * L + 1 places.
LEMMA Pairs ==
    ASSUME NEW L \in Nat
    PROVE  /\ \A k \in 1 .. L : 2 * k \in 1 .. 2 * L + 1 /\ 2 * k < 2 * L + 1
           /\ \A n \in 1 .. 2 * L + 1 :
                 n = 1 \/ \E k \in 1 .. L : n = 2 * k \/ n = 2 * k + 1
<1>1. ASSUME NEW n \in 1 .. 2 * L + 1, n # 1
      PROVE  \E k \in 1 .. L : n = 2 * k \/ n = 2 * k + 1
  <2>1. n = 2 * (n \div 2) + (n % 2)
    OBVIOUS
  <2>2. n % 2 \in {0, 1}
    OBVIOUS
  <2>3. n \div 2 \in Nat
    OBVIOUS
  <2>4. ASSUME NEW k \in Nat, NEW r \in {0, 1}, n = 2 * k + r
        PROVE  k \in 1 .. L /\ (n = 2 * k \/ n = 2 * k + 1)
    BY <1>1, <2>4
  <2> QED
    BY <2>1, <2>2, <2>3, <2>4
<1>2. \A k \in 1 .. L : 2 * k \in 1 .. 2 * L + 1 /\ 2 * k < 2 * L + 1
  OBVIOUS
<1> QED
  BY <1>1, <1>2

LEMMA InitInvariant == Init => IInv
<1> SUFFICES ASSUME Init PROVE IInv
  OBVIOUS
<1>1. /\ upload \in Uploads /\ pc = "root" /\ d = 1 /\ m = 1 /\ p = 1
      /\ device = <<>> /\ data = <<>> /\ devices = <<>> /\ dr_fails = <<>>
      /\ response = <<>> /\ rc = 0 /\ printed = <<>> /\ status = "running"
      /\ result = [status |-> "UNDEF", code |-> "UNDEF"]
  BY DEF Init
<1>2. CursorInv
  <2>1. d \in Nat \ {0} /\ m \in Nat \ {0} /\ p \in Nat \ {0}
    BY <1>1
  <2> QED
    BY <1>1, <2>1 DEF CursorInv, Parsing
<1>3. BuildingInv
  BY <1>1 DEF BuildingInv
<1>4. DecidedInv
  <2>1. Passed = 0 /\ 1 .. 0 = {}
    BY <1>1 DEF Passed, Parsing
  <2>2. Len(devices) = 0 /\ Len(dr_fails) = 0
    BY <1>1
  <2>3. devices \in Seq(Devices) /\ dr_fails \in Seq(Fails)
    BY <1>1
  <2> QED
    BY <2>1, <2>2, <2>3 DEF DecidedInv, Ascending, ElementsOf, DevicesComplete
<1>5. ResultInv
  BY <1>1 DEF ResultInv, Statuses, Codes
<1>6. ResponseInv /\ EndInv
  BY <1>1 DEF ResponseInv, EndInv
<1> QED
  BY <1>2, <1>3, <1>4, <1>5, <1>6 DEF IInv

LEMMA NextInvariant == IInv /\ [Next]_vars => IInv'
<1> SUFFICES ASSUME IInv, [Next]_vars PROVE IInv'
  OBVIOUS
<1>1. CASE RejectUpload
  BY <1>1, RejectUploadStep
<1>2. CASE AcceptRoot
  BY <1>2, AcceptRootStep
<1>3. CASE BeginDevice
  BY <1>3, BeginDeviceStep
<1>4. CASE RejectDevice
  BY <1>4, RejectDeviceStep
<1>5. CASE EndDevice
  BY <1>5, EndDeviceStep
<1>6. CASE EndUpload
  BY <1>6, EndUploadStep
<1>7. CASE BeginModel
  BY <1>7, BeginModelStep
<1>8. CASE RejectModel
  BY <1>8, RejectModelStep
<1>9. CASE EndModel
  BY <1>9, EndModelStep
<1>10. CASE AddPoint
  BY <1>10, AddPointStep
<1>11. CASE RejectPoint
  BY <1>11, RejectPointStep
<1>12. CASE Respond
  BY <1>12, RespondStep
<1>13. CASE AddResult
  BY <1>13, AddResultStep
<1>14. CASE CutResults
  BY <1>14, CutResultsStep
<1>15. CASE EndResults
  BY <1>15, EndResultsStep
<1>16. CASE Output
  BY <1>16, OutputStep
<1>17. CASE Terminated
  BY <1>17, StutterStep DEF Terminated
<1>18. CASE UNCHANGED vars
  BY <1>18, StutterStep
<1> QED
  BY <1>1, <1>2, <1>3, <1>4, <1>5, <1>6, <1>7, <1>8, <1>9, <1>10, <1>11, <1>12, <1>13,
     <1>14, <1>15, <1>16, <1>17, <1>18 DEF Next

\* The inductive invariant holds in every reachable state.
THEOREM Invariant == Spec => []IInv
  BY InitInvariant, NextInvariant, PTL DEF Spec

\* The cursors of the parser's loops stay inside the upload, and the records
\* it makes name elements of it (suns_host_parser.c, 102-394).
THEOREM TypeCorrect == Spec => []TypeOK
<1>1. IInv => TypeOK
  <2> SUFFICES ASSUME IInv PROVE TypeOK
    OBVIOUS
  <2>1. /\ d \in Nat \ {0} /\ m \in Nat \ {0} /\ p \in Nat \ {0}
        /\ pc \in {"root", "device", "model", "point", "respond", "results", "output", "exited"}
        /\ pc \in {"model", "point"} => d <= Len(upload.devices)
    BY DEF IInv, CursorInv, Parsing, Answered
  <2>2. pc = "point" => m <= Len(Element.models)
    BY DEF IInv, BuildingInv
  <2>3. Len(upload.devices) \in Nat
    BY CursorFacts
  <2>4. \A k \in 1 .. Passed : k \in 1 .. Len(upload.devices)
    <3>1. CASE pc \in Parsing
      <4>1. d <= Len(upload.devices) + 1
        <5>1. CASE pc = "device"
          BY <5>1 DEF IInv, CursorInv
        <5>2. CASE pc # "device"
          <6>1. d <= Len(upload.devices)
            BY <2>1, <3>1, <5>2 DEF Parsing
          <6> QED
            BY <2>1, <2>3, <6>1
        <5> QED
          BY <5>1, <5>2
      <4>2. Passed = d - 1
        BY <3>1 DEF Passed
      <4> QED
        BY <2>1, <2>3, <4>1, <4>2
    <3>2. CASE pc \notin Parsing
      <4>1. Passed = 0 \/ Passed = Len(upload.devices)
        BY <3>2 DEF Passed
      <4> QED
        BY <2>3, <4>1
    <3> QED
      BY <3>1, <3>2
  <2>5. \A n \in 1 .. Len(devices) : devices[n].element \in 1 .. Len(upload.devices)
    <3>1. \A e \in ElementsOf(devices) : e \in 1 .. Len(upload.devices)
      BY <2>4 DEF IInv, DecidedInv
    <3> QED
      BY <3>1 DEF ElementsOf
  <2>6. \A n \in 1 .. Len(dr_fails) : dr_fails[n].element \in 1 .. Len(upload.devices)
    <3>1. \A e \in ElementsOf(dr_fails) : e \in 1 .. Len(upload.devices)
      BY <2>4 DEF IInv, DecidedInv
    <3> QED
      BY <3>1 DEF ElementsOf
  <2>7. \A n \in 1 .. Len(dr_fails) : dr_fails[n] \in Fails
    BY DEF IInv, DecidedInv
  <2>8. \A n \in 1 .. Len(dr_fails) :
           /\ dr_fails[n].status \in {"UNDEF", "FAILURE"}
           /\ dr_fails[n].code \in Codes \ {"UNDEF"}
    BY <2>7 DEF Fails, Codes
  <2>9. /\ result.status \in {"UNDEF", "SUCCESS", "FAILURE", "DR_FAILURE"}
        /\ result.code \in Codes /\ rc \in {-1, 0}
        /\ status \in {"running", "success", "failure"}
    BY DEF IInv, ResultInv, EndInv, Statuses
  <2> QED
    BY <2>1, <2>2, <2>5, <2>6, <2>8, <2>9 DEF TypeOK
<1> QED
  BY <1>1, Invariant, PTL

\* Of every upload that is parsed, each device is accepted or reported as
\* failed, by whether its element is good (suns_host_parser.c, 100-117).
THEOREM DevicesDecided == Spec => []EveryDeviceDecided
<1>1. IInv => EveryDeviceDecided
  BY DEF IInv, DecidedInv, EveryDeviceDecided, Passed, Parsing
<1> QED
  BY <1>1, Invariant, PTL

\* An accepted device has all the datasets and values of its element
\* (suns_host_parser.c, 188-394).
THEOREM AcceptedWhole == Spec => []DevicesComplete
<1>1. IInv => DevicesComplete
  BY DEF IInv, DecidedInv
<1> QED
  BY <1>1, Invariant, PTL

\* The response and the exit status tell the truth about the upload
\* (suns_host.c, 227-321; suns_app.c, 295-319).
THEOREM RespondsTruly == Spec => []ResponseHonest
<1>1. IInv => ResponseHonest
  <2> SUFFICES ASSUME IInv, pc = "exited", upload.fault = "" PROVE ResponseHonest
    BY DEF ResponseHonest
  <2>1. ASSUME status = "success"
        PROVE  /\ {response[n].element : n \in Listed} = ElementsOf(dr_fails)
               /\ \A n \in Listed : n < Len(response) /\ response[n + 1].kind = "detail"
    <3> DEFINE L == Len(dr_fails)
    <3>1. L \in Nat
      <4>1. dr_fails \in Seq(Fails)
        BY DEF IInv, DecidedInv
      <4> QED
        BY <4>1, LenProperties
    <3>2. /\ Len(response) = 2 * L + 1
          /\ \A k \in 1 .. L :
                /\ response[2 * k].kind = "dResult"
                /\ response[2 * k].element = dr_fails[k].element
                /\ response[2 * k + 1].kind = "detail"
      BY <2>1 DEF IInv, EndInv, ResponseInv, Lists
    <3>3. response[1].kind = "status"
      BY DEF IInv, ResponseInv
    <3> HIDE DEF L
    <3>4. /\ \A k \in 1 .. L : 2 * k \in 1 .. 2 * L + 1 /\ 2 * k < 2 * L + 1
          /\ \A n \in 1 .. 2 * L + 1 :
                n = 1 \/ \E k \in 1 .. L : n = 2 * k \/ n = 2 * k + 1
      BY <3>1, Pairs
    <3>5. \A k \in 1 .. L : 2 * k \in 1 .. 2 * L + 1 /\ 2 * k < 2 * L + 1
      BY <3>4
    <3>6. Listed = {2 * k : k \in 1 .. L}
      <4>1. ASSUME NEW n \in Listed PROVE \E k \in 1 .. L : n = 2 * k
        <5>1. n \in 1 .. 2 * L + 1 /\ response[n].kind = "dResult"
          BY <3>2 DEF Listed
        <5> QED
          BY <3>2, <3>3, <3>4, <5>1
      <4>2. ASSUME NEW k \in 1 .. L PROVE 2 * k \in Listed
        BY <3>2, <3>5 DEF Listed
      <4> QED
        BY <4>1, <4>2
    <3>7. ElementsOf(dr_fails) = {dr_fails[k].element : k \in 1 .. L}
      BY DEF ElementsOf, L
    <3>8. {response[n].element : n \in Listed} = ElementsOf(dr_fails)
      <4>1. \A k \in 1 .. L : response[2 * k].element = dr_fails[k].element
        BY <3>2
      <4>2. {response[n].element : n \in Listed} = {response[2 * k].element : k \in 1 .. L}
        BY <3>6
      <4> QED
        BY <3>7, <4>1, <4>2
    <3>9. \A n \in Listed : n < Len(response) /\ response[n + 1].kind = "detail"
      BY <3>2, <3>5, <3>6
    <3> QED
      BY <3>8, <3>9
  <2>2. response[1].status = "SUCCESS" <=> dr_fails = <<>>
    BY DEF IInv, ResponseInv, ResultInv
  <2>3. \A k \in 1 .. Len(upload.devices) :
           k \in ElementsOf(printed) \/ k \in ElementsOf(dr_fails)
    BY DEF IInv, EndInv, DecidedInv, Passed, Parsing
  <2> QED
    BY <2>1, <2>2, <2>3 DEF ResponseHonest
<1> QED
  BY <1>1, Invariant, PTL
=============================================================================
