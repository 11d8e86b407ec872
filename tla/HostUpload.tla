----------------------------- MODULE HostUpload -----------------------------
(***************************************************************************)
(* The logger host (suns -H): suns_app_logger_host() parses the upload of  *)
(* a data logger device by device, answers it with a response document and *)
(* prints the devices it accepted.                                         *)
(*                                                                         *)
(* An upload is a tree of elements sunSpecData / d / m / p.  What an       *)
(* element says is reduced to the first thing wrong with it, "" if nothing *)
(* is; elements are identified by their positions.  One action handles one *)
(* element.  Points are taken to have an id attribute.                     *)
(***************************************************************************)
EXTENDS Integers, Sequences

CONSTANT Uploads    \* the uploads that may arrive

\* What can be wrong with the root, a device, a model and a point element.
RootFaults   == {"malformed", "root", "version"}
DeviceFaults == {"attribute", "timestamp"}
ModelFaults  == {"id", "did", "x"}
PointFaults  == {"name", "timestamp", "value", "sf", "x"}

ModelForms  == [fault : ModelFaults \union {""},
                points : Seq(PointFaults \union {""})]
DeviceForms == [fault : DeviceFaults \union {""}, models : Seq(ModelForms)]
UploadForms == [fault : RootFaults \union {""}, devices : Seq(DeviceForms)]

ASSUME UploadsAssumption == Uploads \subseteq UploadForms

VARIABLES
    upload,     \* the document; never changes
    pc,         \* "root", "device", "model", "point", "respond", "results",
                \* "output", "exited"
    d, m, p,    \* the element each loop is at
    device,     \* the datasets of the device being parsed
    data,       \* the values of the dataset being parsed
    devices,    \* the devices accepted
    result,     \* suns_host_result_t: status and code
    dr_fails,   \* its list of failed devices: element, status and code
    response,   \* the sunSpecDataResponse written: elements in order
    rc,         \* rc of suns_app_logger_host()
    printed,    \* the devices handed to suns_device_output()
    status      \* "running", then the exit status of the program

cursors  == <<d, m, p>>
building == <<device, data>>
vars == <<upload, pc, cursors, building, devices, result, dr_fails, response,
          rc, printed, status>>

Element      == upload.devices[d]
ModelElement == Element.models[m]

Init ==
    /\ upload \in Uploads
    /\ pc = "root"
    /\ d = 1 /\ m = 1 /\ p = 1
    /\ device = <<>> /\ data = <<>>
    /\ devices = <<>>
    /\ result = [status |-> "UNDEF", code |-> "UNDEF"]
    /\ dr_fails = <<>>
    /\ response = <<>>
    /\ rc = 0
    /\ printed = <<>>
    /\ status = "running"

-----------------------------------------------------------------------------
\* suns_host_parse_logger_xml() and suns_host_parse_sunspec_data()

RejectUpload ==
    /\ pc = "root"
    /\ upload.fault # ""
    /\ result' = [status |-> "FAILURE", code |-> "INVALID_MESSAGE"]
    /\ rc' = -1
    /\ pc' = "respond"
    /\ UNCHANGED <<upload, cursors, building, devices, dr_fails, response,
                   printed, status>>

AcceptRoot ==
    /\ pc = "root"
    /\ upload.fault = ""
    /\ result' = [result EXCEPT !.status = "SUCCESS"]
    /\ pc' = "device"
    /\ UNCHANGED <<upload, cursors, building, devices, dr_fails, response, rc,
                   printed, status>>

\* Slip: the first device that fails ends the upload.
FailDevice_Returns(st, code) ==
    /\ dr_fails' = Append(dr_fails, [element |-> d, status |-> st, code |-> code])
    /\ result' = [result EXCEPT !.status = "DR_FAILURE"]
    /\ rc' = -1
    /\ pc' = "respond"
    /\ d' = d + 1
    /\ UNCHANGED <<upload, m, p, building, devices, response, printed, status>>

\* suns_host_parse_device() returns -1; what it has built is dropped, and the
\* next device is attempted.
FailDevice(st, code) ==
    /\ dr_fails' = Append(dr_fails, [element |-> d, status |-> st, code |-> code])
    /\ result' = [result EXCEPT !.status = "DR_FAILURE"]
    /\ rc' = -1
    /\ pc' = "device"
    /\ d' = d + 1
    /\ UNCHANGED <<upload, m, p, building, devices, response, printed, status>>

AtDevice == pc = "device" /\ d <= Len(upload.devices)

BeginDevice ==
    /\ AtDevice
    /\ Element.fault = ""
    /\ device' = <<>>
    /\ m' = 1
    /\ pc' = "model"
    /\ UNCHANGED <<upload, d, p, data, devices, result, dr_fails, response, rc,
                   printed, status>>

\* Slip: the code is not set either.
RejectDevice_NoCode ==
    /\ AtDevice
    /\ Element.fault # ""
    /\ FailDevice("FAILURE", "UNDEF")

\* A missing attribute or a bad timestamp sets the code but not the status of
\* the failure record, which suns_host_dr_fail_new() has cleared.
RejectDevice ==
    /\ AtDevice
    /\ Element.fault # ""
    /\ FailDevice("UNDEF", "INVALID_MESSAGE")

EndUpload ==
    /\ pc = "device"
    /\ d > Len(upload.devices)
    /\ pc' = "respond"
    /\ UNCHANGED <<upload, cursors, building, devices, result, dr_fails,
                   response, rc, printed, status>>

-----------------------------------------------------------------------------
\* suns_host_parse_device(), suns_host_parse_model() and
\* suns_host_parse_datapoint()

AtModel == pc = "model" /\ m <= Len(Element.models)

BeginModel ==
    /\ AtModel
    /\ ModelElement.fault = ""
    /\ data' = <<>>
    /\ p' = 1
    /\ pc' = "point"
    /\ UNCHANGED <<upload, d, m, device, devices, result, dr_fails, response,
                   rc, printed, status>>

RejectModel ==
    /\ AtModel
    /\ ModelElement.fault # ""
    /\ FailDevice("FAILURE", IF ModelElement.fault = "did"
                             THEN "UNKNOWN_DEVICE" ELSE "INVALID_MESSAGE")

AtPoint == pc = "point" /\ p <= Len(ModelElement.points)

AddPoint ==
    /\ AtPoint
    /\ ModelElement.points[p] = ""
    /\ data' = Append(data, p)
    /\ p' = p + 1
    /\ UNCHANGED <<upload, pc, d, m, device, devices, result, dr_fails,
                   response, rc, printed, status>>

\* Slip: a point that cannot be parsed is left out.
RejectPoint_Skips ==
    /\ AtPoint
    /\ ModelElement.points[p] # ""
    /\ p' = p + 1
    /\ UNCHANGED <<upload, pc, d, m, building, devices, result, dr_fails,
                   response, rc, printed, status>>

RejectPoint ==
    /\ AtPoint
    /\ ModelElement.points[p] # ""
    /\ FailDevice("FAILURE", "INVALID_MESSAGE")

EndModel ==
    /\ pc = "point"
    /\ p > Len(ModelElement.points)
    /\ device' = Append(device, [model |-> m, values |-> data])
    /\ m' = m + 1
    /\ pc' = "model"
    /\ UNCHANGED <<upload, d, p, data, devices, result, dr_fails, response, rc,
                   printed, status>>

EndDevice ==
    /\ pc = "model"
    /\ m > Len(Element.models)
    /\ devices' = Append(devices, [element |-> d, datasets |-> device])
    /\ d' = d + 1
    /\ pc' = "device"
    /\ UNCHANGED <<upload, m, p, building, result, dr_fails, response, rc,
                   printed, status>>

-----------------------------------------------------------------------------
\* suns_host_result_xml() and suns_host_dr_fail_xml()

\* The response begins with the overall status.  The return code of the parse
\* is overwritten.
Respond ==
    /\ pc = "respond"
    /\ rc' = 0
    /\ response' = <<[kind |-> "status", status |-> result.status]>>
                   \o (IF result.status = "FAILURE"
                       THEN <<[kind |-> "detail", code |-> result.code]>>
                       ELSE <<>>)
    /\ d' = 1
    /\ pc' = IF result.status = "DR_FAILURE" THEN "results" ELSE "output"
    /\ UNCHANGED <<upload, m, p, building, devices, result, dr_fails, printed,
                   status>>

DResult == [kind |-> "dResult", element |-> dr_fails[d].element,
            status |-> dr_fails[d].status]

\* The detail of a failure follows its dResult as a sibling.
AddResult ==
    /\ pc = "results"
    /\ d <= Len(dr_fails)
    /\ dr_fails[d].status # "UNDEF"
    /\ response' = response \o <<DResult, [kind |-> "detail",
                                           code |-> dr_fails[d].code]>>
    /\ rc' = 0
    /\ d' = d + 1
    /\ UNCHANGED <<upload, pc, m, p, building, devices, result, dr_fails,
                   printed, status>>

\* Slip: the error does not reach the caller.
CutResults_Silent ==
    /\ pc = "results"
    /\ d <= Len(dr_fails)
    /\ dr_fails[d].status = "UNDEF"
    /\ response' = Append(response, DResult)
    /\ pc' = "output"
    /\ UNCHANGED <<upload, cursors, building, devices, result, dr_fails, rc,
                   printed, status>>

\* Slip: the record is tried again.
CutResults_Again ==
    /\ pc = "results"
    /\ d <= Len(dr_fails)
    /\ dr_fails[d].status = "UNDEF"
    /\ UNCHANGED vars

\* A record without a status: its dResult stays empty, and the loop ends.
CutResults ==
    /\ pc = "results"
    /\ d <= Len(dr_fails)
    /\ dr_fails[d].status = "UNDEF"
    /\ response' = Append(response, DResult)
    /\ rc' = -1
    /\ pc' = "output"
    /\ UNCHANGED <<upload, cursors, building, devices, result, dr_fails,
                   printed, status>>

EndResults ==
    /\ pc = "results"
    /\ d > Len(dr_fails)
    /\ pc' = "output"
    /\ UNCHANGED <<upload, cursors, building, devices, result, dr_fails,
                   response, rc, printed, status>>

\* The accepted devices are printed, and main() exits.
Output ==
    /\ pc = "output"
    /\ printed' = devices
    /\ status' = IF rc < 0 THEN "failure" ELSE "success"
    /\ pc' = "exited"
    /\ UNCHANGED <<upload, cursors, building, devices, result, dr_fails,
                   response, rc>>

Terminated == pc = "exited" /\ UNCHANGED vars

Next ==
    \/ RejectUpload \/ AcceptRoot
    \/ BeginDevice \/ RejectDevice \/ EndDevice \/ EndUpload
    \/ BeginModel \/ RejectModel \/ EndModel
    \/ AddPoint \/ RejectPoint
    \/ Respond \/ AddResult \/ CutResults \/ EndResults
    \/ Output \/ Terminated

Spec     == Init /\ [][Next]_vars
FairSpec == Spec /\ WF_vars(Next)

-----------------------------------------------------------------------------
Codes == {"UNDEF", "INVALID_MESSAGE", "UNKNOWN_DEVICE"}

TypeOK ==
    /\ pc \in {"root", "device", "model", "point", "respond", "results",
               "output", "exited"}
    /\ d \in Nat \ {0} /\ m \in Nat \ {0} /\ p \in Nat \ {0}
    /\ pc \in {"model", "point"} => d <= Len(upload.devices)
    /\ pc = "point" => m <= Len(Element.models)
    /\ \A n \in 1 .. Len(devices) : devices[n].element \in 1 .. Len(upload.devices)
    /\ result.status \in {"UNDEF", "SUCCESS", "FAILURE", "DR_FAILURE"}
    /\ result.code \in Codes
    /\ \A n \in 1 .. Len(dr_fails) :
          /\ dr_fails[n].element \in 1 .. Len(upload.devices)
          /\ dr_fails[n].status \in {"UNDEF", "FAILURE"}
          /\ dr_fails[n].code \in Codes \ {"UNDEF"}
    /\ rc \in {-1, 0}
    /\ status \in {"running", "success", "failure"}

-----------------------------------------------------------------------------
\* Properties

\* Nothing is wrong with the device element or anything below it.
Good(e) ==
    /\ e.fault = ""
    /\ \A n \in 1 .. Len(e.models) :
          /\ e.models[n].fault = ""
          /\ \A k \in 1 .. Len(e.models[n].points) : e.models[n].points[k] = ""

Ascending(list) ==
    \A j, k \in 1 .. Len(list) : j < k => list[j].element < list[k].element

ElementsOf(list) == {list[n].element : n \in 1 .. Len(list)}

\* When an upload has been parsed, its devices are split between the accepted
\* and the failed, each once and in upload order: "don't return - attempt to
\* parse additional devices".
EveryDeviceDecided ==
    /\ Ascending(devices) /\ Ascending(dr_fails)
    /\ pc \in {"respond", "results", "output", "exited"} /\ upload.fault = "" =>
          /\ ElementsOf(devices) =
                {k \in 1 .. Len(upload.devices) : Good(upload.devices[k])}
          /\ ElementsOf(dr_fails) =
                {k \in 1 .. Len(upload.devices) : ~Good(upload.devices[k])}

\* An accepted device has every model of its element and each of those every
\* point, although they are attached one at a time while later ones may fail.
DevicesComplete ==
    \A n \in 1 .. Len(devices) :
       LET models == upload.devices[devices[n].element].models
       IN  devices[n].datasets =
             [k \in 1 .. Len(models) |->
                [model  |-> k,
                 values |-> [j \in 1 .. Len(models[k].points) |-> j]]]

Listed == {n \in 1 .. Len(response) : response[n].kind = "dResult"}

\* The program succeeds on an upload with failed devices only with a response
\* that names each of them with its detail; it answers SUCCESS only if there
\* are none; and what it prints are the devices that the response leaves out.
ResponseHonest ==
    pc = "exited" /\ upload.fault = "" =>
       /\ status = "success" =>
             /\ {response[n].element : n \in Listed} = ElementsOf(dr_fails)
             /\ \A n \in Listed : n < Len(response) /\ response[n + 1].kind = "detail"
       /\ response[1].status = "SUCCESS" <=> dr_fails = <<>>
       /\ \A k \in 1 .. Len(upload.devices) :
             k \in ElementsOf(printed) \/ k \in ElementsOf(dr_fails)

\* Every upload is answered and the program ends.
Ends == <>(pc = "exited")
=============================================================================
