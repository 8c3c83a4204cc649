----------------------------- MODULE LeadForms -----------------------------
(***************************************************************************)
(* The forms of the public site.  Each service's handler is a list of      *)
(* steps, an await at a time; what a step does is the same in all of them. *)
(* Mails that a handler does not wait for stand at the end of its list:    *)
(* they write no document, so only their failures and their order matter.  *)
(***************************************************************************)
EXTENDS Handlers

CONSTANTS
    Leads,        \* documents that may come to exist
    Enquiries,    \* what a duplicate check compares
    MaxPerAddress, \* lessons booked from one address in 5 minutes; 3 in the code
    MaxApprovals  \* bound: how often a transfer becomes approved

VARIABLES
    adminEmail,     \* ADMIN_EMAIL is configured
    lead,           \* None: there never was such a document
    told, reported, \* by lead: the channels its admins were told by, of those
                    \* awaited, and the failed ones the audit log has an entry for
    entered,        \* history: how often a transfer became approved
    approvalMails,  \* how often its customer was told so
    silenced        \* history: leads whose handler died, or whose entry failed

leadVars == <<adminEmail, lead, told, reported, entered, approvalMails, silenced>>
notices == <<told, reported, entered, approvalMails>>

-----------------------------------------------------------------------------
(* adminMail, adminMailAnyway, sms: awaited, a failure is reported.
   adminNote, smsNote, userMail: a failure is written to the server's log.
   userMailFirst: awaited, a failure ends the notifications. *)
ContactUs            == <<"save", "adminMail", "sms">>
CustomQuote          == <<"save", "adminMail", "sms">>
FleetManagement      == <<"save", "adminMailAnyway", "sms">>
LeaseOptions         == <<"save", "userMail", "adminMail">>
ScheduleConsultation == <<"save", "userMail", "adminMail">>
VerificationServices == <<"save", "adminMail", "userMail">>
CarRentals           == <<"save", "userMail", "adminMail", "sms">>
MoServices           == <<"save", "adminMail">>
InterstateBooking    == <<"save", "adminNote", "userMail">>
BookingRequest       == <<"lookup", "save", "smsNote", "adminNote", "userMail">>
AirportTransfer      == <<"lookup", "save", "userMailFirst", "adminNote">>
OdSchool             == <<"count", "lookup", "save", "adminNote">>
JobApplication       == <<"configured", "upload", "save", "adminNote", "userMail">>
OneWay               == <<"rider", "save">>
ShuttleTrip          == <<"rider", "save">>
GuestBooking         == <<"save">>
PaystackBookings     == <<"save">>

Plan ==
    [ContactUs |-> ContactUs, CustomQuote |-> CustomQuote, FleetManagement |-> FleetManagement,
     LeaseOptions |-> LeaseOptions, ScheduleConsultation |-> ScheduleConsultation,
     VerificationServices |-> VerificationServices, CarRentals |-> CarRentals,
     MoServices |-> MoServices, InterstateBooking |-> InterstateBooking,
     BookingRequest |-> BookingRequest, AirportTransfer |-> AirportTransfer,
     OdSchool |-> OdSchool, JobApplication |-> JobApplication, OneWay |-> OneWay,
     ShuttleTrip |-> ShuttleTrip, GuestBooking |-> GuestBooking,
     PaystackBookings |-> PaystackBookings]

Forms == DOMAIN Plan
Has(f, step) == \E i \in DOMAIN Plan[f] : Plan[f][i] = step
Channel(step) == IF step = "sms" THEN "sms" ELSE "email"

LeadStatuses == {"pending", "approved", "other"}

Lead ==
    [form : Forms, enquiry : Enquiries \cup {None}, status : LeadStatuses,
     recent : BOOLEAN, edited : BOOLEAN, deleted : BOOLEAN]

ASSUME LeadAssumptions == IsFiniteSet(Leads) /\ None \notin Leads \cup Enquiries \cup Lead

LeadTypeOK ==
    /\ adminEmail \in BOOLEAN
    /\ lead \in [Leads -> Lead \cup {None}]
    /\ told \in [Leads -> SUBSET {"email", "sms"}]
    /\ reported \in [Leads -> SUBSET {"email", "sms"}]
    /\ entered \in [Leads -> Nat] /\ approvalMails \in [Leads -> Nat]
    /\ silenced \subseteq Leads

LeadInit ==
    /\ adminEmail \in BOOLEAN
    /\ lead = [l \in Leads |-> None]
    /\ told = [l \in Leads |-> {}] /\ reported = told
    /\ entered = [l \in Leads |-> 0] /\ approvalMails = entered
    /\ silenced = {}

(* The operations, by the names their requests have. *)
LeadOperations == Forms \cup {"reviewTransfer"}

Kept == {l \in Leads : lead[l] # None /\ ~lead[l].deleted}

-----------------------------------------------------------------------------
Submitting(r) == r.op \in Forms

Doing(t, steps) == Submitting(req[t]) /\ Head(req[t].todo) \in steps

(* The handler returns once nothing is left to do. *)
Proceed(t, r) ==
    IF Tail(r.todo) = <<>> THEN Finish(t) ELSE Continue(t, [r EXCEPT !.todo = Tail(@)])

LeadAsk(t) ==
    /\ \E f \in Forms, k \in Enquiries \cup {None} :
          /\ k = None <=> ~Has(f, "lookup")
          /\ Start(t, [op |-> f, at |-> "submit", todo |-> Plan[f], enquiry |-> k, id |-> None])
    /\ UNCHANGED <<leadVars, overlapped>>

(* Without ADMIN_EMAIL a job application is refused. *)
LeadConfigured(t) ==
    /\ Doing(t, {"configured"})
    /\ IF adminEmail THEN Proceed(t, req[t]) ELSE Finish(t)
    /\ UNCHANGED <<leadVars, overlapped>>

(* findById of the signed-in rider or administrator, or Cloudinary's upload. *)
LeadNeeds(t) ==
    /\ Doing(t, {"rider", "upload"})
    /\ Proceed(t, req[t]) \/ Finish(t)
    /\ UNCHANGED <<leadVars, overlapped>>

(* countDocuments by the address the bookings of the last minutes came from. *)
LeadCount(t) ==
    /\ Doing(t, {"count"})
    /\ IF Cardinality({l \in Kept : lead[l].form = req[t].op /\ lead[l].recent}) >= MaxPerAddress
       THEN Finish(t) ELSE Proceed(t, req[t])
    /\ UNCHANGED <<leadVars, overlapped>>

(* The duplicate check: in a window of time, or for as long as the lesson is
   not archived, which no code does. *)
Duplicates(r) ==
    {l \in Kept : /\ lead[l].form = r.op /\ lead[l].enquiry = r.enquiry
                  /\ lead[l].recent \/ r.op = "OdSchool"}

Saving(u, r) ==
    u.op = r.op /\ Submitting(u) /\ u.enquiry = r.enquiry /\ Head(u.todo) = "save"

\* Mutant of LeadLookup: a duplicate is logged only, as mo-services does it.
LeadLookupWarn(t) ==
    /\ Doing(t, {"lookup"})
    /\ Proceed(t, req[t])
    /\ Overlap(t, "lookup", LAMBDA u : Saving(u, req[t]))
    /\ UNCHANGED leadVars

LeadLookup(t) ==
    /\ Doing(t, {"lookup"})
    /\ \/ Duplicates(req[t]) # {} /\ Finish(t) /\ UNCHANGED overlapped
       \/ /\ Duplicates(req[t]) = {}
          /\ Proceed(t, req[t])
          /\ Overlap(t, "lookup", LAMBDA u : Saving(u, req[t]))
    /\ UNCHANGED leadVars

(* The insertion; the driving school's indexes refuse an active duplicate. *)
LeadSave(t) ==
    LET r == req[t] IN
    /\ Doing(t, {"save"})
    /\ \/ /\ r.op = "OdSchool" /\ Duplicates(r) # {}
          /\ Finish(t)
          /\ UNCHANGED lead
       \/ \E l \in Fresh({l \in Leads : lead[l] = None}) :
          /\ ~(r.op = "OdSchool" /\ Duplicates(r) # {})
          /\ Proceed(t, [r EXCEPT !.id = l])
          /\ lead' = [lead EXCEPT ![l] =
                [form |-> r.op, enquiry |-> r.enquiry, status |-> "pending",
                 recent |-> TRUE, edited |-> FALSE, deleted |-> FALSE]]
    /\ UNCHANGED <<adminEmail, notices, silenced, overlapped>>

-----------------------------------------------------------------------------
(* sendTemplateEmail and sendSMS: Brevo or Termii takes the message, or throws.
   What nobody reports on is the same to the documents either way. *)
LeadNote(t) ==
    /\ \/ Doing(t, {"userMail", "adminNote", "smsNote"}) /\ Proceed(t, req[t])
       \/ Doing(t, {"userMailFirst"}) /\ (Proceed(t, req[t]) \/ Finish(t))
    /\ UNCHANGED <<leadVars, overlapped>>

(* There is nobody to write to. *)
LeadSkip(t) ==
    /\ Doing(t, {"adminMail"})
    /\ ~adminEmail
    /\ Proceed(t, req[t])
    /\ UNCHANGED <<leadVars, overlapped>>

LeadTell(t) ==
    LET step == Head(req[t].todo) IN
    /\ Doing(t, {"adminMail", "adminMailAnyway", "sms"})
    /\ adminEmail \/ step = "sms"
    /\ told' = [told EXCEPT ![req[t].id] = @ \cup {Channel(step)}]
    /\ Proceed(t, req[t])
    /\ UNCHANGED <<adminEmail, lead, reported, entered, approvalMails, silenced, overlapped>>

\* Mutant of LeadReport: the failure is caught and forgotten.
LeadReportNot(t) ==
    /\ Doing(t, {"adminMail", "adminMailAnyway", "sms"})
    /\ Head(req[t].todo) # "adminMail" \/ adminEmail
    /\ Proceed(t, req[t])
    /\ UNCHANGED <<leadVars, overlapped>>

(* logAdminNotificationFailure, which swallows a failure of its own. *)
LeadReport(t) ==
    LET r == req[t]
        step == Head(r.todo) IN
    /\ Doing(t, {"adminMail", "adminMailAnyway", "sms"})
    /\ step # "adminMail" \/ adminEmail
    /\ \/ /\ reported' = [reported EXCEPT ![r.id] = @ \cup {Channel(step)}]
          /\ UNCHANGED silenced
       \/ /\ silenced' = silenced \cup {r.id}
          /\ UNCHANGED reported
    /\ Proceed(t, r)
    /\ UNCHANGED <<adminEmail, lead, told, entered, approvalMails, overlapped>>

(* The handler, or what it left running, dies with the process. *)
LeadDies(t) ==
    /\ Submitting(req[t])
    /\ Finish(t)
    /\ silenced' = silenced \cup ({req[t].id} \ {None})
    /\ UNCHANGED <<adminEmail, lead, notices, overlapped>>

-----------------------------------------------------------------------------
(* What the administrators do to a lead in one call: booking requests and
   consultations can be edited, with what the duplicate check compares; job
   applications get a status, which nothing reads; some can be deleted. *)
LeadEdit(l) ==
    /\ l \in Kept /\ lead[l].form \in shift
    /\ \/ /\ lead[l].form \in {"BookingRequest", "ScheduleConsultation"}
          /\ \E k \in Enquiries :
                lead' = [lead EXCEPT ![l].enquiry = IF @ = None THEN None ELSE k,
                                     ![l].status = "other", ![l].edited = TRUE]
       \/ /\ lead[l].form = "JobApplication"
          /\ lead' = [lead EXCEPT ![l].status = "other"]
    /\ UNCHANGED <<handlers, adminEmail, notices, silenced>>

LeadDelete(l) ==
    /\ l \in Kept /\ lead[l].form \in shift
    /\ lead[l].form \in
          {"BookingRequest", "ScheduleConsultation", "JobApplication", "FleetManagement"}
    /\ lead' = [lead EXCEPT ![l] =
          [form |-> @.form, enquiry |-> None, status |-> "other",
           recent |-> FALSE, edited |-> FALSE, deleted |-> TRUE]]
    /\ UNCHANGED <<handlers, adminEmail, notices, silenced>>

(* The window of the duplicate check is over. *)
WindowEnds(l) ==
    /\ l \in Kept /\ lead[l].form \in shift /\ lead[l].recent
    /\ Has(lead[l].form, "lookup")
    /\ lead' = [lead EXCEPT ![l].recent = FALSE]
    /\ UNCHANGED <<handlers, adminEmail, notices, silenced>>

(* AirportTransferService.updateStatus: findById, save what was modified, and the
   customer's mail on the transition into approved. *)
ReviewAsk(t) ==
    /\ \E l \in Kept, s \in LeadStatuses :
          /\ lead[l].form = "AirportTransfer"
          /\ Start(t, [op |-> "reviewTransfer", at |-> "find", id |-> l, status |-> s, was |-> s])
    /\ UNCHANGED <<leadVars, overlapped>>

ReviewFind(t) ==
    LET r == req[t] IN
    /\ At(t, "reviewTransfer", "find")
    /\ Continue(t, [r EXCEPT !.at = "save", !.was = lead[r.id].status])
    /\ Overlap(t, "review", LAMBDA u : u.op = r.op /\ u.at = "save" /\ u.id = r.id)
    /\ UNCHANGED leadVars

ReviewSave(t) ==
    LET r == req[t]
        modified == r.status # r.was
        enters == modified /\ r.status = "approved" IN
    /\ At(t, "reviewTransfer", "save")
    /\ Continue(t, [r EXCEPT !.at = "mail"])
    /\ lead' = IF modified THEN [lead EXCEPT ![r.id].status = r.status] ELSE lead
    /\ IF enters /\ lead[r.id].status # "approved"
       THEN entered[r.id] < MaxApprovals /\ entered' = [entered EXCEPT ![r.id] = @ + 1]
       ELSE UNCHANGED entered
    /\ UNCHANGED <<adminEmail, told, reported, approvalMails, silenced, overlapped>>

\* Mutant of ReviewMail: the mail is sent whenever the status is approved.
ReviewMailAlways(t) ==
    LET r == req[t] IN
    /\ At(t, "reviewTransfer", "mail")
    /\ Finish(t)
    /\ IF r.status = "approved"
       THEN approvalMails' = [approvalMails EXCEPT ![r.id] = @ + 1]
       ELSE UNCHANGED approvalMails
    /\ UNCHANGED <<adminEmail, lead, told, reported, entered, silenced, overlapped>>

ReviewMail(t) ==
    LET r == req[t] IN
    /\ At(t, "reviewTransfer", "mail")
    /\ Finish(t)
    /\ IF r.status = "approved" /\ r.was # "approved"
       THEN approvalMails' = [approvalMails EXCEPT ![r.id] = @ + 1]
       ELSE UNCHANGED approvalMails
    /\ UNCHANGED <<adminEmail, lead, told, reported, entered, silenced, overlapped>>

-----------------------------------------------------------------------------
LeadStep(t) ==
    \/ LeadAsk(t) \/ LeadConfigured(t) \/ LeadNeeds(t)
    \/ LeadCount(t) \/ LeadLookup(t) \/ LeadSave(t)
    \/ LeadNote(t) \/ LeadSkip(t) \/ LeadTell(t) \/ LeadReport(t)
    \/ LeadDies(t)
    \/ ReviewAsk(t) \/ ReviewFind(t) \/ ReviewSave(t) \/ ReviewMail(t)

LeadNext ==
    \/ \E t \in Requests : LeadStep(t)
    \/ \E l \in Leads : LeadEdit(l) \/ LeadDelete(l) \/ WindowEnds(l)

LeadSpec == HandlersInit /\ LeadInit /\ [][LeadNext]_<<handlers, leadVars>>

-----------------------------------------------------------------------------
(* Nobody who left an enquiry is forgotten (admin-notification-failure.ts:6): when
   its handler is done, each channel the admins are awaited on has told them of
   it or has an entry in the audit log that says it failed. *)
AwaitedChannels(f) ==
    {Channel(s) : s \in {s \in {"adminMail", "adminMailAnyway", "sms"} :
                            Has(f, s) /\ (s = "adminMail" => adminEmail)}}

LeadIsKnown ==
    \A l \in Leads \ silenced :
        lead[l] # None /\ (\A t \in Requests : Submitting(req[t]) => req[t].id # l)
            => AwaitedChannels(lead[l].form) \subseteq told[l] \cup reported[l]

(* The same form sent twice is stored once: within its window unless the two
   overlapped between the check and the insertion, and at the driving school,
   which has indexes, always.  (An administrator may still make two alike.) *)
OneLeadPerWindow ==
    \A l, m \in Kept :
        /\ l # m /\ lead[l].form = lead[m].form /\ lead[l].enquiry = lead[m].enquiry
        /\ ~lead[l].edited /\ ~lead[m].edited
        /\ lead[l].enquiry # None
        => /\ lead[l].form # "OdSchool"
           /\ lead[l].recent /\ lead[m].recent => "lookup" \in overlapped

(* A customer is not told of an approval more often than their transfer became
   approved, unless two reviews of it overlapped. *)
ApprovalMailedOnce ==
    "review" \notin overlapped => \A l \in Leads : approvalMails[l] <= entered[l]
=============================================================================
