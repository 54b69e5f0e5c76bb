------------------------------ MODULE Validate ------------------------------
(***************************************************************************)
(* The validation of a submitted job, src/input/validate.go.               *)
(*                                                                         *)
(* Job.Validate and ScheduledJob.Validate make a validator, register       *)
(* three field validators (duration, queue, expr) and three struct         *)
(* validators (Mount, Task, Permission) and let the library walk the job   *)
(* with them.  Every registered validator runs on the values of its kind;  *)
(* the order of the walk is the library's and is left open here.           *)
(*                                                                         *)
(* A string is a sequence of tokens, each standing for one or more         *)
(* characters of one class, so that a prefix, a match of mountPattern and  *)
(* the empty string are what they are in the code.  A job is reduced to    *)
(* one task and its permissions; of the task's fields that are only        *)
(* tested for presence, the set of those present is kept.                  *)
(***************************************************************************)
EXTENDS Naturals, Sequences, FiniteSets, SequencesExt

CONSTANTS
    Jobs,               \* the job templates submitted
    Users, Roles,       \* the users and roles the datastore holds
    Durations,          \* the strings time.ParseDuration accepts
    ValidExprs,         \* the strings eval.ValidExpr accepts
    PatternChars,       \* the tokens made of characters mountPattern admits
    DatastoreMayFail    \* TRUE: a lookup in the datastore may fail

Kinds       == {"Job", "ScheduledJob"}
Markers     == {"Parallel", "Each", "SubJob"}
PlainFields == {"Image", "CMD", "Entrypoint", "Run", "Env", "Pre", "Post", "Retry", "Limits"}
MountTypes  == {"", "volume", "bind", "tmpfs", "other"}

ASSUME /\ DatastoreMayFail \in BOOLEAN
       /\ \A j \in Jobs :
            /\ j.kind \in Kinds
            /\ j.task.markers \subseteq Markers
            /\ j.task.carries \subseteq PlainFields
            /\ \A i \in DOMAIN j.task.mounts : j.task.mounts[i].type \in MountTypes

VARIABLES
    job,    \* the template under validation
    ran,    \* the registered validators that have run
    errs    \* the field errors reported so far

vars == <<job, ran, errs>>

FieldError(field, tag) == [field |-> field, tag |-> tag]

\* What Job.Validate and ScheduledJob.Validate register.
Registered ==
    [k \in Kinds |-> {"duration", "queue", "expr", "Mount", "Task", "Permission"}]

Init ==
    /\ job \in Jobs
    /\ ran = {}
    /\ errs = {}

-----------------------------------------------------------------------------
(* Field validators: TRUE means valid. *)

validateExpr(v) == v = <<>> \/ v \in ValidExprs

validateDuration(v) == v = <<>> \/ v \in Durations

QUEUE_EXCLUSIVE_PREFIX == <<"x-">>

IsCoordinatorQueue(v) ==
    v \in {<<q>> : q \in {"pending", "scheduled", "started", "completed",
                          "error", "heartbeat", "jobs", "progress"}}

validateQueueEmptyToo(v) ==
    ~IsPrefix(QUEUE_EXCLUSIVE_PREFIX, v) /\ ~IsCoordinatorQueue(v) /\ v # <<>>

validateQueue(v) ==
    v = <<>> \/ (~IsPrefix(QUEUE_EXCLUSIVE_PREFIX, v) /\ ~IsCoordinatorQueue(v))

\* The library's report of a field validator that returned false.
fieldLevel(valid, field, tag) == IF valid THEN {} ELSE {FieldError(field, tag)}

-----------------------------------------------------------------------------
(* Struct validators: the set of errors they report. *)

MatchString(s) == s # <<>> /\ ToSet(s) \subseteq PatternChars

RunDir == <<"/", "tork">>

\* The conditions of validateMount in the order of its else-if chain.
mountRules(mnt) ==
    << <<mnt.type = "",                                   "typerequired">>,
       <<mnt.type = "volume" /\ mnt.source # <<>>,        "sourcenotempty">>,
       <<mnt.type = "volume" /\ mnt.target = <<>>,        "targetrequired">>,
       <<mnt.type = "bind" /\ mnt.source = <<>>,          "sourcerequired">>,
       <<mnt.source # <<>> /\ ~MatchString(mnt.source),   "invalidsource">>,
       <<mnt.target # <<>> /\ ~MatchString(mnt.target),   "invalidtarget">>,
       <<mnt.target = RunDir,                             "invalidtarget">> >>

validateMount(mnt) ==
    LET rules == mountRules(mnt)
        hit   == {i \in DOMAIN rules : rules[i][1]}
    IN  {FieldError("Mount", rules[i][2]) : i \in {h \in hit : \A g \in hit : h <= g}}

\* The pairs of markers taskTypeValidation refuses, and the tag of each.
exclusivePairs ==
    { [both |-> {"Parallel", "Each"},   tag |-> "paralleloreach"],
      [both |-> {"Parallel", "SubJob"}, tag |-> "parallelorsubjob"],
      [both |-> {"Each", "SubJob"},     tag |-> "eachorsubjob"] }

taskTypeValidationPasted(ti) ==
    UNION { {FieldError(f, "parallelorsubjob") : f \in x.both} :
            x \in {y \in exclusivePairs : y.both \subseteq ti.markers} }

taskTypeValidation(ti) ==
    UNION { {FieldError(f, x.tag) : f \in x.both} :
            x \in {y \in exclusivePairs : y.both \subseteq ti.markers} }

\* The fields of t that compositeTaskValidation finds set.
carried(t) ==
    t.carries \cup {f \in {"Queue", "Timeout", "Mounts"} :
                      \/ f = "Queue" /\ t.queue # <<>>
                      \/ f = "Timeout" /\ t.timeout # <<>>
                      \/ f = "Mounts" /\ t.mounts # <<>>}

compositeParallelOnly(t) ==
    IF "Parallel" \notin t.markers THEN {}
    ELSE {FieldError(f, "invalidcompositetask") : f \in carried(t)}

compositeTaskValidation(t) ==
    IF t.markers = {} THEN {}
    ELSE {FieldError(f, "invalidcompositetask") : f \in carried(t)}

taskInputValidation(t) == taskTypeValidation(t) \cup compositeTaskValidation(t)

\* up.user, up.role: whether ds.GetUser, ds.GetRole can answer.
validatePermission(perm, up) ==
    {FieldError("Permission", tag) : tag \in
        { g \in {"roleoruser", "invalidusername", "invalidrole"} :
            \/ g = "roleoruser" /\ (perm.role = <<>>) = (perm.user = <<>>)
            \/ g = "invalidusername" /\ perm.user # <<>>
                                     /\ ~(up.user /\ perm.user \in Users)
            \/ g = "invalidrole" /\ perm.role # <<>>
                                 /\ ~(up.role /\ perm.role \in Roles) }}

-----------------------------------------------------------------------------
(* validate.Struct: each registered validator on the values it is for. *)

Due(v) == v \in Registered[job.kind] \ ran

Runs(v, found) ==
    /\ ran' = ran \cup {v}
    /\ errs' = errs \cup found
    /\ UNCHANGED job

duration ==
    /\ Due("duration")
    /\ Runs("duration", fieldLevel(validateDuration(job.task.timeout), "Timeout", "duration"))

queue ==
    /\ Due("queue")
    /\ Runs("queue", fieldLevel(validateQueue(job.task.queue), "Queue", "queue"))

expr ==
    /\ Due("expr")
    /\ Runs("expr", fieldLevel(validateExpr(job.task.if), "If", "expr"))

Mount ==
    /\ Due("Mount")
    /\ Runs("Mount", UNION {validateMount(m) : m \in ToSet(job.task.mounts)})

Task ==
    /\ Due("Task")
    /\ Runs("Task", taskInputValidation(job.task))

Answers == IF DatastoreMayFail THEN BOOLEAN ELSE {TRUE}

Permission ==
    /\ Due("Permission")
    /\ \E up \in [DOMAIN job.permissions -> [user : Answers, role : Answers]] :
          Runs("Permission", UNION {validatePermission(job.permissions[i], up[i]) :
                                        i \in DOMAIN job.permissions})

Next == duration \/ queue \/ expr \/ Mount \/ Task \/ Permission

Spec == Init /\ [][Next]_vars

\* What Validate returns once the walk is over.
Returned == ran = Registered[job.kind]
Accepted == Returned /\ errs = {}

-----------------------------------------------------------------------------
(* The templates the specification accepts, stated as what a template is.  *)

UserQueue(q) == ~IsPrefix(<<"x-">>, q) /\ ~IsCoordinatorQueue(q)

WellFormedMount(m) ==
    /\ m.type # ""
    /\ m.type = "volume" => m.source = <<>> /\ m.target # <<>>
    /\ m.type = "bind" => m.source # <<>>
    /\ \A s \in {m.source, m.target} \ {<<>>} : ToSet(s) \subseteq PatternChars
    /\ m.target # RunDir

WellFormedPermission(p) ==
    \/ p.user = <<>> /\ p.role \in Roles
    \/ p.role = <<>> /\ p.user \in Users

Structural(t) ==
    /\ t.carries = {}
    /\ t.queue = <<>> /\ t.timeout = <<>> /\ t.mounts = <<>>

WellFormed(j) ==
    LET t == j.task IN
    /\ Cardinality(t.markers) <= 1
    /\ t.markers # {} => Structural(t)
    /\ t.queue # <<>> => UserQueue(t.queue)
    /\ t.timeout # <<>> => t.timeout \in Durations
    /\ t.if # <<>> => t.if \in ValidExprs
    /\ \A m \in ToSet(t.mounts) : WellFormedMount(m)
    /\ \A p \in ToSet(j.permissions) : WellFormedPermission(p)

\* The field an error names is at fault in template j.
Offends(j, e) ==
    LET t == j.task IN
    \/ e.field = "Queue" /\ t.queue # <<>> /\ ~UserQueue(t.queue)
    \/ e.field = "Timeout" /\ e.tag = "duration" /\ t.timeout \notin Durations \cup {<<>>}
    \/ e.field = "If" /\ t.if \notin ValidExprs \cup {<<>>}
    \/ e.field = "Mount" /\ \E m \in ToSet(t.mounts) : ~WellFormedMount(m)
    \/ e.field \in t.markers /\ Cardinality(t.markers) > 1
    \/ e.tag = "invalidcompositetask" /\ t.markers # {} /\ e.field \in carried(t)
    \/ e.field = "Permission" /\ \E p \in ToSet(j.permissions) : ~WellFormedPermission(p)

-----------------------------------------------------------------------------
(* Properties *)

\* The errors each validator can report: the tags of a field.
TagsOf(field) ==
    CASE field = "Queue"      -> {"queue", "invalidcompositetask"}
      [] field = "Timeout"    -> {"duration", "invalidcompositetask"}
      [] field = "If"         -> {"expr"}
      [] field = "Mount"      -> {r[2] : r \in ToSet(mountRules([type |-> "", source |-> <<>>, target |-> <<>>]))}
      [] field = "Permission" -> {"roleoruser", "invalidusername", "invalidrole"}
      [] field \in Markers    -> {x.tag : x \in {y \in exclusivePairs : field \in y.both}}
      [] OTHER                -> {"invalidcompositetask"}

\* Type invariant: only registered validators run, and every error names a
\* field of a task, a mount or a permission under a tag that is reported
\* for that field (taskTypeValidation reports each pair of markers under
\* the tag of that pair).
TypeOK ==
    /\ job.kind \in Kinds
    /\ ran \subseteq Registered[job.kind]
    /\ \A e \in errs :
         /\ e.field \in Markers \cup PlainFields \cup {"Queue", "Timeout", "If", "Mounts", "Mount", "Permission"}
         /\ e.tag \in TagsOf(e.field)

\* A template that Validate accepts is one the specification accepts: it
\* has at most one of parallel, each and subjob, a composite task carries
\* none of the fields of a container task, the queue is a user queue, and
\* every mount and permission is well formed.  This is the else-if chain of
\* validateMount, the three pairwise tests of taskTypeValidation and the
\* early return of compositeTaskValidation against a definition of the
\* accepted templates.
AcceptedIsWellFormed == Accepted => WellFormed(job)

\* Every error names a field of the template that is at fault: a rejected
\* template is rejected for something in it (the validators return early on
\* an empty value and report a composite's fields only when they are set).
RejectionNamesOffendingField == \A e \in errs : Offends(job, e)

=============================================================================
