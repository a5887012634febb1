---------------------------- MODULE ModelDeployment ----------------------------
(****************************************************************************)
(* How a model gets into service: the scripts upload_llm_model,             *)
(* register_llm_generator, register_anomaly_model and download_llm_model,   *)
(* and the loading of the anomaly model when its API starts.  They run on   *)
(* several hosts and meet in the bucket and in the MLflow Model Registry.   *)
(*                                                                          *)
(* The two models share no object and no registry entry, so a behaviour is  *)
(* about one of them: the LLM is a file, whose hash a version records; a    *)
(* version of the anomaly model contains it.                                *)
(*                                                                          *)
(* An action is the code up to the next call of the bucket or of MLflow,    *)
(* which are atomic.  A host runs one script at a time, and its file is     *)
(* replaced by hand only when it runs none.                                 *)
(****************************************************************************)
EXTENDS Naturals, Sequences, FiniteSets

CONSTANTS
  Hosts,          (* the machines *)
  Contents,       (* what a model file can be *)
  Truncated,      (* the content of a file that was not written to its end *)
  Unknown,        (* the version of a model whose version cannot be asked *)
  MaxVersions,    (* bound: the versions that get registered *)
  None

ASSUME ContentsAssumption ==
  /\ Truncated \notin Contents /\ None \notin Contents /\ None # Truncated
  /\ Unknown \notin Nat
ASSUME MaxVersionsAssumption == MaxVersions \in Nat

Models  == {"llm", "anomaly"}
Scripts == {"upload", "register", "download"}

ASSUME NoneAssumption == None \notin Scripts

VARIABLES
  model,     (* which model the behaviour is about *)
  file,      (* file[h]: the model file in models_registry/ of h *)
  bucket,    (* the object at GCS_KEY *)
  versions,  (* versions[n]: the registered version n *)
  at,        (* at[h]: the next call of the script on h *)
  own,       (* own[h]: the version the script on h registered, or 0 *)
  found,     (* found[h]: the version it is going to promote, or 0 *)
  source,    (* source[h]: the object it downloads, or None *)
  done,      (* done[h]: the script that last ended normally on h, or None *)
  loaded,    (* loaded[h]: the version the API on h serves with, or 0 *)
  traced     (* traced[h]: the version its rows name, or 0 *)

registry == <<model, bucket, versions>>
script   == <<at, own, found, source, done>>
service  == <<loaded, traced>>
vars     == <<registry, file, script, service>>

Calls == {"uploading", "validating", "registering", "finding", "promoting",
          "downloading", "resolving"}
Files == Contents \cup {Truncated, None}
Stages == {"None", "Production", "Archived"}

InStage(stage) == {n \in DOMAIN versions : versions[n].stage = stage}
Production     == InStage("Production")

(* get_latest_versions(): the highest number in the stage.                  *)
Latest(n, stage) ==
  /\ n \in InStage(stage)
  /\ \A m \in InStage(stage) : m <= n

-----------------------------------------------------------------------------
Init ==
  /\ model \in Models
  /\ file \in [Hosts -> Contents \cup {None}]
  /\ bucket = None
  /\ versions = <<>>
  /\ at = [h \in Hosts |-> "idle"]
  /\ own = [h \in Hosts |-> 0]
  /\ found = [h \in Hosts |-> 0]
  /\ source = [h \in Hosts |-> None]
  /\ done = [h \in Hosts |-> None]
  /\ loaded = [h \in Hosts |-> 0]
  /\ traced = [h \in Hosts |-> 0]

(* The script on h goes on with the next call; or it ends, and with it what *)
(* it remembers.                                                            *)
Goto(h, call) == at' = [at EXCEPT ![h] = call] /\ done' = [done EXCEPT ![h] = None]

Ends(h, result) ==
  /\ at' = [at EXCEPT ![h] = "idle"]
  /\ own' = [own EXCEPT ![h] = 0]
  /\ found' = [found EXCEPT ![h] = 0]
  /\ source' = [source EXCEPT ![h] = None]
  /\ done' = [done EXCEPT ![h] = result]

Keeps == UNCHANGED <<own, found, source>>

(* A new model is put on h by hand.                                         *)
Replace(h) ==
  /\ at[h] = "idle"
  /\ \E content \in Contents : file' = [file EXCEPT ![h] = content]
  /\ UNCHANGED <<registry, script, service>>

(* An exception - a call that fails, a missing file or object, no version   *)
(* to promote - or the end of the process.  Nothing cleans up, except that  *)
(* the storage library removes a file whose checksum is wrong.              *)
Stop(h) ==
  /\ at[h] # "idle"
  /\ Ends(h, None)
  /\ \/ UNCHANGED file
     \/ at[h] = "downloading" /\ file' = [file EXCEPT ![h] = None]
  /\ loaded' = [loaded EXCEPT ![h] = IF at[h] = "resolving" THEN 0 ELSE @]
  /\ UNCHANGED <<registry, traced>>

-----------------------------------------------------------------------------
(* upload_llm_model.py *)

(* The object is there already, or FORCE_UPLOAD is set.                     *)
StartUpload(h) ==
  /\ model = "llm" /\ at[h] = "idle" /\ file[h] # None
  /\ \/ bucket # None /\ Ends(h, "upload")
     \/ Goto(h, "uploading") /\ Keeps
  /\ UNCHANGED <<registry, file, service>>

Upload(h) ==
  /\ at[h] = "uploading"
  /\ bucket' = file[h]
  /\ Ends(h, "upload")
  /\ UNCHANGED <<model, versions, file, service>>

-----------------------------------------------------------------------------
(* register_llm_generator.py, register_anomaly_model.py *)

(* A version is in Production already, or FORCE_REGISTER is set.            *)
StartRegister(h) ==
  /\ at[h] = "idle"
  /\ \/ Production # {} /\ Ends(h, "register")
     \/ Goto(h, "validating") /\ Keeps
  /\ UNCHANGED <<registry, file, service>>

(* A faulty variant: the file is not looked for.                            *)
ValidateBucketOnly(h) ==
  /\ at[h] = "validating"
  /\ model = "llm" => bucket # None
  /\ Goto(h, "registering") /\ Keeps
  /\ UNCHANGED <<registry, file, service>>

(* The artifacts are on h, and the LLM is in the bucket - some LLM.         *)
Validate(h) ==
  /\ at[h] = "validating"
  /\ file[h] # None
  /\ model = "llm" => bucket # None
  /\ Goto(h, "registering") /\ Keeps
  /\ UNCHANGED <<registry, file, service>>

(* A faulty variant: the hash is that of the object in the bucket.          *)
RegisterBucketHash(h) ==
  /\ at[h] = "registering"
  /\ Len(versions) < MaxVersions
  /\ versions' = Append(versions, [content |-> bucket, stage |-> "None"])
  /\ own' = [own EXCEPT ![h] = Len(versions) + 1]
  /\ Goto(h, "finding")
  /\ UNCHANGED <<model, bucket, file, found, source, service>>

(* The version records the file on h, for the LLM its hash; which file the  *)
(* bucket has was not asked.                                                *)
Register(h) ==
  /\ at[h] = "registering"
  /\ Len(versions) < MaxVersions
  /\ versions' = Append(versions, [content |-> file[h], stage |-> "None"])
  /\ own' = [own EXCEPT ![h] = Len(versions) + 1]
  /\ Goto(h, "finding")
  /\ UNCHANGED <<model, bucket, file, found, source, service>>

(* A faulty variant: the oldest version without a stage.                    *)
FindOldest(h) ==
  /\ at[h] = "finding"
  /\ \E n \in InStage("None") :
       /\ \A m \in InStage("None") : n <= m
       /\ found' = [found EXCEPT ![h] = n]
  /\ Goto(h, "promoting")
  /\ UNCHANGED <<registry, file, own, source, service>>

(* The version "just registered" is asked for by its stage, not by number.  *)
Find(h) ==
  /\ at[h] = "finding"
  /\ \E n \in DOMAIN versions :
       Latest(n, "None") /\ found' = [found EXCEPT ![h] = n]
  /\ Goto(h, "promoting")
  /\ UNCHANGED <<registry, file, own, source, service>>

(* A faulty variant: the versions in Production are not archived.           *)
PromoteArchivesNone(h) ==
  /\ at[h] = "promoting"
  /\ versions' = [versions EXCEPT ![found[h]].stage = "Production"]
  /\ Ends(h, "register")
  /\ UNCHANGED <<model, bucket, file, service>>

(* transition_model_version_stage(), archiving what is in Production.       *)
Promote(h) ==
  /\ at[h] = "promoting"
  /\ versions' =
       [n \in DOMAIN versions |->
          [content |-> versions[n].content,
           stage   |-> IF n = found[h] THEN "Production"
                       ELSE IF n \in Production THEN "Archived"
                       ELSE versions[n].stage]]
  /\ Ends(h, "register")
  /\ UNCHANGED <<model, bucket, file, service>>

-----------------------------------------------------------------------------
(* download_llm_model.py *)

(* A file that is there is hashed, the hash is logged and compared with     *)
(* nothing.  Without a file, or with FORCE_DOWNLOAD, download_to_filename() *)
(* opens it for writing, which empties it, and asks for the object.         *)
StartDownload(h) ==
  /\ model = "llm" /\ at[h] = "idle" /\ bucket # None
  /\ \/ file[h] # None /\ Ends(h, "download") /\ UNCHANGED file
     \/ /\ Goto(h, "downloading")
        /\ file' = [file EXCEPT ![h] = Truncated]
        /\ source' = [source EXCEPT ![h] = bucket]
        /\ UNCHANGED <<own, found>>
  /\ UNCHANGED <<registry, service>>

Download(h) ==
  /\ at[h] = "downloading"
  /\ file' = [file EXCEPT ![h] = source[h]]
  /\ Ends(h, "download")
  /\ UNCHANGED <<registry, service>>

-----------------------------------------------------------------------------
(* model_loader.py, called by the lifespan of the anomaly API *)

(* The API on h starts: load_model() loads what is in Production ...        *)
Load(h) ==
  /\ model = "anomaly" /\ at[h] = "idle"
  /\ \E n \in DOMAIN versions :
       Latest(n, "Production") /\ loaded' = [loaded EXCEPT ![h] = n]
  /\ traced' = [traced EXCEPT ![h] = 0]
  /\ Goto(h, "resolving") /\ Keeps
  /\ UNCHANGED <<registry, file>>

(* A faulty variant: the number of the newest version of all.               *)
ResolveNewest(h) ==
  /\ at[h] = "resolving"
  /\ traced' = [traced EXCEPT ![h] = Len(versions)]
  /\ Ends(h, None)
  /\ UNCHANGED <<registry, file, loaded>>

(* ... and _resolve_version() asks which one that is, or cannot.            *)
Resolve(h) ==
  /\ at[h] = "resolving"
  /\ \/ \E n \in DOMAIN versions :
          Latest(n, "Production") /\ traced' = [traced EXCEPT ![h] = n]
     \/ traced' = [traced EXCEPT ![h] = Unknown]
  /\ Ends(h, None)
  /\ UNCHANGED <<registry, file, loaded>>

-----------------------------------------------------------------------------
Next ==
  \E h \in Hosts :
    \/ Replace(h) \/ Stop(h)
    \/ StartUpload(h) \/ Upload(h)
    \/ StartRegister(h) \/ Validate(h) \/ Register(h) \/ Find(h) \/ Promote(h)
    \/ StartDownload(h) \/ Download(h)
    \/ Load(h) \/ Resolve(h)

Spec == Init /\ [][Next]_vars

-----------------------------------------------------------------------------
(* Properties *)

(* Every variable has its type.                                             *)
TypeOK ==
  /\ model \in Models
  /\ file \in [Hosts -> Files]
  /\ bucket \in Files
  /\ versions \in Seq([content : Files \ {None}, stage : Stages])
  /\ at \in [Hosts -> Calls \cup {"idle"}]
  /\ own \in [Hosts -> Nat]
  /\ found \in [Hosts -> Nat]
  /\ source \in [Hosts -> Files]
  /\ done \in [Hosts -> Scripts \cup {None}]
  /\ loaded \in [Hosts -> Nat]
  /\ traced \in [Hosts -> Nat \cup {Unknown}]

(* At most one version is in Production, and as soon as one is there always *)
(* is one: an API that starts while scripts race or die finds its model.    *)
KeepsProduction ==
  \/ Production = {} /\ Production' = {}
  \/ \E n \in DOMAIN versions' : Production' = {n}

AlwaysOneProduction == [][KeepsProduction]_vars

(* A script is not about to promote what an earlier one left behind when it *)
(* died: the version it found is the one it registered or a newer one,      *)
(* unless another script has promoted the one it registered already.        *)
PromotesNoLeftover ==
  \A h \in Hosts :
    at[h] = "promoting" /\ found[h] < own[h] => versions[own[h]].stage # "None"

(* The bucket and the registry have the same binary of the LLM after a      *)
(* promotion (upload_llm_model.py:8-10), if the host's own file is the one  *)
(* in the bucket by then and the host promotes the version it registered.   *)
(* They need not have it if the host's file was replaced and its upload     *)
(* skipped, if another host uploaded a different one meanwhile, or if the   *)
(* host promotes the version of another.                                    *)
PromotesWhatIsBackedUp(h) ==
  /\ model = "llm" /\ at[h] = "promoting" /\ done'[h] = "register"
  /\ file[h] = bucket /\ found[h] = own[h]
  => \A n \in Production' : versions'[n].content = bucket'

BackedUp == [][\A h \in Hosts : PromotesWhatIsBackedUp(h)]_vars

(* An API that has just started names the version it serves with in its     *)
(* rows, or none - unless another version was promoted between its loading  *)
(* the model and its asking for the number.                                 *)
TracesWhatItLoaded(h) ==
  traced'[h] # traced[h] /\ traced'[h] \notin {0, Unknown, loaded'[h]} =>
    loaded[h] \notin Production

TraceIsExact == [][\A h \in Hosts : TracesWhatItLoaded(h)]_vars

-----------------------------------------------------------------------------
(* What the documentation says and the code does not do *)

(* download_llm_model.py:6-7 - a file is kept if its hash is the right one: *)
(* after a download that ended normally, it is complete.                    *)
DownloadedIsComplete ==
  \A h \in Hosts : done[h] = "download" => file[h] # Truncated
=============================================================================
