-------------------------------- MODULE Files --------------------------------
(***************************************************************************)
(* The host's files in the page: browsing, uploading and attaching         *)
(* (readDirectory, openFileEntry, goParentDirectory, uploadFiles,          *)
(* attachBrowserImage, attachHostPath, addAttachment and removeAttachment  *)
(* of src/frontend/src/stores/useCodexSession.ts).  Every call is a job of *)
(* its own that ends, well or not, in any order.  A path is a sequence of  *)
(* names; an attachment is the path of a file, and stays one when it is    *)
(* added again.                                                            *)
(***************************************************************************)
EXTENDS Integers, Sequences, SequencesExt

CONSTANTS
    Tree,       \* directories of the host
    HostFiles,  \* paths of the files the host has from the start
    Uploads,    \* names of the files the user may upload, each once
    Images,     \* those of them that are images
    Jobs        \* bound: one for each call of the page to the host

ASSUME FilesAssumption ==
    /\ <<>> \in Tree
    /\ HostFiles \subseteq Seq(STRING)
    /\ \A f \in HostFiles : f # <<>> /\ Front(f) \in Tree
    /\ Images \subseteq Uploads /\ IsFiniteSet(Uploads)

\* The empty string, where a path is not set.
NoPath == <<"">>
Paths == Seq(STRING)

VARIABLES
    cwd,         \* settings.cwd
    path,        \* files.path
    listed,      \* files.entries: those of this directory
    loading,     \* files.loading
    uploading,   \* files.uploading
    attachments, \* attachments
    jobs,        \* calls the page awaits, with what the caller still has to do
    stored,      \* host: files written
    aim,         \* history: the files uploaded, in the directories then shown
    met          \* history: two listings have been awaited together since the
                 \* last time none was

\* A listing of `dir', or a write of the first of `files' into `dir'; `batch':
\* awaited by uploadFiles.
NoJob == [op |-> "none", dir |-> NoPath, files |-> <<>>, batch |-> FALSE]
Listing(dir, batch) == [op |-> "list", dir |-> dir, files |-> <<>>, batch |-> batch]
Write(dir, files, batch) == [op |-> "write", dir |-> dir, files |-> files, batch |-> batch]

browseVars == <<cwd, path, listed, loading, met>>
uploadVars == <<uploading, stored, aim>>
filesVars == <<browseVars, uploadVars, attachments, jobs>>

\* No thread is open yet; the settings name a directory, or none.
FilesInit ==
    /\ cwd \in {NoPath, <<>>} /\ path = NoPath /\ listed = NoPath
    /\ loading = FALSE /\ uploading = FALSE /\ met = FALSE
    /\ attachments = {}
    /\ jobs = [j \in Jobs |-> NoJob]
    /\ stored = {} /\ aim = {}

-----------------------------------------------------------------------------
Idle(j) == jobs[j] = NoJob
Awaited(op) == {j \in Jobs : jobs[j].op = op}

\* parentPath: there is none above the root.
ParentPath(p) == IF p = <<>> THEN NoPath ELSE Front(p)

\* The directory an upload goes to.
Shown == IF path # NoPath THEN path ELSE cwd

AddAttachment(f) == attachments' = attachments \cup {f}

-----------------------------------------------------------------------------
(* The user.                                                                *)

\* readDirectory up to its call: without a path there is only an error.
StartListing(j, dir, batch) ==
    /\ dir # NoPath
    /\ jobs' = [jobs EXCEPT ![j] = Listing(dir, batch)]
    /\ loading' = TRUE
    /\ met' = (met \/ Awaited("list") # {})

\* The files tab, the refresh button, an entry that is a directory, and the
\* parent button.
Browse(j) ==
    /\ Idle(j)
    /\ \/ StartListing(j, Shown, FALSE)
       \/ \E d \in Tree : d # <<>> /\ Front(d) = listed
                          /\ StartListing(j, Append(path, Last(d)), FALSE)
       \/ path # NoPath /\ StartListing(j, ParentPath(path), FALSE)
    /\ UNCHANGED <<cwd, path, listed, uploadVars, attachments>>

\* openFileEntry on a file of the listing: attachHostPath.
AttachEntry ==
    \E f \in HostFiles :
        /\ Front(f) = listed
        /\ AddAttachment(Append(path, Last(f)))
        /\ UNCHANGED <<browseVars, uploadVars, jobs>>

RemoveAttachment(f) ==
    /\ f \in attachments
    /\ attachments' = attachments \ {f}
    /\ UNCHANGED <<browseVars, uploadVars, jobs>>

\* uploadFiles and attachBrowserImage keep the directory for all they write.
\* The upload button is disabled while an upload runs.
Upload(j, files, batch) ==
    /\ Idle(j) /\ Shown # NoPath
    /\ jobs' = [jobs EXCEPT ![j] = Write(Shown, files, batch)]
    /\ uploading' = (uploading \/ batch)
    /\ aim' = aim \cup {Append(Shown, f) : f \in Range(files)}
    /\ UNCHANGED <<browseVars, stored, attachments>>

Picked == {Last(f) : f \in aim}
UploadFiles(j) ==
    /\ ~uploading
    /\ \E files \in SetToSeqs(Uploads \ Picked) : files # <<>> /\ Upload(j, files, TRUE)
AttachBrowserImage(j) == \E f \in Images \ Picked : Upload(j, <<f>>, FALSE)

-----------------------------------------------------------------------------
(* The host (external).                                                     *)

\* The call has run, its answer is still to come.
Stores(j) ==
    /\ jobs[j].op = "write"
    /\ stored' = stored \cup {Append(jobs[j].dir, Head(jobs[j].files))}
    /\ stored' # stored
    /\ UNCHANGED <<browseVars, uploading, aim, attachments, jobs>>

-----------------------------------------------------------------------------
(* Answers.                                                                 *)

\* The end of a job, by an answer or an error; finally, loading or uploading
\* is over.
Finish(j) ==
    /\ jobs' = [jobs EXCEPT ![j] = NoJob]
    /\ uploading' = (uploading /\ ~jobs[j].batch)
    /\ loading' = (loading /\ jobs[j].op # "list")
    /\ met' = (met /\ Awaited("list") \ {j} # {})

Listed(j) ==
    /\ jobs[j].op = "list" /\ jobs[j].dir \in Tree
    /\ path' = jobs[j].dir /\ listed' = jobs[j].dir
    /\ Finish(j)
    /\ UNCHANGED <<cwd, stored, aim, attachments>>

\* Mutant: the directory of each file is that shown when its turn comes.
NextFileShown(job) == [job EXCEPT !.files = Tail(@), !.dir = Shown]

NextFile(job) == [job EXCEPT !.files = Tail(@)]

\* Images are attached.  uploadFiles goes on with its next file, and in the
\* end lists the directory it wrote to.
Written(j) ==
    LET job == jobs[j]
        file == Head(job.files)
    IN  /\ job.op = "write" /\ Append(job.dir, file) \in stored
        /\ attachments' = attachments \cup (IF file \in Images THEN {Append(job.dir, file)} ELSE {})
        /\ IF Len(job.files) > 1
           THEN /\ jobs' = [jobs EXCEPT ![j] = NextFile(job)]
                /\ UNCHANGED <<loading, uploading, met>>
           ELSE IF job.batch
           THEN StartListing(j, job.dir, TRUE) /\ UNCHANGED uploading
           ELSE Finish(j)
        /\ UNCHANGED <<cwd, path, listed, stored, aim>>

\* Mutant: an error leaves the signs as they are.
JobFailsBusy(j) ==
    /\ ~Idle(j)
    /\ jobs' = [jobs EXCEPT ![j] = NoJob]
    /\ met' = (met /\ Awaited("list") \ {j} # {})
    /\ UNCHANGED <<cwd, path, listed, loading, uploadVars, attachments>>

\* An error, a timeout or a lost connection, whether or not the host has
\* stored the file; uploadFiles leaves out the rest.
JobFails(j) ==
    /\ ~Idle(j)
    /\ Finish(j)
    /\ UNCHANGED <<cwd, path, listed, stored, aim, attachments>>

-----------------------------------------------------------------------------
(* openThread shows the directory of the thread, without listing it.        *)
ShowDirectory(dir) ==
    /\ cwd' = dir /\ path' = dir
    /\ UNCHANGED <<listed, loading, met>>

FilesNext ==
    \/ AttachEntry \/ \E f \in attachments : RemoveAttachment(f)
    \/ \E j \in Jobs :
          \/ Browse(j) \/ UploadFiles(j) \/ AttachBrowserImage(j)
          \/ Stores(j) \/ Listed(j) \/ Written(j) \/ JobFails(j)
=============================================================================
