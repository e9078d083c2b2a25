------------------------------- MODULE Bundle -------------------------------
(***************************************************************************)
(* The .fbundle archive, from an esp-idf build directory on one machine to *)
(* the flash plan on another: Load and FromBuildDir, Pack, the file and    *)
(* what may happen to it, Open, FlashFiles.                                *)
(*                                                                         *)
(* The archive is a gzip stream of tar entries: the manifest, the images   *)
(* by base name, and the blocks that end a tar.  A digest stands for the   *)
(* data it is of: two contents with one SHA-256 are not considered.        *)
(***************************************************************************)
EXTENDS FlashSize, Sequences, SequencesExt, Functions

CONSTANTS
    Keys,           \* keys of flash_files: offsets as they are written ...
    BadKeys,        \* ... those that are no number ...
    Offset,         \* ... what ParseUint makes of the others; two keys may be
                    \* one offset ("0x8000", "32768")
    Paths,          \* images of the build directory
    Base,           \* path -> base name
    Contents,       \* contents of images
    Sizes,          \* flash sizes of a build
    MaxFaults       \* bound: damage to the finished archive

Damaged == "damaged"

ASSUME BundleAssumption ==
    /\ IsFiniteSet(Keys) /\ BadKeys \subseteq Keys
    /\ Offset \in [Keys \ BadKeys -> Nat]
    /\ DOMAIN Base = Paths
    /\ Damaged \notin Contents /\ Sizes \subseteq FlashSize
    /\ MaxFaults \in Nat

VARIABLES
    build,          \* flash_files: keys -> paths, for some of the keys
    content,        \* of the images; "none" for one that cannot be read
    size,           \* flash_size of the build
    step,           \* "start", "packing", "packed", "aborted" (pack died or
                    \* reported an error), "reading", "opened", "refused"
    bundle,         \* the Bundle: [size, files, data]
    archive,        \* the file: sequence of entries
    footer,         \* the file holds the blocks that end the tar
    read,           \* entries Open has read
    whole,          \* pack reported success
    faults

vars == <<build, content, size, step, bundle, archive, footer, read, whole, faults>>

Names == Range(Base)
Data == Contents \cup {Damaged}
NoSize == [readable |-> FALSE, n |-> 0, unit |-> ""]
NoBundle == [size |-> NoSize, files |-> <<>>, data |-> <<>>]

-----------------------------------------------------------------------------
(* Load, FromBuildDir. *)

\* Operators named Bug... are mistakes that could be made in this code.  No
\* behaviour uses them: PROJECT.json pairs each with the definition it would
\* replace and the property that then fails.

\* sort.Slice by offset: the order of equal offsets is left open.  Load starts
\* from a map, whose order is any.
SortedBy(at) ==
    {s \in SetToSeqs(DOMAIN at) : \A i, j \in DOMAIN s : i < j => at[s[i]] <= at[s[j]]}

BugRelativeName(path) == path
EntryName(path) == Base[path]

Readable ==
    \A k \in DOMAIN build : k \notin BadKeys /\ content[build[k]] # "none"

\* The images of a build in flash order, as [offset, name, data].
Loaded ==
    {[i \in DOMAIN s |-> [offset |-> Offset[s[i]], name |-> EntryName(build[s[i]]),
                          data |-> content[build[s[i]]]]] :
     s \in SortedBy([k \in DOMAIN build |-> Offset[k]])}

\* b.data is keyed by base name: of two images with one, the last stays.
FromFiles(files) ==
    [size |-> size, files |-> [i \in DOMAIN files |->
        [offset |-> files[i].offset, name |-> files[i].name, sha |-> files[i].data]],
     data |-> [n \in {files[i].name : i \in DOMAIN files} |->
        files[CHOOSE i \in DOMAIN files :
                /\ files[i].name = n
                /\ \A j \in DOMAIN files : files[j].name = n => j <= i].data]]

Init ==
    /\ build \in UNION {[ks -> Paths] : ks \in SUBSET Keys}
    /\ content \in [Paths -> Contents \cup {"none"}] /\ size \in Sizes
    /\ step = "start" /\ bundle = NoBundle
    /\ archive = <<>> /\ footer = FALSE
    /\ read = 0 /\ whole = FALSE /\ faults = 0

FromBuildDir ==
    /\ step = "start" /\ Readable
    /\ \E files \in Loaded : bundle' = FromFiles(files)
    /\ step' = "packing"
    /\ UNCHANGED <<build, content, size, archive, footer, read, whole, faults>>

\* cmdPack has created no file yet.
FromBuildDirFails ==
    /\ step = "start" /\ ~Readable
    /\ step' = "refused"
    /\ UNCHANGED <<build, content, size, bundle, archive, footer, read, whole, faults>>

-----------------------------------------------------------------------------
(* Pack. *)

ManifestEntry(b) == [kind |-> "manifest", size |-> b.size, files |-> b.files]
FileEntry(name, data) == [kind |-> "file", name |-> name, data |-> data]

Files(b, names) == [i \in DOMAIN names |-> FileEntry(names[i], b.data[names[i]])]

\* Everything Pack writes, the images in one fixed order of their names.
BugOneNameLeft(b) ==
    <<ManifestEntry(b)>> \o Files(b, SubSeq(SetToSeq(DOMAIN b.data), 2, Cardinality(DOMAIN b.data)))
Packing(b) == <<ManifestEntry(b)>> \o Files(b, SetToSeq(DOMAIN b.data))

WriteEntry ==
    /\ step = "packing" /\ Len(archive) < Len(Packing(bundle))
    /\ archive' = Append(archive, Packing(bundle)[Len(archive) + 1])
    /\ UNCHANGED <<build, content, size, step, bundle, footer, read, whole, faults>>

\* tw.Close, gz.Close.  An error of the file's own Close, which cmdPack ignores, leaves
\* what Truncate makes of the file, with success reported.
Close ==
    /\ step = "packing" /\ Len(archive) = Len(Packing(bundle))
    /\ footer' = TRUE /\ whole' = TRUE
    /\ step' = "packed" /\ bundle' = NoBundle
    /\ UNCHANGED <<build, content, size, archive, read, faults>>

\* A write fails, or the program ends.  The file stays, with as much of the
\* stream as the compressor has let out.
PackAborts ==
    /\ step = "packing"
    /\ \E n \in 0..Len(archive) : archive' = SubSeq(archive, 1, n)
    /\ footer' \in {FALSE, Len(archive) = Len(Packing(bundle)) /\ archive' = archive}
    /\ step' = "aborted" /\ bundle' = NoBundle
    /\ UNCHANGED <<build, content, size, read, whole, faults>>

-----------------------------------------------------------------------------
(* Outside the program: the file is copied, stored, damaged.               *)

Truncate ==
    /\ step \in {"packed", "aborted"} /\ faults < MaxFaults /\ faults' = faults + 1
    /\ \E n \in 0..Len(archive) : archive' = SubSeq(archive, 1, n)
    /\ footer' \in {FALSE, footer /\ archive' = archive}    \* or only gzip's trailer is cut
    /\ UNCHANGED <<build, content, size, step, bundle, read, whole>>

\* The data of one image; or, in the manifest, which stays readable, an offset or the
\* flash size.
Damage ==
    /\ step \in {"packed", "aborted"} /\ faults < MaxFaults /\ faults' = faults + 1
    /\ \E i \in DOMAIN archive :
        \/ /\ archive[i].kind = "file"
           /\ archive' = [archive EXCEPT ![i].data = Damaged]
        \/ /\ archive[i].kind = "manifest"
           /\ \E j \in DOMAIN archive[i].files, o \in Range(Offset) :
                  archive' = [archive EXCEPT ![i].files[j].offset = o]
        \/ /\ archive[i].kind = "manifest"
           /\ \E s \in Sizes : archive' = [archive EXCEPT ![i].size = s]
    /\ UNCHANGED <<build, content, size, step, bundle, footer, read, whole>>

-----------------------------------------------------------------------------
(* Open, FlashFiles. *)

StartOpen ==
    /\ step \in {"packed", "aborted"}
    /\ step' = "reading" /\ read' = 0 /\ bundle' = NoBundle
    /\ UNCHANGED <<build, content, size, archive, footer, whole, faults>>

\* tr.Next, io.ReadAll: a later entry of a name replaces an earlier one.
ReadEntry ==
    /\ step = "reading" /\ read < Len(archive)
    /\ read' = read + 1
    /\ LET e == archive[read + 1] IN
       bundle' = IF e.kind = "manifest" THEN [bundle EXCEPT !.size = e.size, !.files = e.files]
                 ELSE [bundle EXCEPT !.data = [n \in DOMAIN @ \cup {e.name} |->
                           IF n = e.name THEN e.data ELSE @[n]]]
    /\ UNCHANGED <<build, content, size, step, archive, footer, whole, faults>>

HaveManifest == \E i \in DOMAIN archive : archive[i].kind = "manifest"

BugPresenceOnly(b, f) == f.name \in DOMAIN b.data
Intact(b, f) == f.name \in DOMAIN b.data /\ b.data[f.name] = f.sha

\* Open stops at the end of the tar, before the checksum of the gzip stream:
\* what it checks are the digests.
AtEnd == footer /\ HaveManifest

Verify ==
    /\ step = "reading" /\ read = Len(archive)
    /\ step' = IF AtEnd /\ \A i \in DOMAIN bundle.files : Intact(bundle, bundle.files[i])
               THEN "opened" ELSE "refused"
    /\ UNCHANGED <<build, content, size, bundle, archive, footer, read, whole, faults>>

\* FlashFiles: sorted by offset again.
FlashFiles ==
    {[i \in DOMAIN s |-> [offset |-> bundle.files[s[i]].offset,
                          data |-> bundle.data[bundle.files[s[i]].name]]] :
     s \in SortedBy([i \in DOMAIN bundle.files |-> bundle.files[i].offset])}

Next ==
    \/ FromBuildDir \/ FromBuildDirFails
    \/ WriteEntry \/ Close \/ PackAborts
    \/ Truncate \/ Damage
    \/ StartOpen \/ ReadEntry \/ Verify

Spec == Init /\ [][Next]_vars

-----------------------------------------------------------------------------
(* Properties. *)

ManifestFile == [offset : Nat, name : Names, sha : Data]
Entry == [kind : {"manifest"}, size : Sizes, files : Seq(ManifestFile)]
             \cup [kind : {"file"}, name : Names, data : Data]

TypeOK ==
    /\ bundle.files \in Seq(ManifestFile) /\ bundle.size \in Sizes \cup {NoSize}
    /\ DOMAIN bundle.data \subseteq Names /\ Range(bundle.data) \subseteq Data
    /\ archive \in Seq(Entry)
    /\ read \in 0..Len(archive)
    /\ step \in {"start", "packing", "packed", "aborted", "reading", "opened", "refused"}
    /\ footer \in BOOLEAN /\ whole \in BOOLEAN /\ faults \in 0..MaxFaults

\* The plan of the build directory itself, as loadFlashSource returns it.
BuildPlans ==
    {[i \in DOMAIN s |-> [offset |-> s[i].offset, data |-> s[i].data]] : s \in Loaded}

\* The manifest names the offsets of the build: no fault has changed one.
ManifestKept ==
    \E s \in Loaded : [i \in DOMAIN s |-> s[i].offset]
        = [i \in DOMAIN bundle.files |-> bundle.files[i].offset]

\* "build on one machine and `flasher flash bundle.fbundle` on any other"
\* (bundle/bundle.go:3): a bundle that opens has the flash plan of the build
\* directory, whatever became of the archive and of pack, unless the manifest's
\* own offsets, which no digest covers, were damaged.
SamePlan == step = "opened" /\ ManifestKept => FlashFiles = BuildPlans

\* cmdFlash sets up the flash with what loadFlashSource returns, from the bundle as
\* from the build directory: the size of the build, exact when a uint32 holds it.
Exact ==
    step = "opened" /\ faults = 0 =>
        /\ FlashSizeBytes(bundle.size) = FlashSizeBytes(size)
        /\ Fits(size) => FlashSizeBytes(bundle.size) = size.n * Mult(size.unit)

\* Two images with one base name and different contents.
Clash ==
    \E k, l \in DOMAIN build :
        Base[build[k]] = Base[build[l]] /\ content[build[k]] # content[build[l]]

\* "It lets you build on one machine and `flasher flash bundle.fbundle` on any
\* other, with no esp-idf." (bundle/bundle.go:3): a bundle that pack reported,
\* undamaged, is refused only for a clash, which pack does not notice.
RefusedForCause == step = "refused" /\ whole => faults > 0 \/ Clash
=============================================================================
