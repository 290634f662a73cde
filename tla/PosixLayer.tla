----------------------------- MODULE PosixLayer -----------------------------
(* The headers siox-skeleton-builder is run on: which annotations a        *)
(* function of POSIX, MPI, HDF5 or NetCDF has, and in which order.         *)
EXTENDS InstrumentedLayer

NoArg == {Invalid}

Function(notes, guard, uses, effect) ==
    [notes |-> notes, guard |-> guard, uses |-> uses, uses2 |-> NoArg, effect |-> effect,
     gives |-> {}, network |-> FALSE, keeps |-> FALSE]
Gives(f, hs, network) == [f EXCEPT !.gives = hs, !.network = network]

-----------------------------------------------------------------------------
(* POSIX: guarded, and errorErrno comes first.                             *)

POSIX(notes, uses, effect) == Function(<<error>> \o notes, TRUE, uses, effect)
ByDescriptor == activityComponentSwitcher2BasedOnParent("arg")

open == Gives(POSIX(<<horizontal_map_put("int", "ret")>>, NoArg, "create"), Ints, FALSE)

\* Mutant: the network table is forgotten.
closeFile == POSIX(<<ByDescriptor, horizontal_map_remove("int", "arg")>>, Ints, "destroy")

close == POSIX(<<ByDescriptor, horizontal_map_remove("int", "arg"),
                 horizontal_map_remove("network", "arg")>>, Ints, "destroy")

dup == POSIX(<<ByDescriptor, horizontal_map_put_ID("int", "ret")>>, Ints, "alias")

dup2 == [POSIX(<<ByDescriptor, horizontal_map_put_ID("int", "arg2")>>, Ints, "onto")
            EXCEPT !.uses2 = Ints]

\* read, write and their variants
read == POSIX(<<ByDescriptor>>, Ints, "none")

\* fsync, lseek, posix_fadvise
lseek == POSIX(<<activity_link("int", "arg")>>, Ints, "none")
sendfile == [POSIX(<<activity_link("int", "arg"), activity_link("int", "arg2")>>, Ints, "none")
                EXCEPT !.uses2 = Ints]

\* lockf, flock
flock == POSIX(<<activity_link("int", "arg")>>, Ints, "none")

\* Calls by name: remove, rename, stat; and asynchronous ones
rename == POSIX(<< >>, NoArg, "none")
aio_read == POSIX(<< >>, NoArg, "none")

fopen == POSIX(<<filenoAfter("ret"), horizontal_map_put("size", "ret")>>, NoArg, "fopen")
\* fopen64, tmpfile
fopen64 == POSIX(<<horizontal_map_put("size", "ret"), filenoAfter("ret")>>, NoArg, "fopen")
fdopen == POSIX(<<activity_link("int", "arg"), horizontal_map_put("size", "ret")>>, Ints, "fdopen")
filenoCall == POSIX(<<activity_link("size", "arg"), horizontal_map_put("int", "ret")>>, Sizes, "fileno")
freopen == POSIX(<<horizontal_map_remove("size", "arg"), horizontal_map_put("size", "ret"),
                   activity_link("size", "arg"), filenoAfter("ret")>>, Sizes, "freopen")
fclose == POSIX(<<activity_link("size", "arg"), horizontal_map_remove("size", "arg"),
                  filenoBefore("arg"), horizontal_map_remove("int", "fd"),
                  horizontal_map_remove("network", "fd")>>, Sizes, "fclose")

\* fflush, fgetc, fputs, fread, fwrite and the others
fread == POSIX(<<activity_link("size", "arg")>>, Sizes, "none")
\* setbuf, vfprintf, fscanf and the others
fprintf == POSIX(<<activity_link("size", "arg")>>, Sizes, "none")

socket == Gives(POSIX(<<horizontal_map_put("network", "ret")>>, NoArg, "create"), Ints, TRUE)
accept == Gives(POSIX(<<horizontal_map_put("network", "ret")>>, NoArg, "create"), Ints, TRUE)
\* pipe, socketpair
pipe == POSIX(<<horizontal_map_put("network", "ret"), horizontal_map_put("network", "ret2")>>,
              NoArg, "pair")

-----------------------------------------------------------------------------
(* MPI: no guard; the error comes first, but last in MPI_File_close.       *)

MPI_activity(notes, uses, effect) == Function(<<error>> \o notes, FALSE, uses, effect)

MPI_File_open == Gives(MPI_activity(<<horizontal_map_put("size", "ret")>>, NoArg, "create"),
                       Sizes, FALSE)
MPI_File_close == Function(<<activity_link("size", "arg"), horizontal_map_remove("size", "arg"),
                             error>>, FALSE, Sizes, "destroy")
\* Sizes, groups, info, views
MPI_File_set_view == MPI_activity(<<activity_link("size", "arg")>>, Sizes, "none")
\* Explicit offset, individual and shared file pointer
MPI_File_read == MPI_activity(<<activity_link("size", "arg")>>, Sizes, "none")
\* Split collective calls, atomicity and sync
MPI_File_read_all_begin == MPI_activity(<<activity_link("size", "arg")>>, Sizes, "none")
\* Communicators and types
MPI_Comm_create == MPI_activity(<< >>, NoArg, "none")
MPI_Send == MPI_activity(<< >>, NoArg, "none")

-----------------------------------------------------------------------------
(* HDF5 and NetCDF: no guard, the error comes last.                        *)

H5Fopen == Gives(Function(<<horizontal_map_put("int", "ret"), error>>, FALSE, NoArg, "create"),
                 Ints, FALSE)
H5Freopen == Function(<<activity_lookup_ID("int", "arg"), horizontal_map_put_ID("int", "ret"),
                        error>>, FALSE, Ints, "alias")
H5Fflush == Function(<<error>>, FALSE, Ints, "none")
H5Fclose == Function(<<activity_link("int", "arg"), horizontal_map_remove("int", "arg"), error>>,
                     FALSE, Ints, "destroy")
H5Dcreate == Gives(Function(<<activity_link("int", "arg"), horizontal_map_put("dtype", "ret"),
                              error>>, FALSE, Ints, "create"), Dsets, FALSE)
H5Dopen == Gives(Function(<<horizontal_map_put("dtype", "ret"), error>>, FALSE, Ints, "create"),
                 Dsets, FALSE)
H5Dread == Function(<<activity_link("dtype", "arg"), error>>, FALSE, Dsets, "none")
H5Dclose == Function(<<activity_link("dtype", "arg"), horizontal_map_remove("dtype", "arg"),
                       error>>, FALSE, Dsets, "destroy")

\* A failed call leaves *ncidp as it is.
nc_open == [H5Fopen EXCEPT !.keeps = TRUE]
nc_close == Function(<<activity_link("int", "arg"), horizontal_map_remove("int", "arg"), error>>,
                     FALSE, Ints, "destroy")

Headers ==
    [posix |-> {open, close, dup, dup2, read, lseek, flock, sendfile, socket, accept, pipe},
     stdio |-> {open, close, read, fopen, fopen64, fdopen, filenoCall, freopen, fclose, fread,
                fprintf, rename, aio_read},
     mpi |-> {MPI_File_open, MPI_File_close, MPI_File_set_view, MPI_File_read,
              MPI_File_read_all_begin, MPI_Comm_create, MPI_Send},
     hdf5 |-> {H5Fopen, H5Freopen, H5Fflush, H5Fclose, H5Dcreate, H5Dopen, H5Dread, H5Dclose},
     netcdf |-> {nc_open, nc_close}]
=============================================================================
