----------------------------- MODULE Conversions -----------------------------
(***************************************************************************)
(* The functions of the compatibility headers that only compute: the error *)
(* pointers of linux/err.h, the delays of linux/delay.h, DIV_ROUND_UP of   *)
(* linux/kernel.h and portMemCopy of linux/port_mem.h.  Unsigned values    *)
(* wrap; a pointer is the unsigned long of its address, and NULL is 0.     *)
(***************************************************************************)
EXTENDS Integers

CONSTANTS
  LongMax,   \* the largest long: 2^63 - 1 in the code
  UintMax    \* the largest unsigned int: 2^32 - 1 in the code

UlongMax == 2 * LongMax + 1

Longs == (-LongMax - 1)..LongMax
Ulongs == 0..UlongMax
Uints == 0..UintMax

\* The conversions between long and unsigned long that C's casts make.
ToUlong(i) == IF i < 0 THEN i + UlongMax + 1 ELSE i
ToLong(u) == IF u > LongMax THEN u - UlongMax - 1 ELSE u

-----------------------------------------------------------------------------
(* err.h and errno.h *)

MAX_ERRNO == 4095

EIO == 5
EINVAL == 22

Errnos == 1..34

IS_ERR_VALUE(x) == x >= ToUlong(-MAX_ERRNO)

ERR_PTR(error) == ToUlong(error)
PTR_ERR(ptr) == ToLong(ptr)
IS_ERR(ptr) == IS_ERR_VALUE(ptr)
IS_ERR_OR_NULL(ptr) == ptr = 0 \/ IS_ERR_VALUE(ptr)

-----------------------------------------------------------------------------
(* delay.h: for how many microseconds each function waits.  The products    *)
(* have the type of the argument.  DriverKit's IODelay takes microseconds,  *)
(* but its IOSleep takes milliseconds, whatever the comment in msleep says. *)

IODelay(us) == us
IOSleep(ms) == ms * 1000

udelay(usecs) == IODelay(usecs)
mdelay(msecs) == IODelay((msecs * 1000) % (UlongMax + 1))
msleep(msecs) == IOSleep((msecs * 1000) % (UintMax + 1))

-----------------------------------------------------------------------------
(* kernel.h, for arguments of type unsigned long *)

DIV_ROUND_UP(n, d) == ((n + d - 1) % (UlongMax + 1)) \div d

-----------------------------------------------------------------------------
(* port_mem.h *)

\* The caller's duty: for areas that overlap memcpy is undefined.
Disjoint(dest, src, count) == dest + count <= src \/ src + count <= dest

\* The memory of count bytes from src on is copied to dest; memory is a
\* function of the address, and destSize is what the caller says of dest.
portMemCopy(memory, dest, destSize, src, count) ==
  IF destSize < count
  THEN [returned |-> 0, memory |-> memory]
  ELSE [returned |-> dest,
        memory |-> [a \in DOMAIN memory |->
                      IF a \in dest..(dest + count - 1) THEN memory[a - dest + src]
                      ELSE memory[a]]]
=============================================================================
