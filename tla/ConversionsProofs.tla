-------------------------- MODULE ConversionsProofs --------------------------
(***************************************************************************)
(* What Conversions and Pci compute, for any width of the integers.        *)
(***************************************************************************)
EXTENDS Pci, TLAPS

\* The widths for which the headers are meant: error values take up less than
\* the negative half of the longs, and a thousand is an unsigned int.
Widths ==
  /\ LongMax \in Nat /\ LongMax > MAX_ERRNO
  /\ UintMax \in Nat /\ UintMax >= 1000

\* An errno survives its way through a pointer, and the pointer is told from
\* NULL and from every address below the last MAX_ERRNO ones.
THEOREM ErrnoRoundTrip ==
  ASSUME Widths, NEW e \in 1..MAX_ERRNO
  PROVE  /\ IS_ERR(ERR_PTR(-e))
         /\ PTR_ERR(ERR_PTR(-e)) = -e
         /\ ERR_PTR(-e) # 0
         /\ Errnos \subseteq 1..MAX_ERRNO
BY DEF Widths, IS_ERR, IS_ERR_VALUE, ERR_PTR, PTR_ERR, ToUlong, ToLong, UlongMax, MAX_ERRNO,
       Errnos

\* IS_ERR holds of the images of the errnos and of no other pointer, NULL included:
\* an address is an error only in the last MAX_ERRNO bytes of the address space.
THEOREM ErrorsExactly ==
  ASSUME Widths, NEW p \in Ulongs
  PROVE  /\ IS_ERR(p) <=> \E e \in 1..MAX_ERRNO : p = ERR_PTR(-e)
         /\ IS_ERR_OR_NULL(p) <=> IS_ERR(p) \/ p = 0
         /\ p = 0 => ~IS_ERR(p)
<1> USE DEF Widths, IS_ERR, IS_ERR_VALUE, ERR_PTR, ToUlong, UlongMax, Ulongs, MAX_ERRNO
<1>1. ASSUME IS_ERR(p) PROVE \E e \in 1..MAX_ERRNO : p = ERR_PTR(-e)
  <2>1. UlongMax + 1 - p \in 1..MAX_ERRNO
    BY <1>1
  <2>2. p = ERR_PTR(-(UlongMax + 1 - p))
    BY <1>1, <2>1
  <2> QED
    BY <2>1, <2>2
<1>2. ASSUME NEW e \in 1..MAX_ERRNO, p = ERR_PTR(-e) PROVE IS_ERR(p)
  BY <1>2
<1>3. p = 0 => ~IS_ERR(p)
  OBVIOUS
<1>4. IS_ERR_OR_NULL(p) <=> p = 0 \/ IS_ERR(p)
  BY DEF IS_ERR_OR_NULL
<1> HIDE DEF Widths, IS_ERR, IS_ERR_VALUE, ERR_PTR, ToUlong, UlongMax, Ulongs, MAX_ERRNO
<1>5. IS_ERR(p) <=> \E e \in 1..MAX_ERRNO : p = ERR_PTR(-e)
  BY <1>1, <1>2
<1> QED
  BY <1>3, <1>4, <1>5

\* The method of IOPCIDevice is called exactly with a pci_dev that has a device, and
\* a read also with somewhere to put the value; 0 is reported exactly if it was called
\* and succeeded, and what is reported otherwise is a value that IS_ERR recognises.
THEOREM PciResults ==
  ASSUME Widths, NEW dev \in PciDevs, NEW ok \in BOOLEAN, NEW isNull \in BOOLEAN
  PROVE  /\ pci_enable_device(dev, ok).called <=> dev = "device"
         /\ pci_disable_device(dev).called <=> dev = "device"
         /\ pci_read_config_dword(dev, isNull, ok).called <=> dev = "device" /\ ~isNull
         /\ pci_write_config_dword(dev, ok).called <=> dev = "device"
         /\ \A r \in {pci_enable_device(dev, ok), pci_read_config_dword(dev, isNull, ok),
                      pci_write_config_dword(dev, ok)} :
              /\ r.returned = 0 <=> r.called /\ ok
              /\ r.returned # 0 => IS_ERR(ERR_PTR(r.returned))
<1>1. /\ pci_enable_device(dev, ok).called <=> dev = "device"
      /\ pci_disable_device(dev).called <=> dev = "device"
      /\ pci_read_config_dword(dev, isNull, ok).called <=> dev = "device" /\ ~isNull
      /\ pci_write_config_dword(dev, ok).called <=> dev = "device"
  BY DEF pci_enable_device, pci_disable_device, pci_read_config_dword, pci_write_config_dword,
         Wrapper
<1>2. ASSUME NEW r \in {pci_enable_device(dev, ok), pci_read_config_dword(dev, isNull, ok),
                       pci_write_config_dword(dev, ok)}
      PROVE  /\ r.returned = 0 <=> r.called /\ ok
             /\ r.returned # 0 => IS_ERR(ERR_PTR(r.returned))
  <2>1. PICK valid \in BOOLEAN : r = Wrapper(valid, ok)
    BY <1>2 DEF pci_enable_device, pci_read_config_dword, pci_write_config_dword
  <2>2. EIO \in 1..MAX_ERRNO /\ EINVAL \in 1..MAX_ERRNO
    BY DEF EIO, EINVAL, MAX_ERRNO
  <2>3. r.returned \in {0, -EIO, -EINVAL} /\ (r.returned = 0 <=> r.called /\ ok)
    BY <2>1 DEF Wrapper, EIO, EINVAL
  <2>4. r.returned # 0 => IS_ERR(ERR_PTR(r.returned))
    BY <2>2, <2>3, ErrnoRoundTrip
  <2> QED
    BY <2>3, <2>4
<1> QED
  BY <1>1, <1>2

\* The remainder of a product that fits is the product, else it is smaller.
LEMMA Remainder ==
  \A x \in Nat, n \in Nat \ {0} :
    /\ x < n => x % n = x
    /\ x >= n => x % n < x
    /\ x % n \in 0..(n - 1)
OBVIOUS

\* A number below twice the modulus loses it at most once.
LEMMA RemainderOnce ==
  \A x \in Nat, n \in Nat \ {0} : x >= n /\ x < 2 * n => x % n = x - n
OBVIOUS

LEMMA Quotient ==
  \A s \in Nat, d \in Nat \ {0} :
    /\ (s \div d) * d <= s /\ s < (s \div d) * d + d
    /\ (s \div d) * d \in Int
OBVIOUS

\* The product of a delay in milliseconds, in a type whose largest value is max.
LEMMA Product ==
  ASSUME NEW max \in Nat, NEW m \in 0..max, NEW p, p = (m * 1000) % (max + 1)
  PROVE  /\ p \in Nat
         /\ m * 1000 <= max => p = m * 1000
         /\ m * 1000 > max => p < m * 1000
<1>1. PICK x \in Nat : x = m * 1000
  OBVIOUS
<1>2. PICK n \in Nat \ {0} : n = max + 1
  OBVIOUS
<1>3. p = x % n
  BY <1>1, <1>2
<1>4. /\ x < n => x % n = x
      /\ x >= n => x % n < x
      /\ x % n \in 0..(n - 1)
  BY Remainder
<1>5. (x <= max <=> x < n) /\ (x > max <=> x >= n)
  BY <1>2
<1>6. p \in Nat
  BY <1>3, <1>4
<1>7. (x <= max => p = x) /\ (x > max => p < x)
  BY <1>3, <1>4, <1>5
<1> QED
  BY <1>1, <1>6, <1>7

\* udelay and mdelay wait for as long as they are asked, mdelay unless the product
\* overflows: then it waits for less.
THEOREM DelaysExact ==
  ASSUME Widths, NEW u \in Ulongs
  PROVE  /\ udelay(u) = u
         /\ u * 1000 <= UlongMax => mdelay(u) = u * 1000
         /\ u * 1000 > UlongMax => mdelay(u) < u * 1000
<1>1. UlongMax \in Nat /\ u \in 0..UlongMax
  BY DEF Widths, Ulongs, UlongMax
<1>2. udelay(u) = u /\ mdelay(u) = (u * 1000) % (UlongMax + 1)
  BY DEF udelay, mdelay, IODelay
<1> HIDE DEF UlongMax
<1> QED
  BY <1>1, <1>2, Product

\* msleep gives IOSleep, which takes milliseconds, a number of microseconds: it sleeps
\* for a thousand times what it is asked, 1000 * m milliseconds for m, as long as the
\* product fits, and for less than that when it overflows.
THEOREM SleepsTooLong ==
  ASSUME Widths, NEW m \in Uints
  PROVE  /\ m * 1000 <= UintMax => msleep(m) = 1000 * (m * 1000)
         /\ m * 1000 <= UintMax /\ m # 0 => msleep(m) > m * 1000
         /\ m * 1000 > UintMax => msleep(m) < 1000 * (m * 1000)
<1>1. UintMax \in Nat /\ m \in 0..UintMax
  BY DEF Widths, Uints
<1> DEFINE p == (m * 1000) % (UintMax + 1)
<1>2. msleep(m) = p * 1000
  BY DEF msleep, IOSleep
<1>3. /\ p \in Nat
      /\ m * 1000 <= UintMax => p = m * 1000
      /\ m * 1000 > UintMax => p < m * 1000
  BY <1>1, Product
<1> HIDE DEF p
<1> QED
  BY <1>1, <1>2, <1>3

\* DIV_ROUND_UP is the least number of d's that make up n, unless n + d - 1
\* overflows: then it is too small.
THEOREM DivRoundUpExact ==
  ASSUME Widths, NEW n \in Ulongs, NEW d \in Ulongs \ {0},
         NEW q, q = DIV_ROUND_UP(n, d)
  PROVE  /\ n + d - 1 <= UlongMax => q * d >= n /\ q * d < n + d
         /\ n + d - 1 > UlongMax => q * d < n
<1> DEFINE a == n + d - 1
           N == UlongMax + 1
           s == a % N
<1>1. /\ n \in Nat /\ d \in Nat \ {0} /\ d < N /\ n < N /\ UlongMax \in Int
      /\ a \in Nat /\ N \in Nat \ {0}
  BY DEF Widths, Ulongs, UlongMax
<1>2. s \in Nat /\ (a < N => s = a)
  <2> HIDE DEF a, N
  <2>1. s \in 0..(N - 1) /\ (a < N => s = a)
    BY <1>1, Remainder
  <2> HIDE DEF s
  <2> QED
    BY <2>1
<1>3. a >= N => s = a - N
  <2>1. a < 2 * N
    BY <1>1
  <2> HIDE DEF a, N
  <2> QED
    BY <1>1, <2>1, RemainderOnce
<1>4. q = s \div d
  BY DEF DIV_ROUND_UP
<1>5. q * d <= s /\ s < q * d + d /\ q * d \in Int
  <2> HIDE DEF s
  <2> QED
    BY <1>1, <1>2, <1>4, Quotient
<1>6. CASE n + d - 1 <= UlongMax
  <2>1. s = n + d - 1
    BY <1>1, <1>2, <1>6
  <2> HIDE DEF s
  <2> QED
    BY <1>1, <1>5, <1>6, <2>1
<1>7. CASE n + d - 1 > UlongMax
  <2>1. s = n + d - 1 - N
    BY <1>1, <1>3, <1>7
  <2> HIDE DEF s
  <2> QED
    BY <1>1, <1>5, <1>7, <2>1
<1> QED
  BY <1>1, <1>6, <1>7

\* Between areas that do not overlap portMemCopy copies all of count bytes or none,
\* and changes nothing outside the destination's destSize bytes.
THEOREM CopyStaysInside ==
  ASSUME NEW size \in Nat, NEW Byte, NEW memory \in [0..size -> Byte],
         NEW dest \in Nat \ {0}, NEW destSize \in Nat, NEW src \in Nat, NEW count \in Nat,
         dest + destSize - 1 <= size, src + count - 1 <= size, Disjoint(dest, src, count),
         NEW c, c = portMemCopy(memory, dest, destSize, src, count)
  PROVE  /\ c.memory \in [0..size -> Byte]
         /\ \A a \in 0..size : c.memory[a] # memory[a] => a \in dest..(dest + destSize - 1)
         /\ c.returned # 0 => \A k \in 0..(count - 1) : c.memory[dest + k] = memory[src + k]
         /\ \A a \in src..(src + count - 1) : c.memory[a] = memory[a]
         /\ c.returned = 0 => c.memory = memory
<1>1. CASE destSize < count
  BY <1>1 DEF portMemCopy
<1>2. CASE destSize >= count
  <2>1. c.returned = dest
    BY <1>2 DEF portMemCopy
  <2>2. c.memory = [a \in 0..size |->
                      IF a \in dest..(dest + count - 1) THEN memory[a - dest + src]
                      ELSE memory[a]]
    BY <1>2 DEF portMemCopy
  <2>3. \A a \in dest..(dest + count - 1) : a - dest + src \in 0..size
    OBVIOUS
  <2>4. c.memory \in [0..size -> Byte]
    BY <2>2, <2>3
  <2>5. \A a \in 0..size : c.memory[a] # memory[a] => a \in dest..(dest + destSize - 1)
    BY <1>2, <2>2
  <2>6. \A k \in 0..(count - 1) : c.memory[dest + k] = memory[src + k]
    BY <1>2, <2>2
  <2>7. \A a \in src..(src + count - 1) : c.memory[a] = memory[a]
    BY <2>2 DEF Disjoint
  <2> QED
    BY <2>1, <2>4, <2>5, <2>6, <2>7
<1>3. destSize < count \/ destSize >= count
  OBVIOUS
<1> QED
  BY <1>1, <1>2, <1>3, Zenon
=============================================================================
