SPECIFICATION Spec
CONSTANTS
  InBuf = 4
  OutBuf = 2
  Header = 1
  Footer = 2
  MaxData = 9
  MaxSize = 5
  MaxTail = 2
INVARIANT
  FooterLeftOnBuffer
