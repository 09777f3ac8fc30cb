\* Two goroutines and the documents of MCDocument.
CONSTANTS
  Proc = {p1, p2}
  Document <- MCDocument
  Field <- MCField
  Type <- MCType
  Segment <- MCSegment
  Blank = ""
  MaxDepth = 3
  NoSchema = NoSchema  NoDocument = NoDocument  NoType = NoType
SPECIFICATION Spec
INVARIANTS TypeOK ResultExact OneTeacher SchemaExact
