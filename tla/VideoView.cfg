CONSTANT MaxLogins = 3
SPECIFICATION Spec
INVARIANTS TypeOK PictureFollowsRequest
